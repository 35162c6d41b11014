--------------------------- MODULE MCYolov3Camera ---------------------------
EXTENDS Yolov3Camera
=============================================================================
