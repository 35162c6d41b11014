---------------------------- MODULE MCBccGeometry ----------------------------
EXTENDS BccGeometry, TLC
Symmetry == Permutations(Cameras)

\* Even and uneven sizes, one that fills the slot, one that is shrunk, and one as the
\* test of the server sends it, with three channels.
SmallFrames == {[cols |-> f[1], rows |-> f[2], channels |-> f[3]] :
                  f \in {<<40, 24, 4>>, <<39, 23, 4>>, <<31, 9, 3>>, <<16, 16, 4>>, <<8, 17, 4>>,
                         <<80, 44, 4>>}}

\* What video_server sends: width(960), height(540), RGBA.
ServerFrames == {[cols |-> 960, rows |-> 540, channels |-> 4]}
=============================================================================
