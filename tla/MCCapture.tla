------------------------------ MODULE MCCapture ------------------------------
(* Two interchangeable streams.                                            *)
EXTENDS Capture, TLC

CONSTANTS a, b
MCKeys == {a, b}
KeySymmetry == Permutations(MCKeys)

=============================================================================
