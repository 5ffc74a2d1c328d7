---------------------------- MODULE MCSupervisor -----------------------------
(***************************************************************************)
(* Two components, of which the first answers over HTTP; the third is      *)
(* treated as the second.                                                  *)
(***************************************************************************)
EXTENDS Supervisor

TwoComponents == <<"victoriametrics", "forwarder">>
SomePids == 1..9
OneWeb == {"victoriametrics"}

=============================================================================
