------------------------------ MODULE Recognizer -----------------------------
(***************************************************************************)
(* What the functions that run a Thompson VM promise (README.markdown,     *)
(* "sre_vm_thompson_exec"): a call says SRE_OK if the stream has a match,  *)
(* SRE_DECLINED, at its end only, if it has none, and before its end it    *)
(* may say SRE_AGAIN.  IsMatch(prog, stream) is whether there is one.      *)
(***************************************************************************)
EXTENDS Integers, Sequences

CONSTANTS Programs, Streams, IsMatch(_, _)

VARIABLES
    prog,
    fed    \* By context: the stream, how much of it has been fed, and the last answer.

vars == <<prog, fed>>

Init == prog \in Programs /\ fed = <<>>

Open ==
    /\ \E s \in Streams : fed' = Append(fed, [stream |-> s, n |-> 0, out |-> "none"])
    /\ UNCHANGED prog

\* What a call may answer once n bytes of s have been fed, all of them if eof.
MayAnswer(out, s, n, eof) ==
    /\ out = "OK"       => IsMatch(prog, s)
    /\ out = "AGAIN"    => ~eof
    /\ out = "DECLINED" => eof /\ ~IsMatch(prog, s)

Call ==
    /\ \E c \in DOMAIN fed, eof \in BOOLEAN, out \in {"OK", "AGAIN", "DECLINED"} :
        LET s == fed[c].stream
        IN  /\ fed[c].out \in {"none", "AGAIN"}
            /\ \E n \in fed[c].n .. Len(s) :
                /\ eof => n = Len(s)
                /\ fed' = [fed EXCEPT ![c].n = n, ![c].out = out]
                /\ MayAnswer(out, s, n, eof)
    /\ UNCHANGED prog

Spec == Init /\ [][Open \/ Call]_vars
=============================================================================
