------------------------------ MODULE BlockRead ------------------------------
(***************************************************************************)
(* What SigningIdentityUtil.getSpecificBlock promises: a call is answered  *)
(* once, with the block it asked for or not at all.  One that asked for    *)
(* the newest gets a block that was the newest at some time of the call.   *)
(***************************************************************************)
EXTENDS Integers

CONSTANTS Calls, Wanted, Newest, NoAnswer, Failed

VARIABLES
    height,  \* number of the newest block
    asked,   \* per call: the height when it began
    answer   \* per call: NoAnswer, Failed or the number of a block

vars == <<height, asked, answer>>

Init ==
    /\ height = 0
    /\ asked = [c \in Calls |-> 0]
    /\ answer = [c \in Calls |-> NoAnswer]

NewBlock == height' = height + 1 /\ UNCHANGED <<asked, answer>>

Begin(c) ==
    /\ answer[c] = NoAnswer
    /\ asked' = [asked EXCEPT ![c] = height]
    /\ UNCHANGED <<height, answer>>

Blocks(c) ==
    IF Wanted[c] = Newest THEN asked[c]..height ELSE {Wanted[c]} \cap 0..height

Answer(c, a) ==
    /\ answer[c] = NoAnswer
    /\ answer' = [answer EXCEPT ![c] = a]
    /\ UNCHANGED <<height, asked>>

Next ==
    \/ NewBlock
    \/ \E c \in Calls : Begin(c) \/ Answer(c, Failed) \/ \E n \in Blocks(c) : Answer(c, n)

Spec == Init /\ [][Next]_vars
=============================================================================
