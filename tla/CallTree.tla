------------------------------ MODULE CallTree ------------------------------
(***************************************************************************)
(* What the call-frame recorder promises (spec section 4.3: the tracer     *)
(* "builds the call tree in lock-step with the VM call stack"), stated     *)
(* without t.callstack or t.statedCall's push and pop.                     *)
(*                                                                         *)
(*   open     the frames the VM has entered and not left, outermost first; *)
(*   calls    for every frame, its finished sub-calls in the order they    *)
(*            returned (trace.CallFrame.Calls);                            *)
(*   watched  whether each frame records state (IsState);                  *)
(*   stated   the open frames that record state, outermost first: the      *)
(*            frames CaptureState must update and whose innermost one      *)
(*            CaptureEnter inherits from.                                  *)
(*                                                                         *)
(* Frames are numbered in the order they are entered.  Whether a frame is  *)
(* watched is left open here; TxTracer decides it.                         *)
(***************************************************************************)
EXTENDS Integers, Sequences, SequencesExt

VARIABLES open, calls, watched, stated

ctvars == <<open, calls, watched, stated>>

\* The open frames that record state, in stack order.
OpenStated(o, wt) == SelectSeq(o, LAMBDA i : wt[i])

Init ==
    /\ open = << >>
    /\ calls = << >>
    /\ watched = << >>
    /\ stated = << >>

\* The transaction's frame is entered.
Begin(w) ==
    /\ calls = << >>
    /\ open' = << 1 >>
    /\ calls' = << << >> >>
    /\ watched' = << w >>
    /\ stated' = OpenStated(open', watched')

\* A sub-call is entered from the innermost open frame.
Enter(w) ==
    /\ open # << >>
    /\ LET id == Len(calls) + 1 IN
       /\ open' = Append(open, id)
       /\ calls' = Append(calls, << >>)
       /\ watched' = Append(watched, w)
       /\ stated' = OpenStated(open', watched')

\* The innermost sub-call returns and becomes the last child of its caller.
Exit ==
    /\ Len(open) >= 2
    /\ open' = Front(open)
    /\ calls' = [calls EXCEPT ![Last(open')] = Append(@, Last(open))]
    /\ stated' = OpenStated(open', watched)
    /\ UNCHANGED watched

\* A sub-call entered and left with no step in between (the pair of hooks
\* SELFDESTRUCT emits): a new frame that records no state becomes the last
\* child of the innermost open frame.
Leaf ==
    /\ open # << >>
    /\ LET id == Len(calls) + 1 IN
       calls' = Append([calls EXCEPT ![Last(open)] = Append(@, id)], << >>)
    /\ watched' = Append(watched, FALSE)
    /\ UNCHANGED <<open, stated>>

\* The transaction's frame returns.
Finish ==
    /\ Len(open) = 1
    /\ open' = << >>
    /\ stated' = << >>
    /\ UNCHANGED <<calls, watched>>

Next ==
    \/ \E w \in BOOLEAN : Begin(w) \/ Enter(w)
    \/ Exit
    \/ Leaf
    \/ Finish

Spec == Init /\ [][Next]_ctvars

=============================================================================
