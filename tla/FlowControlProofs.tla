------------------------- MODULE FlowControlProofs -------------------------
(***************************************************************************)
(* Proofs about FlowControl, for every high and low water mark, every word *)
(* size and any number of messages.                                        *)
(***************************************************************************)
EXTENDS FlowControl, SequenceTheorems, TLAPS

\* The messages in the tunnel, in the channel and at the write task are some of
\* those that were read, so the count never reaches the word size.
Conserved ==
    tunnel + queue + (IF write_pc = "write" THEN 1 ELSE 0) <= nread

\* A RESUME is owed to, or on its way to, the multiplexer.
ResumeComing == resumes > 0 \/ write_pc = "resume"

\* The control messages in the tunnel leave the sending end unpaused.
LeavesUnpaused ==
    IF back = <<>> THEN ~read_paused ELSE back[Len(back)] = "Resume"

\* Without a RESUME to come, a sending end that is paused, or will be once the
\* tunnel is empty, has its PAUSE recorded in sent_pause.  In the step between
\* swap and try_send the record is ahead of the PAUSE.
PauseRecorded ==
    ~ResumeComing =>
        /\ mux_pc = "pause" => sent_pause /\ LeavesUnpaused
        /\ ~sent_pause => LeavesUnpaused

IInv == TypeOK /\ Conserved /\ PendingAgrees /\ PauseRecorded

-----------------------------------------------------------------------------

\* Taking the first control message leaves the last one in its place.
LEMMA TailLast ==
    ASSUME NEW S, NEW s \in Seq(S), s # <<>>
    PROVE  /\ Tail(s) \in Seq(S) /\ Head(s) \in S /\ Head(s) = s[1]
           /\ Tail(s) = <<>> => Len(s) = 1
           /\ Tail(s) # <<>> => Tail(s)[Len(Tail(s))] = s[Len(s)]
<1>1. /\ Tail(s) \in Seq(S) /\ Head(s) \in S
      /\ Len(Tail(s)) = Len(s) - 1
      /\ \A i \in 1 .. Len(Tail(s)) : Tail(s)[i] = s[i + 1]
  BY HeadTailProperties
<1>2. Len(s) \in Nat \ {0} /\ Len(Tail(s)) \in Nat
  BY <1>1, EmptySeq, LenProperties
<1>3. Tail(s) = <<>> => Len(Tail(s)) = 0
  BY EmptySeq
<1>4. Tail(s) # <<>> => Len(Tail(s)) \in Nat \ {0}
  BY <1>1, EmptySeq
<1>5. Head(s) = s[1]
  OBVIOUS
<1> QED
  BY <1>1, <1>2, <1>3, <1>4, <1>5

\* The invariant holds at the start: the channels are empty and nobody is paused.
LEMMA InvInit == Init => IInv
<1> SUFFICES ASSUME Init PROVE IInv
  OBVIOUS
<1>1. <<>> \in Seq({"Pause", "Resume"})
  BY EmptySeq
<1>2. 0 \in 0 .. MaxData /\ 0 \in 0 .. UsizeMod - 1
  BY WordAssumption
<1>3. TypeOK
  BY <1>1, <1>2 DEF Init, TypeOK
<1>4. Conserved /\ PendingAgrees /\ PauseRecorded
  BY DEF Init, Conserved, PendingAgrees, PauseRecorded, LeavesUnpaused
<1> QED
  BY <1>3, <1>4 DEF IInv

\* Every step keeps the types; the counter stays a word, wrapping or not.
LEMMA TypeStep == IInv /\ [Next]_vars => TypeOK'
<1> SUFFICES ASSUME IInv, [Next]_vars PROVE TypeOK'
  OBVIOUS
<1> USE WordAssumption DEF IInv, TypeOK, vars, readVars, muxVars
<1>0. /\ Append(back, "Pause") \in Seq({"Pause", "Resume"})
      /\ Append(back, "Resume") \in Seq({"Pause", "Resume"})
      /\ back # <<>> => Tail(back) \in Seq({"Pause", "Resume"})
  BY AppendProperties, HeadTailProperties
<1>1. CASE ReadChecks
  BY <1>1 DEF ReadChecks
<1>2. CASE ReadNotified
  BY <1>2 DEF ReadNotified
<1>3. CASE ReadSends
  BY <1>3 DEF ReadSends
<1>4. CASE PauseRead
  BY <1>0, <1>4 DEF PauseRead
<1>5. CASE ResumeRead
  BY <1>0, <1>5 DEF ResumeRead
<1>6. CASE NotifyOne
  BY <1>6 DEF NotifyOne
<1>7. CASE DataSend
  BY <1>7 DEF DataSend
<1>8. CASE DataCount
  BY <1>8 DEF DataCount, Incremented
<1>9. CASE DataSwap
  BY <1>9 DEF DataSwap
<1>10. CASE TrySendPause
  BY <1>0, <1>10 DEF TrySendPause
<1>11. CASE ForwardResume
  BY <1>0, <1>11 DEF ForwardResume
<1>12. CASE WriteReceives
  BY <1>12 DEF WriteReceives
<1>13. CASE WriteCounts
  BY <1>13 DEF WriteCounts, Decremented
<1>14. CASE WriteSwap
  BY <1>14 DEF WriteSwap
<1>15. CASE WriteSendsResume
  BY <1>15 DEF WriteSendsResume
<1>16. CASE UNCHANGED vars
  BY <1>16
<1> QED
  BY <1>1, <1>2, <1>3, <1>4, <1>5, <1>6, <1>7, <1>8, <1>9, <1>10, <1>11, <1>12, <1>13, <1>14, <1>15, <1>16 DEF Next, Read, Peer, Mux, Write

\* Every step keeps the count right: adding and subtracting one each wrap, and the
\* messages there are leave no room for the count to meet itself on the way round.
LEMMA CountStep == IInv /\ [Next]_vars => (Conserved /\ PendingAgrees)'
<1> SUFFICES ASSUME IInv, [Next]_vars PROVE Conserved' /\ PendingAgrees'
  OBVIOUS
<1> USE WordAssumption DEF IInv, TypeOK, Conserved, PendingAgrees, Incremented, vars, readVars, muxVars
<1>1. CASE ReadChecks
  BY <1>1 DEF ReadChecks
<1>2. CASE ReadNotified
  BY <1>2 DEF ReadNotified
<1>3. CASE ReadSends
  BY <1>3 DEF ReadSends
<1>4. CASE PauseRead
  BY <1>4 DEF PauseRead
<1>5. CASE ResumeRead
  BY <1>5 DEF ResumeRead
<1>6. CASE NotifyOne
  BY <1>6 DEF NotifyOne
<1>7. CASE DataSend
  BY <1>7 DEF DataSend
<1>8. CASE DataCount
  BY <1>8 DEF DataCount
<1>9. CASE DataSwap
  BY <1>9 DEF DataSwap
<1>10. CASE TrySendPause
  BY <1>10 DEF TrySendPause
<1>11. CASE ForwardResume
  BY <1>11 DEF ForwardResume
<1>12. CASE WriteReceives
  BY <1>12 DEF WriteReceives
<1>13. CASE WriteCounts
  BY <1>13 DEF WriteCounts, Decremented
<1>14. CASE WriteSwap
  BY <1>14 DEF WriteSwap
<1>15. CASE WriteSendsResume
  BY <1>15 DEF WriteSendsResume
<1>16. CASE UNCHANGED vars
  BY <1>16
<1> QED
  BY <1>1, <1>2, <1>3, <1>4, <1>5, <1>6, <1>7, <1>8, <1>9, <1>10, <1>11, <1>12, <1>13, <1>14, <1>15, <1>16 DEF Next, Read, Peer, Mux, Write

\* Every step keeps the record of the last PAUSE or RESUME under way, or else of the
\* flag at the sending end.
LEMMA PauseStep == IInv /\ [Next]_vars => PauseRecorded'
<1> SUFFICES ASSUME IInv, [Next]_vars PROVE PauseRecorded'
  OBVIOUS
<1> USE DEF IInv, TypeOK, PauseRecorded, ResumeComing, LeavesUnpaused, vars, readVars, muxVars
<1>0. ASSUME NEW m \in {"Pause", "Resume"}
      PROVE  Append(back, m) # <<>> /\ Append(back, m)[Len(Append(back, m))] = m
  BY AppendProperties
<1>1. CASE ReadChecks
  BY <1>1 DEF ReadChecks
<1>2. CASE ReadNotified
  BY <1>2 DEF ReadNotified
<1>3. CASE ReadSends
  BY <1>3 DEF ReadSends
<1>4. CASE PauseRead
  <2>1. /\ back # <<>> /\ back' = Tail(back)
        /\ Tail(back) = <<>> => Len(back) = 1
        /\ Tail(back) # <<>> => Tail(back)[Len(Tail(back))] = back[Len(back)]
        /\ Head(back) = back[1]
    BY <1>4, TailLast DEF PauseRead
  <2> QED
    BY <1>4, <2>1 DEF PauseRead
<1>5. CASE ResumeRead
  <2>1. /\ back # <<>> /\ back' = Tail(back)
        /\ Tail(back) = <<>> => Len(back) = 1
        /\ Tail(back) # <<>> => Tail(back)[Len(Tail(back))] = back[Len(back)]
        /\ Head(back) = back[1]
    BY <1>5, TailLast DEF ResumeRead
  <2> QED
    BY <1>5, <2>1 DEF ResumeRead
<1>6. CASE NotifyOne
  BY <1>6 DEF NotifyOne
<1>7. CASE DataSend
  BY <1>7 DEF DataSend
<1>8. CASE DataCount
  BY <1>8 DEF DataCount
<1>9. CASE DataSwap
  BY <1>9 DEF DataSwap
<1>10. CASE TrySendPause
  BY <1>0, <1>10 DEF TrySendPause
<1>11. CASE ForwardResume
  BY <1>0, <1>11 DEF ForwardResume
<1>12. CASE WriteReceives
  BY <1>12 DEF WriteReceives
<1>13. CASE WriteCounts
  BY <1>13 DEF WriteCounts
<1>14. CASE WriteSwap
  BY <1>14 DEF WriteSwap
<1>15. CASE WriteSendsResume
  BY <1>15 DEF WriteSendsResume
<1>16. CASE UNCHANGED vars
  BY <1>16
<1> QED
  BY <1>1, <1>2, <1>3, <1>4, <1>5, <1>6, <1>7, <1>8, <1>9, <1>10, <1>11, <1>12, <1>13, <1>14, <1>15, <1>16 DEF Next, Read, Peer, Mux, Write

\* The invariant that the theorems below follow from holds in every behaviour.
THEOREM Invariance == Spec => []IInv
<1>1. IInv /\ [Next]_vars => IInv'
  BY TypeStep, CountStep, PauseStep DEF IInv
<1> QED
  BY InvInit, <1>1, PTL DEF Spec

\* The counter agrees with the channel, although the two tasks race for it and it
\* wraps: the low-water test of the write task is taken on the true count.
THEOREM CounterAgrees == Spec => []PendingAgrees
<1>1. IInv => PendingAgrees
  BY DEF IInv
<1> QED
  BY Invariance, <1>1, PTL

\* When nothing is in flight, the receiving end knows that it keeps the sending
\* end paused.
THEOREM PausedKnown == Spec => []PausedIsKnown
<1>1. IInv => PausedIsKnown
  BY DEF IInv, TypeOK, PauseRecorded, ResumeComing, LeavesUnpaused, PausedIsKnown, Settled
<1> QED
  BY Invariance, <1>1, PTL

\* Type correctness, a word-sized counter included, holds in every behaviour.
THEOREM TypeCorrect == Spec => []TypeOK
<1>1. IInv => TypeOK
  BY DEF IInv
<1> QED
  BY Invariance, <1>1, PTL

\* The read task looks at the flag and then waits; however the RESUME that clears the
\* flag falls between the two, the notification that follows it stays for the read
\* task to find.
THEOREM WakeupKept == Spec => []NoLostWakeup
<1>1. Init => NoLostWakeup
  BY DEF Init, NoLostWakeup
<1>2. TypeOK /\ NoLostWakeup /\ [Next]_vars => NoLostWakeup'
  <2> SUFFICES ASSUME TypeOK, NoLostWakeup, [Next]_vars PROVE NoLostWakeup'
    OBVIOUS
  <2> USE DEF TypeOK, NoLostWakeup, vars, readVars
  <2>1. CASE ReadChecks
    BY <2>1 DEF ReadChecks
  <2>2. CASE ReadNotified
    BY <2>2 DEF ReadNotified
  <2>3. CASE ReadSends
    BY <2>3 DEF ReadSends
  <2>4. CASE PauseRead
    BY <2>4 DEF PauseRead
  <2>5. CASE ResumeRead
    BY <2>5 DEF ResumeRead
  <2>6. CASE NotifyOne
    BY <2>6 DEF NotifyOne
  <2>7. CASE Mux
    BY <2>7 DEF Mux, DataSend, DataCount, DataSwap, TrySendPause, ForwardResume
  <2>8. CASE Write
    BY <2>8 DEF Write, WriteReceives, WriteCounts, WriteSwap, WriteSendsResume
  <2>9. CASE UNCHANGED vars
    BY <2>9
  <2> QED
    BY <2>1, <2>2, <2>3, <2>4, <2>5, <2>6, <2>7, <2>8, <2>9 DEF Next, Read, Peer
<1> QED
  BY <1>1, <1>2, TypeCorrect, PTL DEF Spec
=============================================================================
