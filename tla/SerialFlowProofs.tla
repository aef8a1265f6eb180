-------------------------- MODULE SerialFlowProofs --------------------------
(***************************************************************************)
(* Proofs about SerialFlow.  The inductive invariant adds to the three     *)
(* properties and the types that only a setting which uses it holds        *)
(* reception, and that an XOFF is to be sent only while it is held by XOFF *)
(* (HoldsBelong).  One lemma per part has one step per action.             *)
(***************************************************************************)
EXTENDS SerialFlow, TLAPS

FlowInv ==
    TypeOK /\ AttemptsExact /\ RtsUpWhileSending /\ HoldsMatchBuffer /\ HoldsBelong

\* What every branch of the THR interrupt shares.
ThrFrame ==
    /\ IsOpen /\ thr = "irq"
    /\ UNCHANGED <<handFlow, shift, timer, perhapsDpc, phase>>

\* Every setting has one of the four modes of RTS, so that each case of SetupRts is
\* met.
LEMMA HandFlowModes ==
    \A h \in HandFlows : h.rts \in {"disable", "control", "handshake", "toggle"}
BY SerialFlowAssumption DEF HandFlowType

\* Every step that begins or ends an attempt counts it.
LEMMA AttemptsStep ==
    ASSUME TypeOK, AttemptsExact, [Next]_vars
    PROVE  AttemptsExact'
<1> USE SerialFlowAssumption DEF vars, receiveVars, transmitVars, pollVars, TypeOK, AttemptsExact
<1>1. CASE PutChar
    BY <1>1 DEF PutChar, TooFull, Prod, Tickled, Reason
<1>2. CASE \E n \in 0..BufferSize : Reduce(n)
    BY <1>2 DEF Reduce, Reduced, Prod, Tickled
<1>3. CASE SendXon /\ ThrFrame
    BY <1>3 DEF SendXon, Send, InsertIfToggling, InsertStartDpc, ThrFrame
<1>4. CASE SendXoff /\ ThrFrame
    BY <1>4 DEF SendXoff, Send, InsertIfToggling, InsertStartDpc, Reason, ThrFrame
<1>5. CASE SendWrite /\ ThrFrame
    BY <1>5 DEF SendWrite, Send, InsertIfToggling, InsertStartDpc, ThrFrame
<1>6. CASE SendNothing /\ ThrFrame
    BY <1>6 DEF SendNothing, ThrFrame
<1>7. CASE Shift
    BY <1>7 DEF Shift
<1>8. CASE ShiftOut
    BY <1>8 DEF ShiftOut
<1>9. CASE Xoff
    BY <1>9 DEF Xoff, InsertIfToggling, InsertStartDpc
<1>10. CASE Xon
    BY <1>10 DEF Xon, LetGo, Tickled
<1>11. CASE CtsDrops
    BY <1>11 DEF CtsDrops, InsertIfToggling, InsertStartDpc
<1>12. CASE CtsRises
    BY <1>12 DEF CtsRises, LetGo, Tickled
<1>13. CASE TurnOnBreak
    BY <1>13 DEF TurnOnBreak
<1>14. CASE TurnOffBreak
    BY <1>14 DEF TurnOffBreak, BreakOff, LetGo, Tickled, PerhapsLowerRTS, InsertStartDpc
<1>15. CASE StartWrite
    BY <1>15 DEF StartWrite
<1>16. CASE GiveWrite
    BY <1>16 DEF GiveWrite, Tickled
<1>17. CASE NextWrite
    BY <1>17 DEF NextWrite
<1>18. CASE \E awaited \in BOOLEAN : LastWrite(awaited)
    BY <1>18 DEF LastWrite, PerhapsLowerRTS, InsertStartDpc
<1>19. CASE StartTimerLowerRTS
    BY <1>19 DEF StartTimerLowerRTS
<1>20. CASE Expire
    BY <1>20 DEF Expire
<1>21. CASE InvokePerhapsLowerRTS
    BY <1>21 DEF InvokePerhapsLowerRTS, PerhapsLowerRTS, InsertStartDpc
<1>22. CASE \E h \in HandFlows : SetHandFlow(h)
    BY <1>22 DEF SetHandFlow, SetupRts, RxHoldingFor, XonXoffFor, Reason, Tickled, InsertStartDpc
<1>23. CASE \E up \in BOOLEAN : SetRts(up)
    BY <1>23 DEF SetRts
<1>24. CASE BeginClose
    BY <1>24 DEF BeginClose, BreakOff, LetGo, Tickled, PerhapsLowerRTS, InsertStartDpc
<1>25. CASE DrainClose
    BY <1>25 DEF DrainClose
<1>26. CASE EndClose
    BY <1>26 DEF EndClose
<1>27. CASE UNCHANGED vars
    BY <1>27
<1> QED
    BY <1>1, <1>2, <1>3, <1>4, <1>5, <1>6, <1>7, <1>8, <1>9, <1>10, <1>11, <1>12, <1>13, <1>14, <1>15, <1>16, <1>17, <1>18, <1>19, <1>20, <1>21, <1>22, <1>23, <1>24, <1>25, <1>26, <1>27 DEF Next, ThrInterrupt, ThrFrame

\* Every step keeps the types; the count of attempts does not fall below zero
\* because it is exact.
LEMMA TypeStep ==
    ASSUME TypeOK, AttemptsExact, [Next]_vars
    PROVE  TypeOK'
<1> USE SerialFlowAssumption DEF vars, receiveVars, transmitVars, pollVars, TypeOK, IsOpen, Toggling, HardwareBusy
<1>a. tries' \in Nat
    BY AttemptsStep DEF AttemptsExact
<1>1. CASE PutChar
    BY <1>a, <1>1 DEF PutChar, TooFull, Prod, Tickled, Reason
<1>2. CASE \E n \in 0..BufferSize : Reduce(n)
    BY <1>a, <1>2 DEF Reduce, Reduced, Prod, Tickled
<1>3. CASE SendXon /\ ThrFrame
    BY <1>a, <1>3 DEF SendXon, Send, InsertIfToggling, InsertStartDpc, ThrFrame
<1>4. CASE SendXoff /\ ThrFrame
    BY <1>a, <1>4 DEF SendXoff, Send, InsertIfToggling, InsertStartDpc, Reason, ThrFrame
<1>5. CASE SendWrite /\ ThrFrame
    BY <1>a, <1>5 DEF SendWrite, Send, InsertIfToggling, InsertStartDpc, ThrFrame
<1>6. CASE SendNothing /\ ThrFrame
    BY <1>a, <1>6 DEF SendNothing, ThrFrame
<1>7. CASE Shift
    BY <1>a, <1>7 DEF Shift
<1>8. CASE ShiftOut
    BY <1>a, <1>8 DEF ShiftOut
<1>9. CASE Xoff
    BY <1>a, <1>9 DEF Xoff, InsertIfToggling, InsertStartDpc
<1>10. CASE Xon
    BY <1>a, <1>10 DEF Xon, LetGo, Tickled
<1>11. CASE CtsDrops
    BY <1>a, <1>11 DEF CtsDrops, InsertIfToggling, InsertStartDpc
<1>12. CASE CtsRises
    BY <1>a, <1>12 DEF CtsRises, LetGo, Tickled
<1>13. CASE TurnOnBreak
    BY <1>a, <1>13 DEF TurnOnBreak
<1>14. CASE TurnOffBreak
    BY <1>a, <1>14 DEF TurnOffBreak, BreakOff, LetGo, Tickled, PerhapsLowerRTS, InsertStartDpc
<1>15. CASE StartWrite
    BY <1>a, <1>15 DEF StartWrite
<1>16. CASE GiveWrite
    BY <1>a, <1>16 DEF GiveWrite, Tickled
<1>17. CASE NextWrite
    BY <1>a, <1>17 DEF NextWrite
<1>18. CASE \E awaited \in BOOLEAN : LastWrite(awaited)
    BY <1>a, <1>18 DEF LastWrite, PerhapsLowerRTS, InsertStartDpc
<1>19. CASE StartTimerLowerRTS
    BY <1>a, <1>19 DEF StartTimerLowerRTS
<1>20. CASE Expire
    BY <1>a, <1>20 DEF Expire
<1>21. CASE InvokePerhapsLowerRTS
  <2>1. startDpc' \in BOOLEAN
      BY <1>21 DEF InvokePerhapsLowerRTS, PerhapsLowerRTS, InsertStartDpc
  <2>2. rts' \in BOOLEAN
      BY <1>21 DEF InvokePerhapsLowerRTS, PerhapsLowerRTS
  <2> QED
      BY <1>a, <1>21, <2>1, <2>2 DEF InvokePerhapsLowerRTS
<1>22. CASE \E h \in HandFlows : SetHandFlow(h)
  <2>1. PICK h \in HandFlows : SetHandFlow(h)
      BY <1>22
  <2>2. rxHolding' \subseteq {"rts", "xoff"}
      BY <2>1 DEF SetHandFlow, RxHoldingFor, Reason
  <2>3. toSend' \in {"none", "xon", "xoff"}
      BY <2>1 DEF SetHandFlow, XonXoffFor
  <2>4. txHolding' \subseteq {"xoff", "cts", "break"}
      BY <2>1 DEF SetHandFlow
  <2>5. rts' \in BOOLEAN /\ thr' \in {"full", "irq", "idle"} /\ startDpc' \in BOOLEAN
    <3>1. rts' \in BOOLEAN
        BY <2>1, HandFlowModes DEF SetHandFlow, SetupRts
    <3>2. thr' \in {"full", "irq", "idle"} /\ startDpc' \in BOOLEAN
        BY <2>1 DEF SetHandFlow, Tickled, InsertStartDpc
    <3> QED
        BY <3>1, <3>2
  <2> QED
      BY <1>a, <2>1, <2>2, <2>3, <2>4, <2>5 DEF SetHandFlow
<1>23. CASE \E up \in BOOLEAN : SetRts(up)
    BY <1>a, <1>23 DEF SetRts
<1>24. CASE BeginClose
    BY <1>a, <1>24 DEF BeginClose, BreakOff, LetGo, Tickled, PerhapsLowerRTS, InsertStartDpc
<1>25. CASE DrainClose
    BY <1>a, <1>25 DEF DrainClose
<1>26. CASE EndClose
    BY <1>a, <1>26 DEF EndClose
<1>27. CASE UNCHANGED vars
    BY <1>27
<1> QED
    BY <1>1, <1>2, <1>3, <1>4, <1>5, <1>6, <1>7, <1>8, <1>9, <1>10, <1>11, <1>12, <1>13, <1>14, <1>15, <1>16, <1>17, <1>18, <1>19, <1>20, <1>21, <1>22, <1>23, <1>24, <1>25, <1>26, <1>27 DEF Next, ThrInterrupt, ThrFrame

\* No step lowers RTS in toggle mode with a character in the hardware, and none
\* puts one there with RTS low.
LEMMA RtsStep ==
    ASSUME TypeOK, RtsUpWhileSending, [Next]_vars
    PROVE  RtsUpWhileSending'
<1> USE SerialFlowAssumption DEF vars, receiveVars, transmitVars, pollVars, TypeOK, RtsUpWhileSending, IsOpen, Toggling, HardwareBusy
<1>1. CASE PutChar
    BY <1>1 DEF PutChar, TooFull, Prod, Tickled, Reason
<1>2. CASE \E n \in 0..BufferSize : Reduce(n)
    BY <1>2 DEF Reduce, Reduced, Prod, Tickled
<1>3. CASE SendXon /\ ThrFrame
    BY <1>3 DEF SendXon, Send, InsertIfToggling, InsertStartDpc, ThrFrame
<1>4. CASE SendXoff /\ ThrFrame
    BY <1>4 DEF SendXoff, Send, InsertIfToggling, InsertStartDpc, Reason, ThrFrame
<1>5. CASE SendWrite /\ ThrFrame
    BY <1>5 DEF SendWrite, Send, InsertIfToggling, InsertStartDpc, ThrFrame
<1>6. CASE SendNothing /\ ThrFrame
    BY <1>6 DEF SendNothing, ThrFrame
<1>7. CASE Shift
    BY <1>7 DEF Shift
<1>8. CASE ShiftOut
    BY <1>8 DEF ShiftOut
<1>9. CASE Xoff
    BY <1>9 DEF Xoff, InsertIfToggling, InsertStartDpc
<1>10. CASE Xon
    BY <1>10 DEF Xon, LetGo, Tickled
<1>11. CASE CtsDrops
    BY <1>11 DEF CtsDrops, InsertIfToggling, InsertStartDpc
<1>12. CASE CtsRises
    BY <1>12 DEF CtsRises, LetGo, Tickled
<1>13. CASE TurnOnBreak
    BY <1>13 DEF TurnOnBreak
<1>14. CASE TurnOffBreak
    BY <1>14 DEF TurnOffBreak, BreakOff, LetGo, Tickled, PerhapsLowerRTS, InsertStartDpc
<1>15. CASE StartWrite
    BY <1>15 DEF StartWrite
<1>16. CASE GiveWrite
    BY <1>16 DEF GiveWrite, Tickled
<1>17. CASE NextWrite
    BY <1>17 DEF NextWrite
<1>18. CASE \E awaited \in BOOLEAN : LastWrite(awaited)
    BY <1>18 DEF LastWrite, PerhapsLowerRTS, InsertStartDpc
<1>19. CASE StartTimerLowerRTS
    BY <1>19 DEF StartTimerLowerRTS
<1>20. CASE Expire
    BY <1>20 DEF Expire
<1>21. CASE InvokePerhapsLowerRTS
    BY <1>21 DEF InvokePerhapsLowerRTS, PerhapsLowerRTS, InsertStartDpc
<1>22. CASE \E h \in HandFlows : SetHandFlow(h)
  <2>1. PICK h \in HandFlows : SetHandFlow(h)
      BY <1>22
  <2>2. IsOpen /\ handFlow' = h /\ SetupRts(h) /\ shift' = shift
      BY <2>1 DEF SetHandFlow
  <2>3. (thr' = "full" => thr = "full") /\ ("break" \in txHolding' => "break" \in txHolding)
      BY <2>1 DEF SetHandFlow, Tickled
  <2>4. CASE h.rts # "toggle"
      BY <2>2, <2>4
  <2>5. CASE h.rts = "toggle" /\ handFlow.rts = "toggle"
      BY <2>2, <2>3, <2>5 DEF SetupRts
  <2>6. CASE h.rts = "toggle" /\ handFlow.rts # "toggle"
    <3>1. rts' = ("break" \in txHolding \/ HardwareBusy \/ write # "none")
        BY <2>2, <2>6 DEF SetupRts
    <3> QED
        BY <2>3, <2>2, <3>1
  <2> QED
      BY <2>4, <2>5, <2>6
<1>23. CASE \E up \in BOOLEAN : SetRts(up)
    BY <1>23 DEF SetRts
<1>24. CASE BeginClose
    BY <1>24 DEF BeginClose, BreakOff, LetGo, Tickled, PerhapsLowerRTS, InsertStartDpc
<1>25. CASE DrainClose
    BY <1>25 DEF DrainClose
<1>26. CASE EndClose
    BY <1>26 DEF EndClose
<1>27. CASE UNCHANGED vars
    BY <1>27
<1> QED
    BY <1>1, <1>2, <1>3, <1>4, <1>5, <1>6, <1>7, <1>8, <1>9, <1>10, <1>11, <1>12, <1>13, <1>14, <1>15, <1>16, <1>17, <1>18, <1>19, <1>20, <1>21, <1>22, <1>23, <1>24, <1>25, <1>26, <1>27 DEF Next, ThrInterrupt, ThrFrame

\* Every step that fills or empties the buffer, sends XON or XOFF or changes the
\* settings keeps the reasons to hold reception true to the buffer.
LEMMA HoldsStep ==
    ASSUME TypeOK, HoldsMatchBuffer, HoldsBelong, [Next]_vars
    PROVE  (HoldsMatchBuffer /\ HoldsBelong)'
<1> USE SerialFlowAssumption DEF vars, receiveVars, transmitVars, pollVars, TypeOK, HoldsMatchBuffer, HoldsBelong, IsOpen, TooFull, Toggling, HardwareBusy
<1>1. CASE PutChar
  <2> DEFINE full == BufferSize - XoffLimit <= chars + 1
  <2>1. /\ IsOpen /\ handFlow' = handFlow /\ peer' = peer
        /\ rts' = (rts /\ ~(full /\ handFlow.rts = "handshake"))
      BY <1>1 DEF PutChar
  <2>2. "rts" \in rxHolding' <=> "rts" \in rxHolding \/ (full /\ handFlow.rts = "handshake")
      BY <1>1 DEF PutChar, Reason
  <2>3. "xoff" \in rxHolding' <=> "xoff" \in rxHolding \/ (full /\ handFlow.autoReceive)
      BY <1>1 DEF PutChar, Reason
  <2>4. \/ toSend' = toSend
        \/ toSend' = "xoff" /\ "xoff" \notin rxHolding /\ "xoff" \in rxHolding'
      BY <1>1 DEF PutChar, Prod, Reason
  <2>5. /\ chars' >= chars /\ chars' \in Nat
        /\ full => chars' > XonLimit
        /\ BufferSize - XoffLimit <= chars' => full
      BY <1>1 DEF PutChar
  <2>6. chars \in Nat
      OBVIOUS
  <2>7. HoldsBelong'
      BY <2>1, <2>2, <2>3, <2>4
  <2>8. ASSUME handFlow.rts = "handshake"
        PROVE  (rts' <=> "rts" \notin rxHolding') /\ (full => "rts" \in rxHolding')
    <3>1. rts <=> "rts" \notin rxHolding
        BY <2>1, <2>8
    <3> HIDE DEF full
    <3> QED
        BY <3>1, <2>1, <2>2, <2>8
  <2>9. "rts" \in rxHolding' => chars' > XonLimit
      BY <2>1, <2>2, <2>5, <2>6
  <2>10. "xoff" \in rxHolding' => chars' > XonLimit \/ toSend' = "xon"
      BY <2>1, <2>3, <2>4, <2>5, <2>6
  <2>11. peer' = "xoff" => "xoff" \in rxHolding' \/ toSend' = "xon"
      BY <2>1, <2>3, <2>4
  <2> QED
      BY <2>1, <2>5, <2>7, <2>8, <2>9, <2>10, <2>11
<1>2. CASE \E n \in 0..BufferSize : Reduce(n)
  <2>1. PICK n \in 0..BufferSize : Reduce(n)
      BY <1>2
  <2>2. /\ IsOpen /\ handFlow' = handFlow /\ peer' = peer
        /\ chars' = n /\ n < chars
      BY <2>1 DEF Reduce, Reduced
  <2>3. CASE n <= XonLimit
    <3>1. /\ rxHolding' = rxHolding \ {"rts"}
          /\ rts' = (rts \/ "rts" \in rxHolding)
          /\ toSend' = IF "xoff" \in rxHolding THEN "xon" ELSE toSend
        BY <2>1, <2>3 DEF Reduce, Reduced, Prod
    <3>2. ~(BufferSize - XoffLimit <= chars')
        BY <2>2, <2>3
    <3> QED
        BY <2>2, <3>1, <3>2
  <2>4. CASE n > XonLimit
    <3>1. rxHolding' = rxHolding /\ rts' = rts /\ toSend' = toSend
        BY <2>1, <2>4 DEF Reduce, Reduced
    <3>2. chars' > XonLimit /\ (BufferSize - XoffLimit <= chars' => BufferSize - XoffLimit <= chars)
        BY <2>2, <2>4
    <3> QED
        BY <2>2, <3>1, <3>2
  <2> QED
      BY <2>3, <2>4
<1>3. CASE SendXon /\ ThrFrame
    BY <1>3 DEF SendXon, Send, InsertIfToggling, InsertStartDpc, ThrFrame
<1>4. CASE SendXoff /\ ThrFrame
    BY <1>4 DEF SendXoff, Send, InsertIfToggling, InsertStartDpc, Reason, ThrFrame
<1>5. CASE SendWrite /\ ThrFrame
    BY <1>5 DEF SendWrite, Send, InsertIfToggling, InsertStartDpc, ThrFrame
<1>6. CASE SendNothing /\ ThrFrame
    BY <1>6 DEF SendNothing, ThrFrame
<1>7. CASE Shift
    BY <1>7 DEF Shift
<1>8. CASE ShiftOut
    BY <1>8 DEF ShiftOut
<1>9. CASE Xoff
    BY <1>9 DEF Xoff, InsertIfToggling, InsertStartDpc
<1>10. CASE Xon
    BY <1>10 DEF Xon, LetGo, Tickled
<1>11. CASE CtsDrops
    BY <1>11 DEF CtsDrops, InsertIfToggling, InsertStartDpc
<1>12. CASE CtsRises
    BY <1>12 DEF CtsRises, LetGo, Tickled
<1>13. CASE TurnOnBreak
    BY <1>13 DEF TurnOnBreak
<1>14. CASE TurnOffBreak
    BY <1>14 DEF TurnOffBreak, BreakOff, LetGo, Tickled, PerhapsLowerRTS, InsertStartDpc
<1>15. CASE StartWrite
    BY <1>15 DEF StartWrite
<1>16. CASE GiveWrite
    BY <1>16 DEF GiveWrite, Tickled
<1>17. CASE NextWrite
    BY <1>17 DEF NextWrite
<1>18. CASE \E awaited \in BOOLEAN : LastWrite(awaited)
    BY <1>18 DEF LastWrite, PerhapsLowerRTS, InsertStartDpc
<1>19. CASE StartTimerLowerRTS
    BY <1>19 DEF StartTimerLowerRTS
<1>20. CASE Expire
    BY <1>20 DEF Expire
<1>21. CASE InvokePerhapsLowerRTS
    BY <1>21 DEF InvokePerhapsLowerRTS, PerhapsLowerRTS, InsertStartDpc
<1>22. CASE \E h \in HandFlows : SetHandFlow(h)
  <2>1. PICK h \in HandFlows : SetHandFlow(h)
      BY <1>22
  <2>2. /\ IsOpen /\ handFlow' = h /\ peer' = peer /\ chars' = chars
        /\ SetupRts(h) /\ toSend' = XonXoffFor(h) /\ rxHolding' = RxHoldingFor(h)
      BY <2>1 DEF SetHandFlow
  <2> DEFINE full == BufferSize - XoffLimit <= chars
  <2>3. "rts" \in rxHolding' <=>
            h.rts = "handshake" /\ ("rts" \in rxHolding \/ (full /\ handFlow.rts # "handshake"))
      BY <2>2 DEF RxHoldingFor, Reason
  <2>4. "xoff" \in rxHolding' <=>
            h.autoReceive /\ ("xoff" \in rxHolding \/ (full /\ ~handFlow.autoReceive))
      BY <2>2 DEF RxHoldingFor, Reason
  <2>5. /\ h.rts = handFlow.rts => rts' = rts
        /\ h.rts = "handshake" /\ handFlow.rts # "handshake" => rts' = ~full
      BY <2>2 DEF SetupRts
  <2>6. /\ handFlow.autoReceive /\ ~h.autoReceive /\ "xoff" \in rxHolding => toSend' = "xon"
        /\ h.autoReceive /\ ~handFlow.autoReceive /\ full => toSend' \in {"xon", "xoff"}
        /\ toSend' # toSend =>
              \/ toSend' = "xon"
              \/ toSend' = "xoff" /\ h.autoReceive /\ ~handFlow.autoReceive /\ full
      BY <2>2 DEF XonXoffFor
  <2>7. full => chars > XonLimit
      OBVIOUS
  <2> HIDE DEF full
  <2>8. HoldsBelong'
      BY <2>2, <2>3, <2>4, <2>6
  <2>9. HoldsMatchBuffer'
    <3>1. handFlow'.rts = "handshake" =>
              (rts' <=> "rts" \notin rxHolding') /\ (full => "rts" \in rxHolding')
      <4>1. CASE h.rts = "handshake" /\ handFlow.rts = "handshake"
        <5>1. (rts <=> "rts" \notin rxHolding) /\ (full => "rts" \in rxHolding)
            BY <2>2, <4>1 DEF full
        <5> QED
            BY <2>2, <2>3, <2>5, <4>1, <5>1
      <4>2. CASE h.rts = "handshake" /\ handFlow.rts # "handshake"
        <5>1. "rts" \notin rxHolding
            BY <2>2, <4>2
        <5>2. rts' = ~full /\ ("rts" \in rxHolding' <=> full)
            BY <2>3, <2>5, <4>2, <5>1
        <5> QED
            BY <5>2
      <4>3. CASE h.rts # "handshake"
          BY <2>2, <4>3
      <4> QED
          BY <4>1, <4>2, <4>3
    <3>2. "rts" \in rxHolding' => chars' > XonLimit
        BY <2>2, <2>3, <2>7
    <3>3. "xoff" \in rxHolding' => chars' > XonLimit \/ toSend' = "xon"
        BY <2>2, <2>4, <2>6, <2>7
    <3>4. peer' = "xoff" => "xoff" \in rxHolding' \/ toSend' = "xon"
        BY <2>2, <2>4, <2>6
    <3> QED
        BY <2>2, <3>1, <3>2, <3>3, <3>4 DEF full
  <2> QED
      BY <2>8, <2>9
<1>23. CASE \E up \in BOOLEAN : SetRts(up)
    BY <1>23 DEF SetRts
<1>24. CASE BeginClose
    BY <1>24 DEF BeginClose, BreakOff, LetGo, Tickled, PerhapsLowerRTS, InsertStartDpc
<1>25. CASE DrainClose
    BY <1>25 DEF DrainClose
<1>26. CASE EndClose
    BY <1>26 DEF EndClose
<1>27. CASE UNCHANGED vars
    BY <1>27
<1> QED
    BY <1>1, <1>2, <1>3, <1>4, <1>5, <1>6, <1>7, <1>8, <1>9, <1>10, <1>11, <1>12, <1>13, <1>14, <1>15, <1>16, <1>17, <1>18, <1>19, <1>20, <1>21, <1>22, <1>23, <1>24, <1>25, <1>26, <1>27 DEF Next, ThrInterrupt, ThrFrame

-----------------------------------------------------------------------------

\* The initial states satisfy the invariant: the buffer is empty, nothing is held
\* and nobody tries to lower RTS.
LEMMA InitFlowInv == Init => FlowInv
<1> SUFFICES ASSUME Init PROVE FlowInv
    OBVIOUS
<1> USE SerialFlowAssumption DEF Init
<1>1. TypeOK
  <2>1. txHolding \subseteq {"xoff", "cts", "break"}
      BY DEF Reason
  <2>2. chars \in 0..BufferSize /\ rxHolding \subseteq {"rts", "xoff"}
      OBVIOUS
  <2>3. startDpc \in BOOLEAN /\ timer \in BOOLEAN /\ perhapsDpc \in BOOLEAN /\ shift \in BOOLEAN
      OBVIOUS
  <2>4. rts \in BOOLEAN /\ tries \in Nat
      OBVIOUS
  <2>5. /\ handFlow \in HandFlows /\ toSend \in {"none", "xon", "xoff"}
        /\ peer \in {"xon", "xoff"} /\ write \in {"none", "current", "sending", "sent"}
        /\ thr \in {"full", "irq", "idle"}
        /\ phase \in {"open", "draining", "waiting", "closed"}
      OBVIOUS
  <2> QED
      BY <2>1, <2>2, <2>3, <2>4, <2>5 DEF TypeOK
<1>2. AttemptsExact
    BY DEF AttemptsExact
<1>3. "break" \notin txHolding
    BY DEF Reason
<1>4. RtsUpWhileSending
    BY <1>3 DEF RtsUpWhileSending, IsOpen, HardwareBusy
<1>5. HoldsMatchBuffer
  <2>1. handFlow.rts = "handshake" => (rts <=> "rts" \notin rxHolding)
    <3>1. rxHolding = {} /\ (rts <=> handFlow.rts \in {"control", "handshake"})
        OBVIOUS
    <3> QED
        BY <3>1
  <2>2. ~TooFull(chars) /\ rxHolding = {} /\ peer = "xon"
      BY DEF TooFull
  <2> QED
      BY <2>1, <2>2 DEF HoldsMatchBuffer
<1>6. HoldsBelong
    BY DEF HoldsBelong
<1> QED
    BY <1>1, <1>2, <1>4, <1>5, <1>6 DEF FlowInv

\* The invariant holds for every buffer, every limit and every set of settings.
THEOREM FlowInductive == Spec => []FlowInv
<1>1. FlowInv /\ [Next]_vars => FlowInv'
    BY TypeStep, AttemptsStep, RtsStep, HoldsStep DEF FlowInv
<1> QED
    BY InitFlowInv, <1>1, PTL DEF Spec

\* The variables keep their types; CountOfTryingToLowerRTS is never negative.
THEOREM FlowTypeCorrect == Spec => []TypeOK
<1>1. FlowInv => TypeOK
    BY DEF FlowInv
<1> QED
    BY FlowInductive, <1>1, PTL

\* CountOfTryingToLowerRTS is the number of attempts under way, so a close that
\* finds it zero is alone.
THEOREM AttemptsAlwaysExact == Spec => []AttemptsExact
<1>1. FlowInv => AttemptsExact
    BY DEF FlowInv
<1> QED
    BY FlowInductive, <1>1, PTL

\* In toggle mode no character leaves the UART with RTS down.
THEOREM RtsAlwaysUpWhileSending == Spec => []RtsUpWhileSending
<1>1. FlowInv => RtsUpWhileSending
    BY DEF FlowInv
<1> QED
    BY FlowInductive, <1>1, PTL

\* What holds reception fits the fill level of the buffer, and nothing that has
\* stopped the other side is forgotten.
THEOREM HoldsAlwaysMatchBuffer == Spec => []HoldsMatchBuffer
<1>1. FlowInv => HoldsMatchBuffer
    BY DEF FlowInv
<1> QED
    BY FlowInductive, <1>1, PTL
=============================================================================
