---------------------------- MODULE GdbMI_proofs ----------------------------
(***************************************************************************)
(* Proofs about the MI client of GdbMI, for every bound MaxToken and every *)
(* value of the out-of-band token above it.                                *)
(***************************************************************************)
EXTENDS GdbMI, SequenceTheorems, TLAPS

-----------------------------------------------------------------------------
(* Two facts about sequences in the form the steps use.                    *)

\* Dropping the head keeps a sequence within its element set.
LEMMA TailInSeq ==
    ASSUME NEW S, NEW s \in Seq(S), s # <<>>
    PROVE  Head(s) \in S /\ Tail(s) \in Seq(S)
BY HeadTailProperties

\* Short sequences, as gdb emits them, are in the sequences over their set.
LEMMA ShortSeq ==
    ASSUME NEW S, NEW s \in Seq(S), NEW a \in S, NEW b \in S
    PROVE  /\ Append(s, a) \in Seq(S)
           /\ s \o <<a>> \in Seq(S)
           /\ s \o <<a, b>> \in Seq(S)
<1>1. <<a>> \in Seq(S) /\ <<a, b>> \in Seq(S)
  OBVIOUS
<1>. QED
  BY <1>1, ConcatProperties

-----------------------------------------------------------------------------
(* Type correctness.                                                       *)

LEMMA RecordType ==
    ASSUME NEW class \in Classes, NEW tok \in Nat, NEW of \in Nat
    PROVE  Record(class, tok, of) \in Line
BY DEF Record, Line

LEMMA NoCallType == NoCall \in Calls
<1>1. Nothing \in Line
  BY RecordType DEF Nothing, Classes
<1>2. <<>> \in Seq(Line)
  OBVIOUS
<1>. QED
  BY <1>1, <1>2 DEF NoCall, PCs, Calls

\* The updates the client makes to the call in progress.
LEMMA CallUpdate ==
    ASSUME NEW c \in Calls, NEW pc \in PCs
    PROVE  /\ [c EXCEPT !.pc = pc] \in Calls
           /\ \A r \in Line :
                 /\ [c EXCEPT !.pc = pc, !.answer = r] \in Calls
                 /\ \A out \in Seq(Line) :
                       [c EXCEPT !.pc = pc, !.answer = r, !.output = out] \in Calls
BY DEF Calls

\* A step that leaves gdb and the target alone keeps their types.
LEMMA TargetUntouched ==
    TargetTypeOK /\ UNCHANGED <<life, target>> => TargetTypeOK'
BY DEF TargetTypeOK, target

\* The variables keep their types: no step of the client or of gdb leaves the
\* value space of the model.
THEOREM TypeCorrect == Spec => []TypeOK
<1>1. Init => TypeOK
  <2> SUFFICES ASSUME Init PROVE TypeOK
    OBVIOUS
  <2>1. ClientTypeOK
    BY TokenAssumption, NoCallType DEF Init, ClientTypeOK
  <2>2. PipesTypeOK
    BY DEF Init, PipesTypeOK
  <2>3. TargetTypeOK
    BY DEF Init, TargetTypeOK
  <2>. QED
    BY <2>1, <2>2, <2>3 DEF TypeOK
<1>2. TypeOK /\ [Next]_vars => TypeOK'
  <2> SUFFICES ASSUME TypeOK, [Next]_vars PROVE TypeOK'
    OBVIOUS
  <2>0. ClientTypeOK /\ PipesTypeOK /\ TargetTypeOK
    BY DEF TypeOK
  <2> USE <2>0, TokenAssumption, TargetUntouched
  <2>1. ASSUME NEW v \in Verbs, SendMi(v) PROVE TypeOK'
    <3>1. Len(sent) + 1 \in Nat /\ token \in Nat
      BY DEF PipesTypeOK, ClientTypeOK
    <3>2. ASSUME token < MaxToken, Write(token + 1, v)
          PROVE  stdin' \in Seq(Command) /\ sent' \in Seq(Nat)
      BY <3>1, <3>2, ShortSeq DEF Write, Command, PipesTypeOK
    <3>3. PipesTypeOK'
      BY <2>1, <3>2 DEF SendMi, PipesTypeOK
    <3>4. call' \in Calls
      BY <2>1, <3>1, NoCallType DEF SendMi, PCs, Outcome, Calls, ClientTypeOK
    <3>5. ClientTypeOK'
      BY <2>1, <3>1, <3>4 DEF SendMi, Cleared, ClientTypeOK
    <3>6. TargetTypeOK'
      BY <2>1 DEF SendMi
    <3>. QED
      BY <3>3, <3>5, <3>6 DEF TypeOK
  <2>2. CASE WaitForStopped
    <3>1. \A i \in 1..Len(async_queue) :
             SubSeq(async_queue, i + 1, Len(async_queue)) \in Seq(Line)
      BY SubSeqProperties DEF ClientTypeOK
    <3>2. \A i \in 1..Len(async_queue) : async_queue[i] \in Line
      BY DEF ClientTypeOK
    <3>3. ASSUME async_queue' = <<>>, call' = [NoCall EXCEPT !.pc = "waiting"]
          PROVE  call' \in Calls /\ async_queue' \in Seq(Line)
      <4>1. "waiting" \in PCs /\ <<>> \in Seq(Line)
        BY DEF PCs
      <4>. QED
        BY <3>3, <4>1, NoCallType, CallUpdate
    <3>4. ASSUME NEW i \in 1..Len(async_queue),
                 async_queue' = SubSeq(async_queue, i + 1, Len(async_queue)),
                 call' = [NoCall EXCEPT !.pc = "stopped", !.answer = async_queue[i]]
          PROVE  call' \in Calls /\ async_queue' \in Seq(Line)
      <4>1. "stopped" \in PCs
        BY DEF PCs, Outcome
      <4>. QED
        BY <3>1, <3>2, <3>4, <4>1, NoCallType, CallUpdate
    <3>5. call' \in Calls /\ async_queue' \in Seq(Line)
      BY <2>2, <3>3, <3>4 DEF WaitForStopped
    <3>. QED
      BY <2>2, <3>5 DEF WaitForStopped, TypeOK, ClientTypeOK, PipesTypeOK, pipes
  <2>3. ASSUME stdout # <<>>, stdout' = Tail(stdout)
        PROVE  Head(stdout) \in Line /\ stdout' \in Seq(Line)
    BY <2>3, TailInSeq DEF PipesTypeOK
  <2>4. CASE ReadAnswer
    <3>1. Head(stdout) \in Line /\ stdout' \in Seq(Line)
      BY <2>3, <2>4 DEF ReadAnswer
    <3>2. Head(stdout).class \in Results /\ Head(stdout).of \in Nat
      BY <2>4, <3>1 DEF ReadAnswer, Answers, Line
    <3>3. call' \in Calls
      <4>1. Head(stdout).class \in PCs
        BY <3>2 DEF Results, PCs, Outcome
      <4>2. \A out \in Seq(Line) :
               [call EXCEPT !.pc = Head(stdout).class, !.answer = Head(stdout),
                            !.output = out] \in Calls
        BY <3>1, <4>1, CallUpdate DEF ClientTypeOK
      <4>. QED
        <5>1. (IF call.verb \in Console /\ Head(stdout).class = "done"
                 THEN stream_buffer ELSE <<>>) \in Seq(Line)
          BY DEF ClientTypeOK
        <5>. QED
          BY <2>4, <4>2, <5>1 DEF ReadAnswer
    <3>4. consumed' \in Nat /\ stream_buffer' \in Seq(Line)
      BY <2>4, <3>2 DEF ReadAnswer, Consume, ClientTypeOK
    <3>. QED
      BY <2>4, <3>1, <3>3, <3>4 DEF ReadAnswer, TypeOK, ClientTypeOK, PipesTypeOK
  <2>5. ASSUME NEW r \in Line, Classify(r), Consume(r)
        PROVE  /\ async_queue' \in Seq(Line) /\ stream_buffer' \in Seq(Line)
               /\ consumed' \in Nat
    BY <2>5, ShortSeq DEF Classify, Consume, ClientTypeOK, Line
  <2>6. CASE ReadOther
    <3>1. Head(stdout) \in Line /\ stdout' \in Seq(Line)
      BY <2>3, <2>6 DEF ReadOther
    <3>. QED
      BY <2>5, <2>6, <3>1 DEF ReadOther, TypeOK, ClientTypeOK, PipesTypeOK
  <2>7. CASE ReadEof
    BY <2>7 DEF ReadEof, TypeOK, ClientTypeOK, PipesTypeOK, Calls, PCs, Outcome, pipes
  <2>8. CASE TimeOut
    <3>1. ASSUME Write(InterruptToken, "interrupt")
          PROVE  stdin' \in Seq(Command) /\ sent' \in Seq(Nat)
      BY <3>1, ShortSeq DEF Write, Command, PipesTypeOK, Verbs
    <3>. QED
      BY <2>8, <3>1 DEF TimeOut, InterruptSilently, TypeOK, ClientTypeOK, PipesTypeOK, Calls, PCs, Outcome
  <2>9. CASE WaitRead
    <3>1. Head(stdout) \in Line /\ stdout' \in Seq(Line)
      BY <2>3, <2>9 DEF WaitRead
    <3>2. ClientTypeOK'
      BY <2>5, <2>9, <3>1 DEF WaitRead, ClientTypeOK, Calls, PCs, Outcome, Consume, Line
    <3>. QED
      BY <2>9, <3>1, <3>2 DEF WaitRead, TypeOK, PipesTypeOK
  <2>10. CASE WaitTimeOut
    BY <2>10 DEF WaitTimeOut, TypeOK, ClientTypeOK, PipesTypeOK, Calls, PCs, Outcome, pipes
  <2>11. CASE Return
    BY <2>11, NoCallType DEF Return, TypeOK, ClientTypeOK, PipesTypeOK, pipes
  <2>12. CASE GdbExecute
    <3> DEFINE c == Head(stdin)
    <3>1. c \in Command /\ stdin' \in Seq(Command)
      BY <2>12, TailInSeq DEF GdbExecute, PipesTypeOK
    <3>2. /\ Result(c, "done") \in Line /\ Result(c, "error") \in Line
          /\ Text(c) \in Line /\ Stop("connect", 0) \in Line
          /\ Record("running", 0, resumes + 1) \in Line
      BY <3>1, RecordType DEF Result, Text, Stop, Command, Classes, Results, Async, Stops, TargetTypeOK
    <3>3. stdout' \in Seq(Line) /\ TargetTypeOK'
      <4> USE <3>1, <3>2, ShortSeq DEF Emit, PipesTypeOK
      <4>1. life' = life
        BY <2>12 DEF GdbExecute
      <4>2. CASE GdbRefuse(c)
        BY <4>1, <4>2 DEF GdbRefuse
      <4>3. CASE GdbSelect(c)
        BY <4>1, <4>3 DEF GdbSelect
      <4>4. CASE GdbData(c)
        BY <4>1, <4>4 DEF GdbData
      <4>5. CASE GdbBreakpoint(c)
        BY <4>1, <4>5 DEF GdbBreakpoint, TargetTypeOK
      <4>6. CASE GdbContinue(c)
        BY <4>1, <4>6 DEF GdbContinue, TargetTypeOK
      <4>7. CASE GdbInterrupt(c)
        BY <4>1, <4>7 DEF GdbInterrupt, TargetTypeOK
      <4>8. CASE GdbConsole(c)
        BY <4>1, <4>8 DEF GdbConsole, TargetTypeOK
      <4>. QED
        BY <2>12, <4>2, <4>3, <4>4, <4>5, <4>6, <4>7, <4>8 DEF GdbExecute
    <3>. QED
      BY <2>12, <3>1, <3>3 DEF GdbExecute, TypeOK, ClientTypeOK, PipesTypeOK
  <2>13. CASE GdbStop
    <3>1. \A why \in {"breakpoint", "signal"} : Stop(why, resumes) \in Line
      BY RecordType DEF Stop, Classes, Async, Stops, TargetTypeOK
    <3>2. stdout' \in Seq(Line)
      BY <2>13, <3>1, ShortSeq DEF GdbStop, Emit, PipesTypeOK
    <3>. QED
      BY <2>13, <3>2 DEF GdbStop, TypeOK, ClientTypeOK, PipesTypeOK, TargetTypeOK
  <2>14. CASE GdbClose
    <3>1. Record("eof", 0, 0) \in Line
      BY RecordType DEF Classes
    <3>2. stdout' \in Seq(Line)
      BY <2>14, <3>1, ShortSeq DEF GdbClose, Emit, PipesTypeOK
    <3>. QED
      BY <2>14, <3>2 DEF GdbClose, TypeOK, ClientTypeOK, PipesTypeOK, TargetTypeOK, target
  <2>15. CASE GdbExit
    BY <2>15 DEF GdbExit, TypeOK, ClientTypeOK, PipesTypeOK, TargetTypeOK, target, pipes
  <2>16. CASE UNCHANGED vars
    BY <2>16 DEF vars, TypeOK, ClientTypeOK, PipesTypeOK, TargetTypeOK, target, pipes
  <2>. QED
    BY <2>1, <2>2, <2>4, <2>6, <2>7, <2>8, <2>9, <2>10, <2>11, <2>12, <2>13,
       <2>14, <2>15, <2>16 DEF Next, ClientStep, ClientRead, Environment
<1>. QED
  BY <1>1, <1>2, PTL DEF Spec

-----------------------------------------------------------------------------
(* A result is matched to its own command.                                 *)

\* Writing one more command leaves what is under way sound.
LEMMA SentGrows ==
    ASSUME TypeOK, NEW t \in Nat, sent' = Append(sent, t)
    PROVE  /\ Len(sent') = Len(sent) + 1 /\ sent'[Len(sent) + 1] = t
           /\ \A i \in 1..Len(sent) : sent'[i] = sent[i]
           /\ Seq(SentCommands) \subseteq Seq(SentCommands')
           /\ Seq(SoundLines) \subseteq Seq(SoundLines')
<1>1. /\ Len(sent') = Len(sent) + 1 /\ sent'[Len(sent) + 1] = t
      /\ \A i \in 1..Len(sent) : sent'[i] = sent[i]
      /\ Len(sent) \in Nat
  BY DEF TypeOK, PipesTypeOK
<1>2. SentCommands \subseteq SentCommands'
  BY <1>1 DEF SentCommands
<1>3. SoundLines \subseteq SoundLines'
  BY <1>1 DEF SoundLines
<1>. QED
  BY <1>1, <1>2, <1>3, SeqMonotonic

\* A command written with token t: the pipes stay sound and the tokens unique.
LEMMA WriteKeeps ==
    ASSUME TypeOK, Correlated, NEW t \in Nat, NEW v \in Verbs, Write(t, v),
           \/ t = InterruptToken /\ token' = token
           \/ t = token + 1 /\ token' = t /\ t < InterruptToken
    PROVE  /\ TokensUnique' /\ stdin' \in Seq(SentCommands')
           /\ Seq(SoundLines) \subseteq Seq(SoundLines')
           /\ sent'[Len(sent) + 1] = t /\ Len(sent) + 1 \in 1..Len(sent')
           /\ \A i \in 1..Len(sent) : sent'[i] = sent[i] /\ i \in 1..Len(sent')
<1>1. sent' = Append(sent, t) /\ sent \in Seq(Nat) /\ Len(sent) \in Nat /\ token \in Nat
  BY DEF Write, TypeOK, PipesTypeOK, ClientTypeOK
<1>2. /\ Len(sent') = Len(sent) + 1 /\ sent'[Len(sent) + 1] = t
      /\ \A i \in 1..Len(sent) : sent'[i] = sent[i]
      /\ Seq(SentCommands) \subseteq Seq(SentCommands')
      /\ Seq(SoundLines) \subseteq Seq(SoundLines')
  BY <1>1, SentGrows
<1>3. \A i \in 1..Len(sent) : sent[i] \in Nat
  BY <1>1
<1>4. TokensUnique'
  <2>1. /\ \A i \in 1..Len(sent) : sent[i] <= token \/ sent[i] = InterruptToken
        /\ \A i, j \in 1..Len(sent) :
              sent[i] = sent[j] /\ sent[i] # InterruptToken => i = j
    BY DEF TokensUnique, Correlated
  <2>2. \A i \in 1..Len(sent') : i \in 1..Len(sent) \/ i = Len(sent) + 1
    BY <1>1, <1>2
  <2>3. \A i \in 1..Len(sent') : sent'[i] <= token' \/ sent'[i] = InterruptToken
    BY <1>1, <1>2, <1>3, <2>1, <2>2
  <2>4. \A i, j \in 1..Len(sent') :
           sent'[i] = sent'[j] /\ sent'[i] # InterruptToken => i = j
    <3> SUFFICES ASSUME NEW i \in 1..Len(sent'), NEW j \in 1..Len(sent'),
                        sent'[i] = sent'[j], sent'[i] # InterruptToken
                 PROVE  i = j
      OBVIOUS
    <3>1. CASE t = InterruptToken
      BY <3>1, <1>2, <2>1, <2>2
    <3>2. CASE t = token + 1
      BY <3>2, <1>1, <1>2, <1>3, <2>1, <2>2
    <3>. QED
      BY <3>1, <3>2
  <2>. QED
    BY <2>3, <2>4 DEF TokensUnique
<1>5. [id |-> Len(sent) + 1, token |-> t, verb |-> v] \in SentCommands'
  BY <1>1, <1>2 DEF SentCommands, Command
<1>6. stdin \in Seq(SentCommands')
  BY <1>2 DEF Correlated
<1>7. stdin' \in Seq(SentCommands')
  BY <1>5, <1>6, ShortSeq DEF Write
<1>. QED
  BY <1>1, <1>2, <1>4, <1>7

\* Steps that write nothing keep both element sets.
LEMMA SentSame ==
    UNCHANGED sent => SentCommands' = SentCommands /\ SoundLines' = SoundLines
BY DEF SentCommands, SoundLines

\* What gdb writes while executing a sound command is sound.
LEMMA ExecuteSound ==
    ASSUME TypeOK, Correlated, GdbExecute
    PROVE  stdin' \in Seq(SentCommands) /\ stdout' \in Seq(SoundLines)
<1> DEFINE c == Head(stdin)
<1>1. c \in SentCommands /\ stdin' \in Seq(SentCommands)
  BY TailInSeq DEF GdbExecute, Correlated
<1>2. resumes \in Nat /\ c \in Command /\ stdout \in Seq(SoundLines)
  BY <1>1 DEF SentCommands, TypeOK, TargetTypeOK, Correlated
<1>3. /\ Result(c, "done") \in SoundLines /\ Result(c, "error") \in SoundLines
      /\ Text(c) \in SoundLines /\ Stop("connect", 0) \in SoundLines
      /\ Record("running", 0, resumes + 1) \in SoundLines
  <2>1. /\ Result(c, "done") \in Line /\ Result(c, "error") \in Line
        /\ Text(c) \in Line /\ Stop("connect", 0) \in Line
        /\ Record("running", 0, resumes + 1) \in Line
    BY <1>2, RecordType DEF Result, Text, Stop, Command, Classes, Results, Async, Stops
  <2>. QED
    BY <1>1, <2>1 DEF SentCommands, SoundLines, Result, Text, Stop, Record, Results
<1>4. stdout' \in Seq(SoundLines)
  <2> USE <1>2, <1>3, ShortSeq DEF Emit
  <2>1. CASE GdbRefuse(c) BY <2>1 DEF GdbRefuse
  <2>2. CASE GdbSelect(c) BY <2>2 DEF GdbSelect
  <2>3. CASE GdbData(c) BY <2>3 DEF GdbData
  <2>4. CASE GdbBreakpoint(c) BY <2>4 DEF GdbBreakpoint
  <2>5. CASE GdbContinue(c) BY <2>5 DEF GdbContinue
  <2>6. CASE GdbInterrupt(c) BY <2>6 DEF GdbInterrupt
  <2>7. CASE GdbConsole(c) BY <2>7 DEF GdbConsole
  <2>. QED
    BY <2>1, <2>2, <2>3, <2>4, <2>5, <2>6, <2>7 DEF GdbExecute
<1>. QED
  BY <1>1, <1>4

\* A step that writes nothing has only its own effect on pipes and call to show.
LEMMA KeepsCorrelated ==
    ASSUME Correlated, UNCHANGED <<token, sent>>,
           stdin' \in Seq(SentCommands), stdout' \in Seq(SoundLines),
           UNCHANGED call \/ call'.pc \notin Results \cup {"reading"}
    PROVE  Correlated'
<1>1. SentCommands' = SentCommands /\ SoundLines' = SoundLines
  BY SentSame
<1>2. TokensUnique'
  BY DEF Correlated, TokensUnique
<1>3. CallIsLatest'
  BY DEF Correlated, CallIsLatest
<1>4. AnswerIsOwn'
  BY DEF Correlated, AnswerIsOwn, Results
<1>. QED
  BY <1>1, <1>2, <1>3, <1>4 DEF Correlated

\* Why AnswerIsOwn holds is an invariant of its own.
LEMMA CorrelatedAlways == Spec => []Correlated
<1>1. Init => Correlated
  <2> SUFFICES ASSUME Init PROVE Correlated
    OBVIOUS
  <2>1. <<>> \in Seq(SentCommands) /\ <<>> \in Seq(SoundLines)
    OBVIOUS
  <2>2. call.pc = "idle"
    BY DEF Init, NoCall
  <2>. QED
    BY <2>1, <2>2 DEF Init, Correlated, TokensUnique, CallIsLatest, AnswerIsOwn, Results
<1>2. TypeOK /\ TypeOK' /\ Correlated /\ [Next]_vars => Correlated'
  <2> SUFFICES ASSUME TypeOK, TypeOK', Correlated, [Next]_vars PROVE Correlated'
    OBVIOUS
  <2> USE TokenAssumption
  <2>0. /\ TokensUnique /\ CallIsLatest /\ AnswerIsOwn
        /\ stdin \in Seq(SentCommands) /\ stdout \in Seq(SoundLines)
    BY DEF Correlated
  <2>a. call \in Calls /\ token \in 0..MaxToken /\ stdout \in Seq(Line)
    BY DEF TypeOK, ClientTypeOK, PipesTypeOK
  <2>b. \A s \in Outcome \cup {"waiting"} : [call EXCEPT !.pc = s].pc = s
    BY <2>a DEF Calls
  <2>c. ASSUME stdout # <<>>
        PROVE  Head(stdout) \in SoundLines /\ Tail(stdout) \in Seq(SoundLines)
    BY <2>0, <2>c, TailInSeq
  <2>1. ASSUME NEW v \in Verbs, SendMi(v) PROVE Correlated'
    <3>1. CASE UNCHANGED <<token, stdin, sent>> /\ call'.pc = "lost"
      BY <2>0, <2>1, <3>1, KeepsCorrelated DEF SendMi, Results
    <3>2. CASE token < MaxToken /\ token' = token + 1 /\ UNCHANGED <<stdin, sent>> /\ call'.pc = "lost"
      <4>1. SentCommands' = SentCommands /\ SoundLines' = SoundLines
        BY <3>2, SentSame
      <4>2. \A i \in 1..Len(sent) : sent[i] \in Nat
        BY DEF TypeOK, PipesTypeOK
      <4>3. TokensUnique'
        BY <2>0, <2>a, <3>2, <4>2 DEF TokensUnique
      <4>. QED
        BY <2>0, <2>1, <3>2, <4>1, <4>3 DEF SendMi, Correlated, CallIsLatest, AnswerIsOwn, Results
    <3>3. CASE /\ token < MaxToken /\ token' = token + 1 /\ Write(token + 1, v)
               /\ call'.pc = "reading" /\ call'.id = Len(sent) + 1
      <4>1. /\ TokensUnique' /\ stdin' \in Seq(SentCommands')
            /\ Seq(SoundLines) \subseteq Seq(SoundLines')
            /\ sent'[Len(sent) + 1] = token + 1 /\ Len(sent) + 1 \in 1..Len(sent')
        BY <2>a, <3>3, WriteKeeps
      <4>. QED
        BY <2>0, <2>1, <3>3, <4>1 DEF SendMi, Correlated, CallIsLatest, AnswerIsOwn, Results
    <3>. QED
      BY <2>1, <3>1, <3>2, <3>3 DEF SendMi, NoCall
  <2>2. CASE WaitForStopped
    <3>1. call'.pc \in {"waiting", "stopped"}
      BY <2>2 DEF WaitForStopped, NoCall
    <3>. QED
      BY <2>0, <2>2, <3>1, KeepsCorrelated DEF WaitForStopped, pipes, Results
  <2>3. CASE ReadAnswer
    <3>1. Head(stdout) \in SoundLines /\ stdout' \in Seq(SoundLines)
      BY <2>c, <2>3 DEF ReadAnswer
    <3>2. Head(stdout).of = call.id
      <4>1. /\ Head(stdout).of \in 1..Len(sent) /\ sent[Head(stdout).of] = token
            /\ call.id \in 1..Len(sent) /\ sent[call.id] = token
        BY <2>0, <2>3, <3>1 DEF ReadAnswer, Answers, SoundLines, CallIsLatest
      <4>2. token # InterruptToken
        BY <2>a
      <4>. QED
        BY <2>0, <4>1, <4>2 DEF TokensUnique
    <3>3. call'.pc \in Results /\ call'.answer = Head(stdout) /\ call'.id = call.id
      BY <2>3, <2>a DEF ReadAnswer, Answers, Calls
    <3>4. CallIsLatest' /\ AnswerIsOwn'
      BY <3>2, <3>3 DEF CallIsLatest, AnswerIsOwn, Results
    <3>. QED
      BY <2>0, <2>3, <3>1, <3>4, SentSame DEF ReadAnswer, Correlated, TokensUnique
  <2>4. CASE ReadOther
    BY <2>0, <2>4, <2>c, KeepsCorrelated DEF ReadOther
  <2>5. CASE ReadEof
    BY <2>0, <2>5, <2>b, KeepsCorrelated DEF ReadEof, pipes, Results, Outcome
  <2>6. CASE TimeOut
    <3>1. call'.pc = "timeout" /\ UNCHANGED <<token, stdout>>
      BY <2>6, <2>b DEF TimeOut, InterruptSilently, Outcome
    <3>2. CASE UNCHANGED <<stdin, sent>>
      BY <2>0, <3>1, <3>2, KeepsCorrelated DEF Results
    <3>3. CASE Write(InterruptToken, "interrupt")
      <4>1. /\ TokensUnique' /\ stdin' \in Seq(SentCommands')
            /\ Seq(SoundLines) \subseteq Seq(SoundLines')
        BY <3>1, <3>3, WriteKeeps DEF Verbs
      <4>. QED
        BY <2>0, <3>1, <4>1 DEF Correlated, CallIsLatest, AnswerIsOwn, Results
    <3>. QED
      BY <2>6, <3>2, <3>3 DEF TimeOut, InterruptSilently
  <2>7. CASE WaitRead
    <3>1. UNCHANGED call \/ call'.pc = "stopped"
      BY <2>7, <2>a DEF WaitRead, Calls
    <3>. QED
      BY <2>0, <2>7, <2>c, <3>1, KeepsCorrelated DEF WaitRead, Results
  <2>8. CASE WaitTimeOut
    BY <2>0, <2>8, <2>b, KeepsCorrelated DEF WaitTimeOut, pipes, Results, Outcome
  <2>9. CASE Return
    BY <2>0, <2>9, KeepsCorrelated DEF Return, pipes, NoCall, Results
  <2>10. CASE GdbExecute
    BY <2>10, ExecuteSound, KeepsCorrelated DEF GdbExecute
  <2>11. CASE GdbStop
    <3>1. \A why \in {"breakpoint", "signal"} : Stop(why, resumes) \in SoundLines
      BY RecordType DEF SoundLines, Stop, Record, Classes, Async, Stops, Results, TypeOK, TargetTypeOK
    <3>2. stdout' \in Seq(SoundLines)
      BY <2>0, <2>11, <3>1, ShortSeq DEF GdbStop, Emit
    <3>. QED
      BY <2>0, <2>11, <3>2, KeepsCorrelated DEF GdbStop
  <2>12. CASE GdbClose
    <3>1. Record("eof", 0, 0) \in SoundLines
      BY RecordType DEF SoundLines, Record, Classes, Results
    <3>2. stdout' \in Seq(SoundLines)
      BY <2>0, <2>12, <3>1, ShortSeq DEF GdbClose, Emit
    <3>. QED
      BY <2>0, <2>12, <3>2, KeepsCorrelated DEF GdbClose
  <2>13. CASE GdbExit
    BY <2>0, <2>13, KeepsCorrelated DEF GdbExit, pipes
  <2>14. CASE UNCHANGED vars
    BY <2>0, <2>14, KeepsCorrelated DEF vars, pipes
  <2>. QED
    BY <2>1, <2>2, <2>3, <2>4, <2>5, <2>6, <2>7, <2>8, <2>9, <2>10, <2>11,
       <2>12, <2>13, <2>14 DEF Next, ClientStep, ClientRead, Environment
<1>. QED
  BY TypeCorrect, <1>1, <1>2, PTL DEF Spec

\* The result send_mi accepts is gdb's answer to the command it sent, for any
\* number of earlier calls abandoned at their deadline.
THEOREM ResultIsOwn == Spec => []AnswerIsOwn
<1>1. Correlated => AnswerIsOwn
  BY DEF Correlated
<1>. QED
  BY CorrelatedAlways, <1>1, PTL

-----------------------------------------------------------------------------
(* Console output is never older than the call that returns it.            *)

\* The numbers the order is about.
LEMMA OrderTypes ==
    TypeOK => /\ consumed \in Nat /\ Len(sent) \in Nat
              /\ Len(stdin) \in Nat /\ Len(stdout) \in Nat
              /\ \A i \in 1..Len(stdout) : stdout[i].of \in Nat
              /\ \A i \in 1..Len(stdin) : stdin[i].id \in Nat
<1> SUFFICES ASSUME TypeOK
             PROVE  /\ consumed \in Nat /\ Len(sent) \in Nat
                    /\ Len(stdin) \in Nat /\ Len(stdout) \in Nat
                    /\ \A i \in 1..Len(stdout) : stdout[i].of \in Nat
                    /\ \A i \in 1..Len(stdin) : stdin[i].id \in Nat
  OBVIOUS
<1>1. consumed \in Nat /\ stdin \in Seq(Command) /\ stdout \in Seq(Line) /\ sent \in Seq(Nat)
  BY DEF TypeOK, ClientTypeOK, PipesTypeOK
<1>2. \A i \in 1..Len(stdout) : stdout[i] \in Line
  BY <1>1
<1>3. \A i \in 1..Len(stdin) : stdin[i] \in Command
  BY <1>1
<1>4. Len(stdin) \in Nat /\ Len(stdout) \in Nat /\ Len(sent) \in Nat
  BY <1>1
<1>5. \A i \in 1..Len(stdout) : stdout[i].of \in Nat
  BY <1>2 DEF Line
<1>6. \A i \in 1..Len(stdin) : stdin[i].id \in Nat
  BY <1>3 DEF Command
<1>. QED
  BY <1>1, <1>4, <1>5, <1>6

\* Reading one line.
LEMMA PopOrdered ==
    ASSUME TypeOK, PipesOrdered, stdout # <<>>, stdout' = Tail(stdout),
           Consume(Head(stdout)), UNCHANGED <<stdin, sent>>
    PROVE  /\ PipesOrdered' /\ consumed <= consumed'
           /\ Head(stdout).class = "text" => consumed < Head(stdout).of
<1> DEFINE r == stdout[1]
<1>1. /\ Len(stdout) \in Nat \ {0} /\ Head(stdout) = r /\ 1 \in 1..Len(stdout)
      /\ Len(stdout') = Len(stdout) - 1
      /\ \A i \in 1..Len(stdout') :
            i + 1 \in 1..Len(stdout) /\ 1 < i + 1 /\ stdout'[i] = stdout[i + 1]
  BY HeadTailProperties DEF TypeOK, PipesTypeOK
<1>2. StdinOrdered /\ StdoutBetween /\ StdoutOrdered
  BY DEF PipesOrdered
<1>3. r.class = "text" => consumed < r.of
  BY <1>1, <1>2 DEF StdoutBetween, Own
<1>4. StdoutOrdered'
  <2> SUFFICES ASSUME NEW i \in 1..Len(stdout'), NEW j \in 1..Len(stdout'), i < j,
                      stdout'[i].class \in Results, stdout'[j].class \in Own
               PROVE  stdout'[i].of < stdout'[j].of
    BY DEF StdoutOrdered
  <2>. QED
    BY <1>1, <1>2 DEF StdoutOrdered
<1>5. CASE r.class \in Results
  <2>1. /\ consumed' = r.of /\ consumed < r.of /\ r.of <= Len(sent)
        /\ \A j \in 1..Len(stdin) : r.of < stdin[j].id
    BY <1>1, <1>2, <1>5 DEF Consume, StdoutBetween, Own
  <2>2. StdinOrdered'
    BY <1>2, <2>1, OrderTypes DEF StdinOrdered
  <2>3. StdoutBetween'
    <3> SUFFICES ASSUME NEW i \in 1..Len(stdout'), stdout'[i].class \in Own
                 PROVE  /\ consumed' < stdout'[i].of /\ stdout'[i].of <= Len(sent)
                        /\ \A j \in 1..Len(stdin) : stdout'[i].of < stdin[j].id
      BY DEF StdoutBetween
    <3>1. r.of < stdout[i + 1].of
      BY <1>1, <1>2, <1>5 DEF StdoutOrdered
    <3>. QED
      BY <1>1, <1>2, <2>1, <3>1 DEF StdoutBetween
  <2>. QED
    BY <1>1, <1>3, <1>4, <2>1, <2>2, <2>3, OrderTypes DEF PipesOrdered
<1>6. CASE r.class \notin Results
  <2>1. consumed' = consumed
    BY <1>1, <1>6 DEF Consume
  <2>2. StdinOrdered' /\ StdoutBetween'
    BY <1>1, <1>2, <2>1 DEF StdinOrdered, StdoutBetween
  <2>. QED
    BY <1>1, <1>3, <1>4, <2>1, <2>2, OrderTypes DEF PipesOrdered
<1>. QED
  BY <1>5, <1>6

\* Writing one command.
LEMMA WriteOrdered ==
    ASSUME TypeOK, PipesOrdered, NEW t \in Nat, NEW v \in Verbs, Write(t, v),
           UNCHANGED <<stdout, consumed>>
    PROVE  PipesOrdered'
<1>1. /\ Len(sent') = Len(sent) + 1
      /\ Len(stdin') = Len(stdin) + 1
      /\ \A i \in 1..Len(stdin) : stdin'[i] = stdin[i]
      /\ stdin'[Len(stdin) + 1].id = Len(sent) + 1
  BY DEF Write, TypeOK, PipesTypeOK
<1>2. \A i \in 1..Len(stdin') :
         \/ i \in 1..Len(stdin) /\ stdin'[i].id = stdin[i].id /\ i < Len(stdin) + 1
         \/ i = Len(stdin) + 1 /\ stdin'[i].id = Len(sent) + 1
  BY <1>1, OrderTypes
<1>3. StdinOrdered /\ StdoutBetween /\ StdoutOrdered
  BY DEF PipesOrdered
<1>4. \A i \in 1..Len(stdin') : consumed < stdin'[i].id /\ stdin'[i].id <= Len(sent')
  BY <1>1, <1>2, <1>3, OrderTypes DEF StdinOrdered
<1>5. \A i, j \in 1..Len(stdin') : i < j => stdin'[i].id < stdin'[j].id
  <2> SUFFICES ASSUME NEW i \in 1..Len(stdin'), NEW j \in 1..Len(stdin'), i < j
               PROVE  stdin'[i].id < stdin'[j].id
    OBVIOUS
  <2>1. i \in 1..Len(stdin)
    BY <1>1, OrderTypes
  <2>2. stdin[i].id <= Len(sent) /\ stdin'[i].id = stdin[i].id
    BY <1>1, <1>3, <2>1 DEF StdinOrdered
  <2>3. CASE j \in 1..Len(stdin)
    BY <1>1, <1>3, <2>1, <2>2, <2>3 DEF StdinOrdered
  <2>4. CASE j = Len(stdin) + 1
    BY <1>1, <2>1, <2>2, <2>4, OrderTypes
  <2>. QED
    BY <1>2, <2>3, <2>4
<1>6. StdoutBetween'
  <2> SUFFICES ASSUME NEW i \in 1..Len(stdout), stdout[i].class \in Own
               PROVE  /\ consumed < stdout[i].of /\ stdout[i].of <= Len(sent')
                      /\ \A j \in 1..Len(stdin') : stdout[i].of < stdin'[j].id
    BY DEF StdoutBetween
  <2>1. /\ consumed < stdout[i].of /\ stdout[i].of <= Len(sent)
        /\ \A j \in 1..Len(stdin) : stdout[i].of < stdin[j].id
    BY <1>3 DEF StdoutBetween
  <2>2. stdout[i].of <= Len(sent')
    BY <1>1, <2>1, OrderTypes
  <2>3. ASSUME NEW j \in 1..Len(stdin') PROVE stdout[i].of < stdin'[j].id
    <3>1. CASE j \in 1..Len(stdin)
      BY <1>1, <2>1, <3>1
    <3>2. CASE j = Len(stdin) + 1
      BY <1>1, <2>1, <3>2, OrderTypes
    <3>. QED
      BY <1>2, <3>1, <3>2
  <2>. QED
    BY <2>1, <2>2, <2>3
<1>. QED
  BY <1>1, <1>3, <1>4, <1>5, <1>6, OrderTypes DEF PipesOrdered, StdinOrdered, StdoutOrdered

\* Output that belongs to no command.
LEMMA EmitOrdered ==
    ASSUME TypeOK, PipesOrdered, NEW r \in Line, r.class \notin Own,
           stdout' = stdout \o <<r>>, UNCHANGED <<stdin, sent, consumed>>
    PROVE  PipesOrdered'
<1>1. /\ Len(stdout') = Len(stdout) + 1
      /\ \A i \in 1..Len(stdout) : stdout'[i] = stdout[i]
      /\ stdout'[Len(stdout) + 1] = r
  BY DEF TypeOK, PipesTypeOK
<1>2. \A i \in 1..Len(stdout') : stdout'[i].class \in Own =>
         i \in 1..Len(stdout) /\ stdout'[i] = stdout[i]
  BY <1>1, OrderTypes
<1>3. Results \subseteq Own
  BY DEF Own
<1>4. StdinOrdered' /\ StdoutBetween'
  BY <1>2 DEF PipesOrdered, StdinOrdered, StdoutBetween
<1>5. StdoutOrdered'
  BY <1>2, <1>3 DEF PipesOrdered, StdoutOrdered
<1>. QED
  BY <1>4, <1>5 DEF PipesOrdered

\* Executing a command: all it adds belongs to that command, and its result
\* comes after its text.
LEMMA ExecuteOrdered ==
    ASSUME TypeOK, PipesOrdered, stdin # <<>>, stdin' = Tail(stdin),
           NEW rs \in Seq(Line), stdout' = stdout \o rs,
           \A i \in 1..Len(rs) : rs[i].class \in Own => rs[i].of = Head(stdin).id,
           \A i, j \in 1..Len(rs) :
              i < j /\ rs[i].class \in Results => rs[j].class \notin Own,
           UNCHANGED <<sent, consumed>>
    PROVE  PipesOrdered'
<1> DEFINE n == stdin[1].id
<1>1. /\ Len(stdin) \in Nat \ {0} /\ Head(stdin) = stdin[1] /\ 1 \in 1..Len(stdin)
      /\ Len(stdin') = Len(stdin) - 1
      /\ \A i \in 1..Len(stdin') :
            i + 1 \in 1..Len(stdin) /\ 1 < i + 1 /\ stdin'[i] = stdin[i + 1]
  BY HeadTailProperties DEF TypeOK, PipesTypeOK
<1>2. /\ Len(rs) \in Nat /\ Len(stdout') = Len(stdout) + Len(rs)
      /\ \A i \in 1..Len(stdout') : i \in 1..Len(stdout) => stdout'[i] = stdout[i]
      /\ \A i \in 1..Len(stdout') : i \notin 1..Len(stdout) =>
            i - Len(stdout) \in 1..Len(rs) /\ stdout'[i] = rs[i - Len(stdout)]
  BY ConcatProperties, OrderTypes DEF TypeOK, PipesTypeOK
<1>3. StdinOrdered /\ StdoutBetween /\ StdoutOrdered
  BY DEF PipesOrdered
<1>4. Results \subseteq Own
  BY DEF Own
<1>5. /\ consumed < n /\ n <= Len(sent)
      /\ \A j \in 1..Len(stdin') : n < stdin'[j].id
  BY <1>1, <1>3 DEF StdinOrdered
<1>6. StdinOrdered'
  <2>1. \A i, j \in 1..Len(stdin') : i < j => i + 1 < j + 1
    OBVIOUS
  <2>. QED
    BY <1>1, <1>3, <2>1 DEF StdinOrdered
<1>7. StdoutBetween'
  <2> SUFFICES ASSUME NEW i \in 1..Len(stdout'), stdout'[i].class \in Own
               PROVE  /\ consumed < stdout'[i].of /\ stdout'[i].of <= Len(sent)
                      /\ \A j \in 1..Len(stdin') : stdout'[i].of < stdin'[j].id
    BY DEF StdoutBetween
  <2>1. CASE i \in 1..Len(stdout)
    BY <1>1, <1>2, <1>3, <2>1 DEF StdoutBetween
  <2>2. CASE i \notin 1..Len(stdout)
    <3>1. stdout'[i].of = n
      BY <1>1, <1>2, <2>2
    <3>. QED
      BY <1>5, <3>1
  <2>. QED
    BY <2>1, <2>2
<1>8. StdoutOrdered'
  <2> SUFFICES ASSUME NEW i \in 1..Len(stdout'), NEW j \in 1..Len(stdout'), i < j,
                      stdout'[i].class \in Results, stdout'[j].class \in Own
               PROVE  stdout'[i].of < stdout'[j].of
    BY DEF StdoutOrdered
  <2>1. CASE j \in 1..Len(stdout)
    <3>1. i \in 1..Len(stdout)
      BY <2>1, OrderTypes
    <3>. QED
      BY <1>2, <1>3, <2>1, <3>1 DEF StdoutOrdered
  <2>2. CASE i \in 1..Len(stdout) /\ j \notin 1..Len(stdout)
    <3>1. stdout'[j].of = n
      BY <1>1, <1>2, <2>2
    <3>2. stdout[i].of < n
      BY <1>1, <1>2, <1>3, <1>4, <2>2 DEF StdoutBetween
    <3>. QED
      BY <1>2, <2>2, <3>1, <3>2
  <2>3. CASE i \notin 1..Len(stdout)
    <3>1. j \notin 1..Len(stdout) /\ i - Len(stdout) < j - Len(stdout)
      BY <1>2, <2>3, OrderTypes
    <3>. QED
      BY <1>2, <2>3, <3>1
  <2>. QED
    BY <2>1, <2>2, <2>3
<1>. QED
  BY <1>6, <1>7, <1>8 DEF PipesOrdered

\* One line written, or two.
LEMMA OneLine ==
    ASSUME TypeOK, PipesOrdered, stdin # <<>>, stdin' = Tail(stdin),
           NEW a \in Line, a.class \in Own => a.of = Head(stdin).id,
           stdout' = stdout \o <<a>>, UNCHANGED <<sent, consumed>>
    PROVE  PipesOrdered'
<1> DEFINE rs == <<a>>
<1>1. rs \in Seq(Line) /\ Len(rs) = 1 /\ rs[1] = a
  OBVIOUS
<1>2. \A i \in 1..Len(rs) : i = 1
  BY <1>1
<1>3. \A i \in 1..Len(rs) : rs[i].class \in Own => rs[i].of = Head(stdin).id
  BY <1>1, <1>2
<1>4. \A i, j \in 1..Len(rs) : i < j /\ rs[i].class \in Results => rs[j].class \notin Own
  BY <1>1
<1>. HIDE DEF rs
<1>5. stdout' = stdout \o rs
  BY DEF rs
<1>. QED
  BY <1>1, <1>3, <1>4, <1>5, ExecuteOrdered

LEMMA TwoLines ==
    ASSUME TypeOK, PipesOrdered, stdin # <<>>, stdin' = Tail(stdin),
           NEW a \in Line, a.class \in Own => a.of = Head(stdin).id,
           NEW b \in Line, b.class \in Own => b.of = Head(stdin).id,
           a.class \in Results => b.class \notin Own,
           stdout' = stdout \o <<a, b>>, UNCHANGED <<sent, consumed>>
    PROVE  PipesOrdered'
<1> DEFINE rs == <<a, b>>
<1>1. rs \in Seq(Line) /\ Len(rs) = 2 /\ rs[1] = a /\ rs[2] = b
  OBVIOUS
<1>2. \A i \in 1..Len(rs) : i = 1 \/ i = 2
  BY <1>1
<1>3. \A i \in 1..Len(rs) : rs[i].class \in Own => rs[i].of = Head(stdin).id
  BY <1>1, <1>2
<1>4. \A i, j \in 1..Len(rs) : i < j /\ rs[i].class \in Results => rs[j].class \notin Own
  <2>1. \A i, j \in 1..Len(rs) : i < j => i = 1 /\ j = 2
    BY <1>1
  <2>. QED
    BY <1>1, <2>1
<1>. HIDE DEF rs
<1>5. stdout' = stdout \o rs
  BY DEF rs
<1>. QED
  BY <1>1, <1>3, <1>4, <1>5, ExecuteOrdered

\* What a command's execution writes, action by action.
LEMMA ExecuteKeepsOrder ==
    ASSUME TypeOK, PipesOrdered, GdbExecute
    PROVE  PipesOrdered'
<1> DEFINE c == Head(stdin)
<1>1. /\ stdin # <<>> /\ stdin' = Tail(stdin) /\ UNCHANGED <<sent, consumed>>
      /\ c \in Command /\ resumes \in Nat
  BY TailInSeq DEF GdbExecute, TypeOK, PipesTypeOK, TargetTypeOK
<1>2. /\ Result(c, "done") \in Line /\ Result(c, "error") \in Line
      /\ Text(c) \in Line /\ Stop("connect", 0) \in Line
      /\ Record("running", 0, resumes + 1) \in Line
  BY <1>1, RecordType DEF Result, Text, Stop, Command, Classes, Results, Async, Stops
<1>3. ASSUME NEW class \in Results, Emit(<<Result(c, class)>>) PROVE PipesOrdered'
  BY <1>1, <1>2, <1>3, OneLine DEF Emit, Result, Record, Results
<1>4. ASSUME Emit(<<Stop("connect", 0), Result(c, "done")>>) PROVE PipesOrdered'
  <2>1. Stop("connect", 0).class \notin Own /\ Result(c, "done").of = c.id
    BY DEF Stop, Record, Result, Own, Results
  <2>2. Stop("connect", 0).class \notin Results
    BY DEF Stop, Record, Results
  <2>. QED
    BY <1>1, <1>2, <1>4, <2>1, <2>2, TwoLines DEF Emit
<1>5. ASSUME Emit(<<Result(c, "done"), Record("running", 0, resumes + 1)>>) PROVE PipesOrdered'
  <2>1. Record("running", 0, resumes + 1).class \notin Own /\ Result(c, "done").of = c.id
    BY DEF Record, Result, Own, Results
  <2>. QED
    BY <1>1, <1>2, <1>5, <2>1, TwoLines DEF Emit
<1>6. ASSUME NEW class \in Results, Emit(<<Text(c), Result(c, class)>>) PROVE PipesOrdered'
  <2>1. Text(c).of = c.id /\ Text(c).class \notin Results /\ Result(c, class).of = c.id
    BY DEF Text, Record, Result, Results
  <2>. QED
    BY <1>1, <1>2, <1>6, <2>1, TwoLines DEF Emit, Results
<1>. QED
  BY <1>3, <1>4, <1>5, <1>6 DEF GdbExecute, GdbRefuse, GdbSelect, GdbData, GdbBreakpoint,
     GdbContinue, GdbInterrupt, GdbConsole, Results

\* A step that leaves call and buffer alone, and takes nothing back.
LEMMA KeepsFresh ==
    ASSUME TypeOK, Ordered, PipesOrdered', consumed <= consumed', consumed' \in Nat,
           UNCHANGED <<call, stream_buffer>>
    PROVE  Ordered'
<1>1. call.base \in Nat /\ consumed \in Nat
  BY DEF TypeOK, ClientTypeOK, Calls
<1>. QED
  BY <1>1 DEF Ordered, BufferFresh, OutputIsFresh

\* A step after which no send_mi is reading and no new output is handed over.
LEMMA NotReading ==
    ASSUME Ordered, PipesOrdered', call'.pc # "reading",
           \/ call'.output = call.output /\ call'.base = call.base
           \/ call'.output = <<>>
    PROVE  Ordered'
BY DEF Ordered, BufferFresh, OutputIsFresh

\* The order in the pipes is kept.
LEMMA OrderedAlways == Spec => []Ordered
<1>1. Init => Ordered
  <2> SUFFICES ASSUME Init PROVE Ordered
    OBVIOUS
  <2>1. Len(<<>>) = 0
    OBVIOUS
  <2>2. PipesOrdered
    BY <2>1 DEF Init, PipesOrdered, StdinOrdered, StdoutBetween, StdoutOrdered
  <2>3. call.pc # "reading" /\ call.output = <<>>
    BY DEF Init, NoCall
  <2>. QED
    BY <2>1, <2>2, <2>3 DEF Ordered, BufferFresh, OutputIsFresh
<1>2. TypeOK /\ TypeOK' /\ Ordered /\ [Next]_vars => Ordered'
  <2> SUFFICES ASSUME TypeOK, TypeOK', Ordered, [Next]_vars PROVE Ordered'
    OBVIOUS
  <2>0. PipesOrdered /\ BufferFresh /\ OutputIsFresh
    BY DEF Ordered
  <2>a. /\ call \in Calls /\ consumed \in Nat /\ consumed' \in Nat /\ token \in Nat
        /\ stdout \in Seq(Line) /\ stream_buffer \in Seq(Line)
    BY DEF TypeOK, ClientTypeOK, PipesTypeOK
  <2>b. \A s \in Outcome : /\ [call EXCEPT !.pc = s].pc = s
                           /\ [call EXCEPT !.pc = s].output = call.output
                           /\ [call EXCEPT !.pc = s].base = call.base
    BY <2>a DEF Calls
  <2>c. consumed <= consumed
    BY <2>a
  <2>d. ASSUME UNCHANGED pipes, UNCHANGED <<sent, consumed>> PROVE PipesOrdered'
    BY <2>0, <2>d DEF PipesOrdered, StdinOrdered, StdoutBetween, StdoutOrdered, pipes
  <2>1. ASSUME NEW v \in Verbs, SendMi(v) PROVE Ordered'
    <3>1. PipesOrdered'
      <4>1. CASE UNCHANGED <<stdin, sent>>
        BY <2>1, <2>d, <4>1 DEF SendMi, pipes
      <4>2. CASE Write(token + 1, v)
        <5>1. UNCHANGED <<stdout, consumed>> /\ token + 1 \in Nat
          BY <2>1, <2>a DEF SendMi
        <5>. QED
          BY <2>0, <4>2, <5>1, WriteOrdered
      <4>. QED
        BY <2>1, <4>1, <4>2 DEF SendMi
    <3>2. /\ call'.output = <<>> /\ call'.base = consumed /\ call'.verb = v
          /\ stream_buffer' = Cleared(v) /\ consumed' = consumed
      BY <2>1 DEF SendMi, NoCall
    <3>3. v \in Console => stream_buffer' = <<>>
      BY <3>2 DEF Cleared
    <3>. QED
      BY <2>c, <3>1, <3>2, <3>3 DEF Ordered, BufferFresh, OutputIsFresh
  <2>2. CASE WaitForStopped
    <3>1. call'.pc # "reading" /\ call'.output = <<>>
      BY <2>2 DEF WaitForStopped, NoCall
    <3>. QED
      BY <2>2, <2>d, <3>1, NotReading DEF WaitForStopped
  <2>3. ASSUME stdout # <<>>, stdout' = Tail(stdout), Consume(Head(stdout)),
               UNCHANGED <<stdin, sent>>
        PROVE  /\ PipesOrdered' /\ consumed <= consumed'
               /\ Head(stdout).class = "text" => consumed < Head(stdout).of
    BY <2>0, <2>3, PopOrdered
  <2>4. CASE ReadAnswer
    <3>1. PipesOrdered'
      BY <2>3, <2>4 DEF ReadAnswer
    <3>2. call'.pc \in Results /\ call'.base = call.base
      BY <2>4, <2>a DEF ReadAnswer, Answers, Calls
    <3>3. \/ call'.output = <<>>
          \/ call.verb \in Console /\ call'.output = stream_buffer
      BY <2>4, <2>a DEF ReadAnswer, Calls
    <3>4. OutputIsFresh'
      BY <2>0, <2>4, <3>2, <3>3 DEF ReadAnswer, BufferFresh, OutputIsFresh
    <3>. QED
      BY <3>1, <3>2, <3>4 DEF Ordered, BufferFresh, Results
  <2>5. ASSUME Classify(Head(stdout)), stdout # <<>>,
               Head(stdout).class = "text" => consumed < Head(stdout).of,
               call.pc = "reading", call.verb \in Console
        PROVE  \A i \in 1..Len(stream_buffer') : stream_buffer'[i].of > call.base
    <3>1. /\ call.base \in Nat /\ call.base <= consumed /\ Head(stdout).of \in Nat
          /\ \A i \in 1..Len(stream_buffer) : stream_buffer[i].of > call.base
      <4>1. Head(stdout) \in Line
        BY <2>5, <2>a, TailInSeq
      <4>. QED
        BY <2>0, <2>5, <2>a, <4>1 DEF BufferFresh, Calls, Line
    <3>2. CASE stream_buffer' = stream_buffer
      BY <3>1, <3>2
    <3>3. CASE /\ Head(stdout).class = "text"
               /\ stream_buffer' = Append(stream_buffer, Head(stdout))
      <4>1. Head(stdout).of > call.base
        BY <2>5, <2>a, <3>1, <3>3
      <4>2. \A i \in 1..Len(stream_buffer') :
               \/ i \in 1..Len(stream_buffer) /\ stream_buffer'[i] = stream_buffer[i]
               \/ stream_buffer'[i] = Head(stdout)
        BY <2>a, <3>3
      <4>. QED
        BY <3>1, <4>1, <4>2
    <3>. QED
      BY <2>5, <3>2, <3>3 DEF Classify
  <2>6. CASE ReadOther
    <3>1. /\ PipesOrdered' /\ consumed <= consumed'
          /\ Head(stdout).class = "text" => consumed < Head(stdout).of
      BY <2>3, <2>6 DEF ReadOther
    <3>2. BufferFresh'
      <4>1. call.verb \in Console => call.base <= consumed'
        BY <2>0, <2>6, <2>a, <3>1 DEF ReadOther, BufferFresh, Calls
      <4>. QED
        BY <2>5, <2>6, <3>1, <4>1 DEF ReadOther, BufferFresh
    <3>. QED
      BY <2>0, <2>6, <3>1, <3>2 DEF ReadOther, Ordered, OutputIsFresh
  <2>7. CASE ReadEof
    BY <2>7, <2>b, <2>d, NotReading DEF ReadEof, Outcome
  <2>8. CASE TimeOut
    <3>1. PipesOrdered'
      <4>1. CASE UNCHANGED <<stdin, sent>>
        BY <2>8, <2>d, <4>1 DEF TimeOut, InterruptSilently, pipes
      <4>2. CASE Write(InterruptToken, "interrupt")
        BY <2>0, <2>8, <4>2, TokenAssumption, WriteOrdered DEF TimeOut, InterruptSilently, Verbs
      <4>. QED
        BY <2>8, <4>1, <4>2 DEF TimeOut, InterruptSilently
    <3>2. call'.pc # "reading" /\ call'.output = call.output /\ call'.base = call.base
      BY <2>8, <2>b DEF TimeOut, InterruptSilently, Outcome
    <3>. QED
      BY <3>1, <3>2, NotReading
  <2>9. CASE WaitRead
    <3>1. PipesOrdered'
      BY <2>3, <2>9 DEF WaitRead
    <3>2. call'.pc # "reading" /\ call'.output = call.output /\ call'.base = call.base
      BY <2>9, <2>a DEF WaitRead, Calls
    <3>. QED
      BY <3>1, <3>2, NotReading
  <2>10. CASE WaitTimeOut
    BY <2>10, <2>b, <2>d, NotReading DEF WaitTimeOut, Outcome
  <2>11. CASE Return
    BY <2>11, <2>d, NotReading DEF Return, NoCall
  <2>12. CASE GdbExecute
    <3>1. PipesOrdered'
      BY <2>0, <2>12, ExecuteKeepsOrder
    <3>2. UNCHANGED <<call, stream_buffer, consumed>>
      BY <2>12 DEF GdbExecute
    <3>. QED
      BY <2>a, <2>c, <3>1, <3>2, KeepsFresh
  <2>13. CASE GdbStop
    <3>1. \A why \in {"breakpoint", "signal"} :
             Stop(why, resumes) \in Line /\ Stop(why, resumes).class \notin Own
      BY RecordType DEF Stop, Record, Classes, Async, Stops, Own, Results, TypeOK, TargetTypeOK
    <3>2. PipesOrdered'
      BY <2>0, <2>13, <3>1, EmitOrdered DEF GdbStop, Emit
    <3>3. UNCHANGED <<call, stream_buffer, consumed>>
      BY <2>13 DEF GdbStop
    <3>. QED
      BY <2>a, <2>c, <3>2, <3>3, KeepsFresh
  <2>14. CASE GdbClose
    <3>1. Record("eof", 0, 0) \in Line /\ Record("eof", 0, 0).class \notin Own
      BY RecordType DEF Record, Classes, Own, Results
    <3>2. PipesOrdered'
      BY <2>0, <2>14, <3>1, EmitOrdered DEF GdbClose, Emit
    <3>3. UNCHANGED <<call, stream_buffer, consumed>>
      BY <2>14 DEF GdbClose
    <3>. QED
      BY <2>a, <2>c, <3>2, <3>3, KeepsFresh
  <2>15. CASE GdbExit
    <3>1. UNCHANGED <<pipes, sent, call, stream_buffer, consumed>>
      BY <2>15 DEF GdbExit
    <3>. QED
      BY <2>a, <2>c, <2>d, <3>1, KeepsFresh
  <2>16. CASE UNCHANGED vars
    <3>1. UNCHANGED <<pipes, sent, call, stream_buffer, consumed>>
      BY <2>16 DEF vars
    <3>. QED
      BY <2>a, <2>c, <2>d, <3>1, KeepsFresh
  <2>. QED
    BY <2>1, <2>2, <2>4, <2>6, <2>7, <2>8, <2>9, <2>10, <2>11, <2>12, <2>13,
       <2>14, <2>15, <2>16 DEF Next, ClientStep, ClientRead, Environment
<1>. QED
  BY TypeCorrect, <1>1, <1>2, PTL DEF Spec

\* The text send_console returns belongs to no command whose result had been
\* read before the call began, whatever earlier calls left in pipe and buffer.
THEOREM OutputIsNotStale == Spec => []OutputIsFresh
<1>1. Ordered => OutputIsFresh
  BY DEF Ordered
<1>. QED
  BY OrderedAlways, <1>1, PTL
=============================================================================
