--------------------------- MODULE VcpReader_proofs ---------------------------
(***************************************************************************)
(* Proofs about the serial reader of VcpReader, for every set of boards,   *)
(* every number of ports, every capacity of the buffer and every bound:    *)
(* its variables keep their types, and it implements LineChannel.          *)
(***************************************************************************)
EXTENDS VcpReader, SequenceTheorems, TLAPS

-----------------------------------------------------------------------------
(* A backlog b in front of a buffer f.                                     *)

LEMMA ConcatHead ==
    ASSUME NEW S, NEW b \in Seq(S), NEW f \in Seq(S), b # <<>>
    PROVE  /\ b \o f # <<>>
           /\ Head(b \o f) = Head(b)
           /\ Tail(b \o f) = Tail(b) \o f
<1>1. Len(b) \in Nat \ {0} /\ Len(f) \in Nat
  BY EmptySeq, LenProperties
<1>2. b \o f \in Seq(S) /\ Len(b \o f) = Len(b) + Len(f)
  BY ConcatProperties
<1>3. b \o f # <<>>
  BY <1>1, <1>2
<1>4. Head(b \o f) = Head(b)
  <2>1. Head(b) = b[1] /\ Head(b \o f) = (b \o f)[1]
    BY <1>3
  <2>. QED
    BY <2>1, <1>1, ConcatProperties
<1>5. Tail(b \o f) = Tail(b) \o f
  <2>1. Tail(b) \in Seq(S) /\ Len(Tail(b)) = Len(b) - 1
    BY HeadTailProperties
  <2>2. Tail(b) \o f \in Seq(S) /\ Len(Tail(b) \o f) = Len(b) - 1 + Len(f)
    BY <2>1, ConcatProperties
  <2>3. Tail(b \o f) \in Seq(S) /\ Len(Tail(b \o f)) = Len(b) + Len(f) - 1
    BY <1>2, <1>3, HeadTailProperties
  <2>4. ASSUME NEW i \in 1..(Len(b) + Len(f) - 1)
        PROVE  Tail(b \o f)[i] = (Tail(b) \o f)[i]
    <3>1. Tail(b \o f)[i] = (b \o f)[i + 1]
      BY <1>2, <1>3, <2>3, HeadTailProperties
    <3>2. (b \o f)[i + 1] = IF i + 1 <= Len(b) THEN b[i + 1] ELSE f[i + 1 - Len(b)]
      BY <1>1, ConcatProperties
    <3>3. (Tail(b) \o f)[i] = IF i <= Len(b) - 1 THEN Tail(b)[i] ELSE f[i - (Len(b) - 1)]
      BY <1>1, <2>1, ConcatProperties
    <3>4. i <= Len(b) - 1 => Tail(b)[i] = b[i + 1]
      BY <1>1, <2>1, HeadTailProperties
    <3>5. i + 1 - Len(b) = i - (Len(b) - 1) /\ (i + 1 <= Len(b) <=> i <= Len(b) - 1)
      BY <1>1
    <3>. QED
      BY <3>1, <3>2, <3>3, <3>4, <3>5
  <2>. QED
    BY <2>2, <2>3, <2>4, <1>1, SeqEqual
<1>. QED
  BY <1>3, <1>4, <1>5

LEMMA ConcatAppend ==
    ASSUME NEW S, NEW b \in Seq(S), NEW f \in Seq(S), NEW x \in S
    PROVE  b \o Append(f, x) = Append(b \o f, x)
<1>1. <<x>> \in Seq(S) /\ b \o f \in Seq(S)
  BY ConcatProperties
<1>2. Append(f, x) = f \o <<x>> /\ Append(b \o f, x) = (b \o f) \o <<x>>
  BY <1>1
<1>. QED
  BY <1>1, <1>2, ConcatAssociative

LEMMA ConcatSuffix ==
    ASSUME NEW S, NEW b \in Seq(S), NEW f \in Seq(S)
    PROVE  /\ SubSeq(b \o f, 1, Len(b)) = b
           /\ SubSeq(b \o f, Len(b) + 1, Len(b \o f)) = f
           /\ f # <<>> => SubSeq(b \o f, Len(b) + 2, Len(b \o f)) = Tail(f)
<1>1. Len(b) \in Nat /\ Len(f) \in Nat
  BY LenProperties
<1>2. b \o f \in Seq(S) /\ Len(b \o f) = Len(b) + Len(f)
  BY ConcatProperties
<1>3. \A i \in 1..(Len(b) + Len(f)) : (b \o f)[i] \in S
  BY <1>2, ElementOfSeq
<1> DEFINE h == b \o f
<1>4. SubSeq(h, 1, Len(b)) = b
  <2>1. \A i \in 1..Len(b) : h[i] \in S
    BY <1>1, <1>3
  <2>2. /\ SubSeq(h, 1, Len(b)) \in Seq(S)
        /\ Len(SubSeq(h, 1, Len(b))) = Len(b)
        /\ \A i \in 1..Len(b) : SubSeq(h, 1, Len(b))[i] = h[i]
    BY <2>1, <1>1, SubSeqProperties
  <2>3. \A i \in 1..Len(b) : h[i] = b[i]
    BY <1>1, ConcatProperties
  <2>. QED
    BY <2>2, <2>3, SeqEqual
<1>5. ASSUME NEW k \in 1..2, Len(f) >= k - 1
      PROVE  /\ SubSeq(h, Len(b) + k, Len(h)) \in Seq(S)
             /\ Len(SubSeq(h, Len(b) + k, Len(h))) = Len(f) - k + 1
             /\ \A i \in 1..(Len(f) - k + 1) :
                   SubSeq(h, Len(b) + k, Len(h))[i] = f[i + k - 1]
  <2>0. Len(b) + k \in Int /\ Len(h) \in Int /\ Len(h) = Len(b) + Len(f)
    BY <1>1, <1>2
  <2>1. \A i \in (Len(b) + k)..Len(h) : h[i] \in S
    BY <1>1, <1>3, <2>0
  <2>2. /\ SubSeq(h, Len(b) + k, Len(h)) \in Seq(S)
        /\ Len(SubSeq(h, Len(b) + k, Len(h)))
             = IF Len(b) + k <= Len(h) THEN Len(h) - (Len(b) + k) + 1 ELSE 0
        /\ \A i \in 1..(Len(h) - (Len(b) + k) + 1) :
              SubSeq(h, Len(b) + k, Len(h))[i] = h[Len(b) + k + i - 1]
    <3> DEFINE m == Len(b) + k
               n == Len(h)
    <3>1. m \in Int /\ n \in Int /\ \A i \in m..n : h[i] \in S
      BY <2>0, <2>1
    <3> HIDE DEF h, m, n
    <3>2. /\ SubSeq(h, m, n) \in Seq(S)
          /\ Len(SubSeq(h, m, n)) = IF m <= n THEN n - m + 1 ELSE 0
          /\ \A i \in 1..(n - m + 1) : SubSeq(h, m, n)[i] = h[m + i - 1]
      BY <3>1, SubSeqProperties
    <3>. QED
      BY <3>2 DEF m, n
  <2>3. ASSUME NEW i \in 1..(Len(f) - k + 1)
        PROVE  h[Len(b) + k + i - 1] = f[i + k - 1]
    <3>1. /\ Len(b) + k + i - 1 \in 1..(Len(b) + Len(f))
          /\ ~(Len(b) + k + i - 1 <= Len(b))
          /\ Len(b) + k + i - 1 - Len(b) = i + k - 1
      BY <1>1
    <3>2. h[Len(b) + k + i - 1] = f[Len(b) + k + i - 1 - Len(b)]
      BY <3>1, ConcatProperties
    <3>. QED
      BY <3>1, <3>2
  <2>4. Len(h) - (Len(b) + k) + 1 = Len(f) - k + 1
    BY <1>1, <2>0
  <2>5. (IF Len(b) + k <= Len(h) THEN Len(h) - (Len(b) + k) + 1 ELSE 0) = Len(f) - k + 1
    BY <1>1, <1>5, <2>0
  <2>. QED
    BY <2>2, <2>3, <2>4, <2>5
<1>6. SubSeq(h, Len(b) + 1, Len(h)) = f
  <2>1. Len(f) >= 1 - 1 /\ Len(f) - 1 + 1 = Len(f)
    BY <1>1
  <2>2. \A i \in 1..Len(f) : f[i + 1 - 1] = f[i]
    BY <1>1
  <2>. QED
    BY <2>1, <2>2, <1>5, SeqEqual
<1>7. ASSUME f # <<>> PROVE SubSeq(h, Len(b) + 2, Len(h)) = Tail(f)
  <2>1. /\ Tail(f) \in Seq(S) /\ Len(Tail(f)) = Len(f) - 1
        /\ \A i \in 1..Len(Tail(f)) : Tail(f)[i] = f[i + 1]
    BY <1>7, HeadTailProperties
  <2>2. Len(f) >= 2 - 1 /\ Len(f) - 2 + 1 = Len(f) - 1
    BY <1>1, <1>7, EmptySeq
  <2>4. 2 \in 1..2
    OBVIOUS
  <2>5. /\ SubSeq(h, Len(b) + 2, Len(h)) \in Seq(S)
        /\ Len(SubSeq(h, Len(b) + 2, Len(h))) = Len(f) - 2 + 1
        /\ \A i \in 1..(Len(f) - 2 + 1) :
              SubSeq(h, Len(b) + 2, Len(h))[i] = f[i + 2 - 1]
    BY <2>2, <2>4, <1>5
  <2> DEFINE g == SubSeq(h, Len(b) + 2, Len(h))
  <2>6. g \in Seq(S) /\ Len(g) = Len(Tail(f))
    BY <2>1, <2>2, <2>5
  <2>7. \A i \in 1..Len(g) : g[i] = Tail(f)[i]
    <3> TAKE i \in 1..Len(g)
    <3>1. i \in 1..(Len(f) - 2 + 1) /\ i \in 1..Len(Tail(f)) /\ i + 2 - 1 = i + 1
      BY <1>1, <2>1, <2>2, <2>6
    <3>2. g[i] = f[i + 2 - 1]
      BY <2>5, <3>1
    <3>. QED
      BY <2>1, <3>1, <3>2
  <2> HIDE DEF g
  <2>8. g = Tail(f)
    BY <2>1, <2>6, <2>7, SeqEqual
  <2>. QED
    BY <2>8 DEF g
<1>. QED
  BY <1>4, <1>6, <1>7
-----------------------------------------------------------------------------
(* Type correctness.  The types are not inductive by themselves: the drain *)
(* thread reads only when it holds no pending line, so the lines pending   *)
(* are never more than the system's buffer held; there is no thread while  *)
(* the reader is closed; and the call's locals say where it is.            *)

EnvOK ==
    /\ where \in [Boards -> 0..Ports] /\ unplugs \in 0..MaxUnplugs
    /\ default_sn \in {"none"} \cup Boards /\ board \in {"none"} \cup Boards

RigOK ==
    /\ active \in BOOLEAN /\ reader \in ReaderType
    /\ drain \in {"none", "top", "read", "extract", "dead"}
    /\ serial \in {"none", "lost"} \cup Boards
    /\ ~reader.open => drain = "none"

DataOK ==
    /\ wire \in 0..MaxWire /\ pending \in 0..MaxWire /\ next \in Lines
    /\ buffer \in Seq(Lines) /\ Len(buffer) <= Capacity
    /\ drain # "extract" => pending = 0

AttachPCs == {"ensure", "recycle", "attach", "join", "poll", "reopen"}

\* Only a follow that hands out its backlog has one; only a reading call has
\* handed out a line; a call that attaches is of one of the four kinds.
CallOK(c) ==
    /\ c \in CallType
    /\ c.pc # "yield" => c.backlog = <<>>
    /\ c.pc \notin ReadingPCs => c.last = Wrap
    /\ c.pc \in AttachPCs => c.kind \in Kinds

\* The reader is closed while the call waits for its probe to come back.
WaitOK == call.pc \in {"poll", "reopen"} => ~reader.open

Inv == EnvOK /\ RigOK /\ DataOK /\ CallOK(call) /\ WaitOK

LEMMA InvTypes == Inv => TypeOK
BY DEF Inv, EnvOK, RigOK, DataOK, CallOK, TypeOK

LEMMA EmptyLines == <<>> \in Seq(Lines) /\ Len(<<>>) = 0
BY EmptySeq

LEMMA NoCallOK == CallOK(NoCall) /\ NoCall.pc = "idle" /\ NoCall.backlog = <<>>
<1>1. Wrap \in 0..Wrap
  BY VcpAssumption
<1>2. 0 \in 0..Ports
  BY VcpAssumption
<1>. QED
  BY <1>1, <1>2, EmptyLines DEF NoCall, CallOK, CallType, PCs, ReadingPCs, AttachPCs

\* Moving a call on.
LEMMA GotoOK ==
    ASSUME NEW c, CallOK(c), c.backlog = <<>>, NEW p \in PCs,
           p \notin ReadingPCs => c.last = Wrap,
           p \in AttachPCs => c.kind \in Kinds
    PROVE  /\ CallOK([c EXCEPT !.pc = p])
           /\ [c EXCEPT !.pc = p].pc = p
           /\ [c EXCEPT !.pc = p].backlog = c.backlog
           /\ [c EXCEPT !.pc = p].last = c.last
BY DEF CallOK, CallType

LEMMA AttachOK ==
    ASSUME NEW c, CallOK(c), c.backlog = <<>>, c.last = Wrap, c.kind \in Kinds,
           NEW p \in PCs, p # "yield", NEW to \in 0..Ports,
           NEW found \in {"none"} \cup Boards
    PROVE  /\ CallOK([c EXCEPT !.pc = p, !.to = to, !.found = found])
           /\ [c EXCEPT !.pc = p, !.to = to, !.found = found].pc = p
           /\ [c EXCEPT !.pc = p, !.to = to, !.found = found].backlog = <<>>
           /\ [c EXCEPT !.pc = p, !.to = to, !.found = found].last = Wrap
BY DEF CallOK, CallType

LEMMA LateOK ==
    ASSUME NEW c, CallOK(c), NEW l \in BOOLEAN
    PROVE  /\ CallOK([c EXCEPT !.late = l])
           /\ [c EXCEPT !.late = l].pc = c.pc
           /\ [c EXCEPT !.late = l].backlog = c.backlog
           /\ [c EXCEPT !.late = l].last = c.last
BY DEF CallOK, CallType

LEMMA StartedOK ==
    ASSUME CallOK(call), call.kind \in Kinds
    PROVE  /\ CallOK(Started) /\ Started.backlog = <<>> /\ Started.last = Wrap
           /\ Started.pc \in {"flush", "backlog", "turn", "idle"}
<1>1. Begin \in {"flush", "backlog", "turn", "idle"}
  BY DEF Begin, Kinds
<1>2. CASE Begin = "idle"
  BY <1>2, NoCallOK DEF Started, NoCall
<1>3. CASE Begin # "idle"
  <2>1. NoCall \in CallType /\ NoCall.backlog = <<>> /\ NoCall.last = Wrap
    BY NoCallOK DEF CallOK, NoCall
  <2>2. call.timed \in BOOLEAN
    BY DEF CallOK, CallType
  <2>3. Started = [NoCall EXCEPT !.kind = call.kind, !.timed = call.timed, !.pc = Begin]
    BY <1>3 DEF Started
  <2> HIDE DEF Begin, Started
  <2>. QED
    BY <1>1, <1>3, <2>1, <2>2, <2>3 DEF CallOK, CallType, PCs
<1>. QED
  BY <1>2, <1>3

LEMMA LineOK == \A line \in Lines : line \in 0..Wrap
BY VcpAssumption DEF Lines

LEMMA InitInv == Init => Inv
<1> SUFFICES ASSUME Init PROVE Inv
  OBVIOUS
<1>1. EnvOK
  BY VcpAssumption DEF Init, EnvOK
<1>2. RigOK
  <2>1. NewReader(0, "none") \in ReaderType /\ ~NewReader(0, "none").open
    BY VcpAssumption DEF NewReader, ReaderType
  <2>. QED
    BY <2>1 DEF Init, RigOK
<1>3. DataOK
  BY VcpAssumption, EmptyLines DEF Init, DataOK, Lines
<1>. QED
  BY <1>1, <1>2, <1>3, NoCallOK DEF Init, Inv, WaitOK

\* The steps of the drain thread.
LEMMA DrainInv == Inv /\ DrainStep => Inv'
<1> SUFFICES ASSUME Inv, DrainStep PROVE Inv'
  OBVIOUS
<1>0. EnvOK /\ RigOK /\ DataOK /\ CallOK(call) /\ WaitOK
  BY DEF Inv
<1>e. EnvOK' /\ CallOK(call')
  <2>1. UNCHANGED <<where, unplugs, default_sn, board, call>>
    BY DEF DrainStep, DrainTop, DrainRead, DrainExtract, env
  <2>. QED
    BY <1>0, <2>1 DEF EnvOK
<1>w. WaitOK'
  <2>1. UNCHANGED call /\ reader'.open = reader.open
    BY <1>0 DEF DrainStep, DrainTop, DrainRead, DrainExtract, RigOK, ReaderType
  <2>. QED
    BY <1>0, <2>1 DEF WaitOK
<1>o. reader.open
  BY <1>0 DEF DrainStep, DrainTop, DrainRead, DrainExtract, RigOK
<1>1. CASE DrainTop
  BY <1>0, <1>1, <1>e, <1>w, <1>o DEF DrainTop, Inv, RigOK, DataOK, data
<1>2. CASE DrainRead
  <2>1. pending = 0
    BY <1>0, <1>2 DEF DataOK, DrainRead
  <2>2. RigOK'
    BY <1>0, <1>2, <1>o DEF RigOK, DrainRead, ReaderType
  <2>3. wire' \in 0..MaxWire /\ pending' \in 0..MaxWire
    BY <1>0, <1>2, <2>1, VcpAssumption DEF DrainRead, DataOK
  <2>4. drain' # "extract" => pending' = 0
    BY <1>2, <2>1 DEF DrainRead
  <2>5. DataOK'
    BY <1>0, <1>2, <2>3, <2>4 DEF DrainRead, DataOK
  <2>. QED
    BY <1>e, <1>w, <2>2, <2>5 DEF Inv
<1>3. CASE DrainExtract
  <2>1. RigOK'
    BY <1>0, <1>3, <1>o DEF RigOK, DrainExtract, ReaderType
  <2>2. /\ MakeRoom(buffer) \in Seq(Lines)
        /\ Len(MakeRoom(buffer)) <= Capacity - 1
    <3>1. CASE Len(buffer) = Capacity
      <4>1. buffer # <<>>
        BY <3>1, VcpAssumption, EmptyLines
      <4>. QED
        BY <1>0, <3>1, <4>1, VcpAssumption, HeadTailProperties DEF DataOK, MakeRoom
    <3>2. CASE Len(buffer) # Capacity
      BY <1>0, <3>2, VcpAssumption, LenProperties DEF DataOK, MakeRoom
    <3>. QED
      BY <3>1, <3>2
  <2>3. Append(MakeRoom(buffer), next) \in Seq(Lines)
    BY <1>0, <2>2 DEF DataOK
  <2>4. Len(Append(MakeRoom(buffer), next)) = Len(MakeRoom(buffer)) + 1
    BY <2>2
  <2>5. Len(Append(MakeRoom(buffer), next)) <= Capacity
    BY <2>2, <2>4, LenProperties, VcpAssumption
  <2>6. (next + 1) % Wrap \in Lines
    BY <1>0, VcpAssumption DEF DataOK, Lines
  <2>7. buffer' \in Seq(Lines) /\ Len(buffer') <= Capacity /\ next' \in Lines
    BY <1>0, <1>3, <2>3, <2>5, <2>6 DEF DrainExtract, DataOK
  <2>8. pending' \in 0..MaxWire /\ (drain' # "extract" => pending' = 0)
    BY <1>0, <1>3, VcpAssumption DEF DrainExtract, DataOK
  <2>9. wire' \in 0..MaxWire
    BY <1>0, <1>3 DEF DrainExtract, DataOK
  <2>. QED
    BY <1>e, <1>w, <2>1, <2>7, <2>8, <2>9 DEF Inv, DataOK
<1>. QED
  BY <1>1, <1>2, <1>3 DEF DrainStep

\* The steps that attach a reader, and close.
LEMMA AttachInv ==
    /\ Inv /\ (EnsureCached \/ EnsureNew \/ OpenNew \/ Recycle \/ Poll \/ Reopen \/ Close)
    => Inv'
<1> SUFFICES ASSUME Inv,
                    \/ EnsureCached \/ EnsureNew \/ OpenNew
                    \/ Recycle \/ Poll \/ Reopen \/ Close
             PROVE  Inv'
  OBVIOUS
<1>0. EnvOK /\ RigOK /\ DataOK /\ CallOK(call) /\ WaitOK
  BY DEF Inv
<1>p. At("ensure") \/ At("attach") \/ At("recycle") \/ At("join") \/ At("poll") \/ At("reopen")
      => call.backlog = <<>> /\ call.last = Wrap /\ call.kind \in Kinds
  BY <1>0 DEF At, CallOK, AttachPCs, ReadingPCs
<1>1. CASE EnsureCached
  <2>1. EnvOK' /\ RigOK' /\ DataOK'
    BY <1>0, <1>1 DEF EnsureCached, EnvOK, RigOK, DataOK, env, data
  <2>2. CallOK([call EXCEPT !.pc = "recycle"])
    BY <1>0, <1>1, <1>p, GotoOK DEF EnsureCached, PCs
  <2>3. CallOK(Started)
    BY <1>0, <1>1, <1>p, StartedOK DEF EnsureCached
  <2>4. CallOK(call')
    BY <1>1, <2>2, <2>3, NoCallOK DEF EnsureCached, Goto, End
  <2>5. WaitOK'
    BY <1>0, <1>1, <1>p, StartedOK, NoCallOK, GotoOK
    DEF EnsureCached, Goto, End, WaitOK, CallOK, CallType
  <2>. QED
    BY <2>1, <2>4, <2>5 DEF Inv
<1>2. CASE EnsureNew
  <2>1. default_sn' \in {"none"} \cup Boards
    BY <1>0, <1>2 DEF EnsureNew, Attach, EnvOK
  <2>2. EnvOK' /\ RigOK' /\ DataOK'
    BY <1>0, <1>2, <2>1 DEF EnsureNew, EnvOK, RigOK, DataOK, data
  <2>3. ASSUME NEW port \in 0..Ports, NEW found \in {"none"} \cup Boards
        PROVE  CallOK([call EXCEPT !.pc = "attach", !.to = port, !.found = found])
    <3>1. "attach" \in PCs /\ "attach" # "yield"
      BY DEF PCs
    <3>2. call.backlog = <<>> /\ call.last = Wrap /\ call.kind \in Kinds
      BY <1>2, <1>p DEF EnsureNew
    <3>. QED
      BY <1>0, <3>1, <3>2, AttachOK
  <2>4. CallOK(call')
    <3>1. CASE End
      BY <3>1, NoCallOK DEF End
    <3>2. CASE Attach(call.port, "none", default_sn)
      <4>1. call.port \in 0..Ports
        BY <1>0 DEF CallOK, CallType
      <4>. QED
        BY <2>3, <3>2, <4>1 DEF Attach
    <3>3. ASSUME NEW b \in Boards, NEW sn, Attach(where[b], b, sn) PROVE CallOK(call')
      <4>1. where[b] \in 0..Ports
        BY <1>0 DEF EnvOK
      <4>. QED
        BY <2>3, <3>3, <4>1 DEF Attach
    <3>4. Candidates(default_sn) \subseteq Boards
      BY DEF Candidates
    <3>. QED
      BY <1>2, <3>1, <3>2, <3>3, <3>4 DEF EnsureNew
  <2>5. WaitOK'
    BY <1>0, <1>2, NoCallOK DEF EnsureNew, Attach, End, WaitOK, CallOK, CallType
  <2>. QED
    BY <2>2, <2>4, <2>5 DEF Inv
<1>3. CASE OpenNew
  <2>1. EnvOK'
    BY <1>0, <1>3 DEF OpenNew, EnvOK, env
  <2>2. LET r == Opened(NewReader(call.to, SnOfReader), call.to) IN
        r \in ReaderType /\ r.open
    <3>1. call.to \in 0..Ports /\ call.found \in {"none"} \cup Boards
      BY <1>0 DEF CallOK, CallType
    <3>2. SnOfReader \in {"none"} \cup Boards
      BY <1>0 DEF EnvOK, SnOfReader
    <3>. QED
      BY <3>1, <3>2 DEF Opened, NewReader, ReaderType
  <2>3. RigOK'
    BY <1>0, <1>3, <2>2 DEF OpenNew, RigOK, BoardAt
  <2>4. DataOK'
    <3>1. 0 \in 0..MaxWire /\ 0 <= Capacity
      BY VcpAssumption
    <3>2. UNCHANGED <<wire, pending, buffer, drain, next>> => DataOK'
      BY <1>0 DEF DataOK
    <3>3. wire' = 0 /\ pending' = 0 /\ buffer' = <<>> /\ next' = next => DataOK'
      BY <1>0, <3>1, EmptyLines DEF DataOK
    <3>. QED
      BY <1>3, <3>2, <3>3 DEF OpenNew
  <2>5. CallOK(Started)
    BY <1>0, <1>3, <1>p, StartedOK DEF OpenNew
  <2>6. CallOK(call')
    BY <1>3, <2>5, NoCallOK DEF OpenNew, End
  <2>7. WaitOK'
    BY <1>0, <1>3, <1>p, StartedOK, NoCallOK DEF OpenNew, End, WaitOK
  <2>. QED
    BY <2>1, <2>3, <2>4, <2>6, <2>7 DEF Inv
<1>4. CASE Recycle
  <2>1. EnvOK'
    BY <1>0, <1>4 DEF Recycle, EnvOK, env
  <2>2. RigOK'
    BY <1>0, <1>4 DEF Recycle, StopDrain, Join, RigOK, ReaderType
  <2>3. wire' \in 0..MaxWire
    BY <1>0, <1>4, VcpAssumption DEF Recycle, StopDrain, Join, DataOK
  <2>4. drain' # "extract" => pending' = 0
    BY <1>0, <1>4 DEF Recycle, StopDrain, Join, DataOK
  <2>5. DataOK'
    BY <1>0, <1>4, <2>3, <2>4 DEF Recycle, DataOK
  <2>6. CallOK([call EXCEPT !.pc = "join"])
    BY <1>0, <1>4, <1>p, GotoOK DEF Recycle, PCs
  <2>7. CallOK(Polling)
    <3>1. CallOK([call EXCEPT !.pc = "poll"])
      BY <1>0, <1>4, <1>p, GotoOK DEF Recycle, PCs
    <3>. QED
      BY <3>1 DEF Polling, CallOK, CallType
  <2>8. CallOK(call')
    BY <1>4, <2>6, <2>7 DEF Recycle, StopDrain, Goto, Join
  <2>9. WaitOK'
    BY <1>0, <1>4 DEF Recycle, StopDrain, Goto, Join, Polling, WaitOK,
                      CallOK, CallType, RigOK, ReaderType
  <2>. QED
    BY <2>1, <2>2, <2>5, <2>8, <2>9 DEF Inv
<1>5. CASE Poll
  <2>1. EnvOK' /\ RigOK' /\ DataOK'
    BY <1>0, <1>5 DEF Poll, EnvOK, RigOK, DataOK, env, data
  <2>2. ASSUME NEW b \in Boards
        PROVE  CallOK([call EXCEPT !.pc = "reopen", !.to = where[b], !.found = b])
    <3>1. where[b] \in 0..Ports
      BY <1>0 DEF EnvOK
    <3>2. "reopen" \in PCs /\ "reopen" # "yield"
      BY DEF PCs
    <3>3. call.backlog = <<>> /\ call.last = Wrap /\ call.kind \in Kinds
      BY <1>5, <1>p DEF Poll
    <3>. QED
      BY <1>0, <3>1, <3>2, <3>3, AttachOK
  <2>3. CallOK(call')
    BY <1>5, <2>2, NoCallOK DEF Poll, End, Candidates
  <2>4. WaitOK'
    BY <1>0, <1>5 DEF Poll, At, WaitOK
  <2>. QED
    BY <2>1, <2>3, <2>4 DEF Inv
<1>6. CASE Reopen
  <2>1. EnvOK'
    BY <1>0, <1>6 DEF Reopen, EnvOK, env
  <2>2. call.to \in 0..Ports /\ call.found \in {"none"} \cup Boards
    BY <1>0 DEF CallOK, CallType
  <2>3. /\ Opened(reader, call.to) \in ReaderType /\ Opened(reader, call.to).open
        /\ [reader EXCEPT !.port = call.to] \in ReaderType
        /\ [reader EXCEPT !.port = call.to].open = reader.open
    BY <1>0, <2>2 DEF Opened, RigOK, ReaderType
  <2>4. RigOK'
    BY <1>0, <1>6, <2>3 DEF Reopen, RigOK, BoardAt
  <2>5. wire' \in 0..MaxWire /\ (drain' # "extract" => pending' = 0)
    <3>1. pending = 0
      BY <1>0, <1>6 DEF WaitOK, Reopen, At, RigOK, DataOK
    <3>. QED
      BY <1>0, <1>6, <3>1, VcpAssumption DEF Reopen, DataOK
  <2>6. DataOK'
    BY <1>0, <1>6, <2>5 DEF Reopen, DataOK
  <2>7. CallOK(Started)
    BY <1>0, <1>6, <1>p, StartedOK DEF Reopen
  <2>8. CallOK(call')
    BY <1>6, <2>7, NoCallOK DEF Reopen, End
  <2>9. WaitOK'
    BY <1>0, <1>6, <1>p, StartedOK, NoCallOK DEF Reopen, End, WaitOK
  <2>. QED
    BY <2>1, <2>4, <2>6, <2>8, <2>9 DEF Inv
<1>7. CASE Close
  <2>1. EnvOK'
    BY <1>0, <1>7 DEF Close, EnvOK, env
  <2>2. RigOK'
    BY <1>0, <1>7 DEF Close, StopDrain, Join, RigOK, ReaderType
  <2>3. wire' \in 0..MaxWire /\ (drain' # "extract" => pending' = 0)
    BY <1>0, <1>7, VcpAssumption DEF Close, StopDrain, Join, DataOK
  <2>4. DataOK'
    BY <1>0, <1>7, <2>3 DEF Close, DataOK
  <2>5. ASSUME At("idle") PROVE CallOK([call EXCEPT !.pc = "release"])
    <3>1. call.backlog = <<>> /\ call.last = Wrap
      BY <1>0, <2>5 DEF At, CallOK, ReadingPCs
    <3>2. "release" \in PCs /\ "release" \notin AttachPCs
      BY DEF PCs, AttachPCs
    <3>. QED
      BY <1>0, <3>1, <3>2, GotoOK
  <2>6. CallOK(call')
    BY <1>0, <1>7, <2>5, NoCallOK DEF Close, StopDrain, Goto, Join
  <2>7. WaitOK'
    BY <1>0, <1>7, NoCallOK DEF Close, StopDrain, Goto, Join, At, WaitOK,
                                CallOK, CallType
  <2>. QED
    BY <2>1, <2>2, <2>4, <2>6, <2>7 DEF Inv
<1>. QED
  BY <1>1, <1>2, <1>3, <1>4, <1>5, <1>6, <1>7

ReadStep ==
    \/ Flush \/ WriteLine \/ TakeBacklog \/ YieldBacklog
    \/ Turn \/ Look \/ ClearEvent \/ Wait \/ Enough

\* The steps that hand lines out.
LEMMA ReadInv == Inv /\ ReadStep => Inv'
<1> SUFFICES ASSUME Inv, ReadStep PROVE Inv'
  OBVIOUS
<1>0. EnvOK /\ RigOK /\ DataOK /\ CallOK(call) /\ WaitOK
  BY DEF Inv
<1>1. EnvOK'
  BY <1>0 DEF ReadStep, Flush, WriteLine, TakeBacklog, YieldBacklog, Turn, Look,
              ClearEvent, Wait, Enough, EnvOK, env
<1>2. RigOK' /\ UNCHANGED <<wire, pending, next, drain>>
  BY <1>0 DEF ReadStep, Flush, WriteLine, TakeBacklog, YieldBacklog, Turn, Look,
              ClearEvent, Wait, Enough, RigOK, ReaderType, data
<1>b. /\ <<>> \in Seq(Lines) /\ Len(<<>>) = 0 /\ 0 <= Capacity
      /\ buffer \in Seq(Lines) /\ Len(buffer) <= Capacity /\ Len(buffer) \in Nat
      /\ buffer # <<>> => /\ Head(buffer) \in Lines /\ Tail(buffer) \in Seq(Lines)
                         /\ Len(Tail(buffer)) = Len(buffer) - 1
  BY <1>0, EmptyLines, VcpAssumption, LenProperties, HeadTailProperties DEF DataOK
<1>3. buffer' \in Seq(Lines) /\ Len(buffer') <= Capacity
  <2>1. \/ buffer' = <<>> \/ buffer' = buffer
        \/ buffer # <<>> /\ buffer' = Tail(buffer)
    BY DEF ReadStep, Flush, WriteLine, TakeBacklog, YieldBacklog, Turn, Look,
           ClearEvent, Wait, Enough, data, LeavesBehind
  <2>2. CASE buffer' = <<>> \/ buffer' = buffer
    BY <1>b, <2>2
  <2>3. CASE buffer # <<>> /\ buffer' = Tail(buffer)
    <3>1. Len(buffer) - 1 <= Capacity
      BY <1>b, VcpAssumption
    <3>. QED
      BY <1>b, <2>3, <3>1
  <2>. QED
    BY <2>1, <2>2, <2>3
<1>4. DataOK'
  BY <1>0, <1>2, <1>3 DEF DataOK
<1>5. CallOK(call') /\ call'.pc \notin {"poll", "reopen"}
  <2>0. CallOK(NoCall) /\ NoCall.pc = "idle"
    BY NoCallOK
  <2>g. ASSUME ~At("yield"), NEW p \in ReadingPCs, Goto(p)
        PROVE  CallOK(call') /\ call'.pc \notin {"poll", "reopen"}
    <3>1. call.backlog = <<>>
      BY <1>0, <2>g DEF At, CallOK
    <3>2. p \in PCs /\ p \notin AttachPCs /\ p \notin {"poll", "reopen"}
      BY DEF ReadingPCs, PCs, AttachPCs
    <3>. QED
      BY <1>0, <2>g, <3>1, <3>2, GotoOK DEF Goto
  <2>1. CASE Flush \/ WriteLine \/ Turn \/ ClearEvent \/ Wait \/ Enough
    BY <2>0, <2>1, <2>g
    DEF Flush, WriteLine, Turn, ClearEvent, Wait, Enough, End, At, ReadingPCs
  <2>2. CASE TakeBacklog
    <3>1. ASSUME NEW n \in 0..(Len(buffer) - 1),
                 call' = [call EXCEPT !.backlog = SubSeq(buffer, n + 1, Len(buffer)),
                                      !.pc = "yield"]
          PROVE  CallOK(call') /\ call'.pc \notin {"poll", "reopen"}
      <4>1. \A i \in (n + 1)..Len(buffer) : buffer[i] \in Lines
        BY <1>b, ElementOfSeq
      <4>2. n + 1 \in Int /\ Len(buffer) \in Int
        BY <1>b
      <4>3. SubSeq(buffer, n + 1, Len(buffer)) \in Seq(Lines)
        BY <4>1, <4>2, SubSeqProperties
      <4>. QED
        BY <1>0, <3>1, <4>3 DEF CallOK, CallType, PCs, ReadingPCs, AttachPCs
    <3>. QED
      BY <2>2, <2>g, <3>1 DEF TakeBacklog, At, ReadingPCs
  <2>3. CASE YieldBacklog
    <3>1. call.backlog \in Seq(Lines) /\ call \in CallType
      BY <1>0 DEF CallOK, CallType
    <3>2. CASE call.backlog # <<>>
      <4>1. Head(call.backlog) \in Lines /\ Tail(call.backlog) \in Seq(Lines)
        BY <3>1, <3>2, HeadTailProperties
      <4>2. call' = [call EXCEPT !.got = TRUE, !.last = Head(call.backlog),
                                 !.pc = "yield", !.backlog = Tail(call.backlog)]
        BY <2>3, <3>1, <3>2 DEF YieldBacklog, Takes, CallType
      <4>3. CallOK(call') /\ call'.pc = "yield"
        BY <1>0, <4>1, <4>2, LineOK DEF CallOK, CallType, PCs, ReadingPCs, AttachPCs
      <4>. QED
        BY <4>3
    <3>3. CASE call.backlog = <<>>
      <4>1. "turn" \in PCs /\ "turn" \in ReadingPCs /\ "turn" \notin AttachPCs
        BY DEF PCs, ReadingPCs, AttachPCs
      <4>2. call' = [call EXCEPT !.pc = "turn"]
        BY <2>3, <3>3 DEF YieldBacklog, Goto
      <4>. QED
        BY <1>0, <3>3, <4>1, <4>2, GotoOK
    <3>. QED
      BY <3>2, <3>3
  <2>4. CASE Look
    <3>1. CASE buffer # <<>>
      <4>0. call \in CallType /\ call.backlog = <<>>
        BY <1>0, <2>4 DEF Look, At, CallOK
      <4>1. call' = [call EXCEPT !.got = TRUE, !.last = Head(buffer),
                                 !.pc = "turn", !.backlog = <<>>]
        BY <2>4, <3>1, <4>0 DEF Look, Takes, CallType
      <4>2. Head(buffer) \in Lines /\ <<>> \in Seq(Lines)
        BY <1>b, <3>1
      <4>3. CallOK(call') /\ call'.pc = "turn"
        BY <1>0, <4>1, <4>2, LineOK DEF CallOK, CallType, PCs, ReadingPCs, AttachPCs
      <4>. QED
        BY <4>3
    <3>2. CASE buffer = <<>>
      BY <2>0, <2>4, <2>g, <3>2 DEF Look, End, At, ReadingPCs
    <3>. QED
      BY <3>1, <3>2
  <2>. QED
    BY <2>1, <2>2, <2>3, <2>4 DEF ReadStep
<1>6. WaitOK'
  BY <1>5 DEF WaitOK
<1>. QED
  BY <1>1, <1>2, <1>4, <1>5, <1>6 DEF Inv

\* The caller, the clock and the boards.
LEMMA WorldInv ==
    ASSUME Inv,
           \/ \E kind \in Kinds, port \in 0..Ports, timed \in BOOLEAN : Call(kind, port, timed)
           \/ Deadline \/ Emit
           \/ \E b \in Boards : Unplug(b) \/ \E p \in 1..Ports : Plug(b, p)
    PROVE  Inv'
<1>0. EnvOK /\ RigOK /\ DataOK /\ CallOK(call) /\ WaitOK
  BY DEF Inv
<1>1. ASSUME NEW kind \in Kinds, NEW port \in 0..Ports, NEW timed \in BOOLEAN,
             Call(kind, port, timed)
      PROVE  Inv'
  <2>1. EnvOK' /\ RigOK' /\ DataOK'
    BY <1>0, <1>1 DEF Call, EnvOK, RigOK, DataOK, env, data
  <2>2. \E p \in {"ensure", "recycle"} :
           call' = [NoCall EXCEPT !.kind = kind, !.port = port, !.timed = timed, !.pc = p]
    BY <1>1 DEF Call
  <2>3. CallOK(call') /\ call'.pc \in {"ensure", "recycle"}
    <3>1. "ensure" \in PCs /\ "recycle" \in PCs
      BY DEF PCs
    <3>2. PICK p \in {"ensure", "recycle"} :
             call' = [NoCall EXCEPT !.kind = kind, !.port = port, !.timed = timed, !.pc = p]
      BY <2>2
    <3>3. p \in PCs /\ p \in {"ensure", "recycle"}
      BY <3>1
    <3>5. NoCall \in CallType /\ NoCall.backlog = <<>> /\ NoCall.last = Wrap
      BY NoCallOK DEF CallOK, NoCall
    <3>4. CallOK(call') /\ call'.pc = p
      BY <3>2, <3>3, <3>5 DEF CallOK, CallType, ReadingPCs
    <3>. QED
      BY <3>4
  <2>. QED
    BY <2>1, <2>3 DEF Inv, WaitOK
<1>2. CASE Deadline
  <2>1. EnvOK' /\ RigOK' /\ DataOK' /\ UNCHANGED reader
    BY <1>0, <1>2 DEF Deadline, EnvOK, RigOK, DataOK, env, data
  <2>2. CallOK(call') /\ call'.pc = call.pc
    BY <1>0, <1>2, LateOK DEF Deadline
  <2>. QED
    BY <1>0, <2>1, <2>2 DEF Inv, WaitOK
<1>3. CASE Emit
  <2>1. EnvOK' /\ RigOK'
    BY <1>0, <1>3 DEF Emit, EnvOK, RigOK, env
  <2>2. DataOK'
    BY <1>0, <1>3, VcpAssumption DEF Emit, DataOK
  <2>. QED
    BY <1>0, <1>3, <2>1, <2>2 DEF Emit, Inv, WaitOK
<1>4. ASSUME NEW b \in Boards, Unplug(b) PROVE Inv'
  <2>1. EnvOK'
    BY <1>0, <1>4, VcpAssumption DEF Unplug, EnvOK
  <2>2. RigOK'
    BY <1>0, <1>4 DEF Unplug, RigOK
  <2>3. wire' \in 0..MaxWire
    BY <1>0, <1>4, VcpAssumption DEF Unplug, DataOK
  <2>4. DataOK'
    BY <1>0, <1>4, <2>3 DEF Unplug, DataOK
  <2>. QED
    BY <1>0, <1>4, <2>1, <2>2, <2>4 DEF Unplug, Inv, WaitOK
<1>5. ASSUME NEW b \in Boards, NEW p \in 1..Ports, Plug(b, p) PROVE Inv'
  <2>1. EnvOK'
    BY <1>0, <1>5, VcpAssumption DEF Plug, EnvOK
  <2>2. RigOK' /\ DataOK'
    BY <1>0, <1>5 DEF Plug, RigOK, DataOK, data
  <2>. QED
    BY <1>0, <1>5, <2>1, <2>2 DEF Plug, Inv, WaitOK
<1>. QED
  BY <1>1, <1>2, <1>3, <1>4, <1>5

LEMMA StepInv == Inv /\ [Next]_vars => Inv'
<1> SUFFICES ASSUME Inv, [Next]_vars PROVE Inv'
  OBVIOUS
<1>1. CASE Next
  BY <1>1, DrainInv, AttachInv, ReadInv, WorldInv DEF Next, CallStep, ReadStep
<1>2. CASE UNCHANGED vars
  <2>1. EnvOK' /\ RigOK'
    BY <1>2 DEF Inv, EnvOK, RigOK, vars, env
  <2>2. DataOK'
    BY <1>2 DEF Inv, DataOK, vars, data
  <2>. QED
    BY <1>2, <2>1, <2>2 DEF Inv, WaitOK, vars
<1>. QED
  BY <1>1, <1>2

THEOREM Inductive == Spec => []Inv
BY InitInv, StepInv, PTL DEF Spec

\* No step of a call, of the drain thread or of the boards leaves the value
\* space of the model, and the buffer never exceeds line_buffer_capacity.
THEOREM TypeCorrect == Spec => []TypeOK
BY Inductive, InvTypes, PTL

-----------------------------------------------------------------------------
(* The reader implements the channel.  A step of the reader is a step of   *)
(* the channel or changes nothing the channel shows; which, depends on     *)
(* where the call is, and the invariant says that outside the hand-over of *)
(* a backlog what is held is the buffer.                                   *)

Held == call.backlog \o buffer

LEMMA HeldPlain ==
    /\ Inv => Held \in Seq(Lines) /\ call.backlog \in Seq(Lines) /\ buffer \in Seq(Lines)
    /\ Inv /\ call.pc # "yield" => Held = buffer
<1> SUFFICES ASSUME Inv
             PROVE  /\ Held \in Seq(Lines)
                    /\ call.backlog \in Seq(Lines) /\ buffer \in Seq(Lines)
                    /\ call.pc # "yield" => Held = buffer
  OBVIOUS
<1>1. call.backlog \in Seq(Lines) /\ buffer \in Seq(Lines)
  BY DEF Inv, CallOK, CallType, DataOK
<1>2. call.pc # "yield" => call.backlog = <<>>
  BY DEF Inv, CallOK
<1>. QED
  BY <1>1, <1>2, ConcatProperties, ConcatEmptySeq DEF Held

\* What the channel may forget: nothing, everything, the backlog.
LEMMA ForgetCases ==
    ASSUME NEW b \in Seq(Lines), NEW f \in Seq(Lines)
    PROVE  /\ \E n \in 0..Len(f) : f = SubSeq(f, n + 1, Len(f))
           /\ \E n \in 0..Len(f) : <<>> = SubSeq(f, n + 1, Len(f))
           /\ \E n \in 0..Len(b \o f) : f = SubSeq(b \o f, n + 1, Len(b \o f))
<1>1. Len(f) \in Nat /\ Len(b) \in Nat /\ Len(b \o f) = Len(b) + Len(f)
  BY LenProperties, ConcatProperties
<1>2. f = SubSeq(f, 0 + 1, Len(f)) /\ 0 \in 0..Len(f)
  BY <1>1, SubSeqFull
<1>3. <<>> = SubSeq(f, Len(f) + 1, Len(f)) /\ Len(f) \in 0..Len(f)
  BY <1>1, SubSeqEmpty
<1>4. f = SubSeq(b \o f, Len(b) + 1, Len(b \o f)) /\ Len(b) \in 0..Len(b \o f)
  BY <1>1, ConcatSuffix
<1>. QED
  BY <1>2, <1>3, <1>4

LEMMA ChannelInit == Init => Channel!Init
<1> SUFFICES ASSUME Init PROVE Channel!Init
  OBVIOUS
<1>1. call = NoCall /\ buffer = <<>> /\ next = 0
  BY DEF Init
<1>2. NoCall.backlog = <<>> /\ NoCall.last = Wrap /\ NoCall.pc = "idle"
  BY DEF NoCall
<1>3. call.backlog \o buffer = <<>>
  BY <1>1, <1>2, EmptyLines, ConcatEmptySeq
<1>. QED
  BY <1>1, <1>2, <1>3 DEF Channel!Init, Reading, ReadingPCs

\* A step that keeps the backlog, the buffer, the line handed out last and the
\* question whether a call reads.
LEMMA Hidden ==
    /\ UNCHANGED <<call.backlog, buffer, call.last, Reading, next>>
    => UNCHANGED Channel!vars
BY DEF Channel!vars

\* The drain thread: a line comes in, or nothing shows.
LEMMA DrainRefines == Inv /\ DrainStep => [Channel!Next]_(Channel!vars)
<1> SUFFICES ASSUME Inv, DrainStep PROVE Channel!Put \/ UNCHANGED Channel!vars
  BY DEF Channel!Next
<1>1. CASE DrainTop \/ DrainRead
  <2>1. UNCHANGED <<call, buffer, next>>
    BY <1>1 DEF DrainTop, DrainRead, data
  <2>. QED
    BY <2>1, Hidden DEF Reading
<1>2. CASE DrainExtract
  <2>1. CASE UNCHANGED <<buffer, next>>
    BY <1>2, <2>1, Hidden DEF DrainExtract, Reading
  <2>2. CASE /\ buffer' = Append(MakeRoom(buffer), next)
             /\ next' = (next + 1) % Wrap
    <3>0. /\ call.backlog \in Seq(Lines) /\ buffer \in Seq(Lines) /\ next \in Lines
          /\ UNCHANGED call
      BY <1>2 DEF Inv, DataOK, CallOK, CallType, DrainExtract
    <3> DEFINE b == call.backlog
    <3>1. UNCHANGED <<b, call.last, Reading>>
      BY <3>0 DEF Reading
    <3>b. b \in Seq(Lines)
      BY <3>0
    <3>2. CASE Len(buffer) # Capacity
      <4>1. b \o Append(buffer, next) = Append(b \o buffer, next)
        <5> HIDE DEF b
        <5>. QED
          BY <3>0, <3>b, ConcatAppend
      <4>. QED
        BY <2>2, <3>0, <3>1, <3>2, <4>1 DEF MakeRoom, Channel!Put
    <3>3. CASE Len(buffer) = Capacity
      <4>1. Len(b) \in Nat /\ Len(buffer) \in Nat \ {0} /\ buffer # <<>>
        BY <3>0, <3>3, VcpAssumption, LenProperties, EmptySeq
      <4>2. Len(b \o buffer) = Len(b) + Len(buffer)
        BY <3>0, ConcatProperties
      <4>3. /\ Len(b \o buffer) - Capacity = Len(b)
            /\ Len(b \o buffer) - Capacity + 2 = Len(b) + 2
            /\ Len(b \o buffer) >= Capacity
        BY <3>3, <4>1, <4>2
      <4>4. Tail(buffer) \in Seq(Lines)
        BY <3>0, <4>1, HeadTailProperties
      <4>5. Channel!Shed(b \o buffer) = b \o Tail(buffer)
        <5> HIDE DEF b
        <5>1. /\ SubSeq(b \o buffer, 1, Len(b)) = b
              /\ SubSeq(b \o buffer, Len(b) + 2, Len(b \o buffer)) = Tail(buffer)
          BY <3>0, <3>b, <4>1, ConcatSuffix
        <5>. QED
          BY <4>3, <5>1 DEF Channel!Shed
      <4>6. b \o Append(Tail(buffer), next) = Append(b \o Tail(buffer), next)
        BY <3>0, <4>4, ConcatAppend
      <4>7. (b \o buffer)' = Append(Channel!Shed(b \o buffer), next)
        BY <2>2, <3>0, <3>3, <4>5, <4>6 DEF MakeRoom
      <4>. QED
        BY <2>2, <3>1, <4>3, <4>7 DEF Channel!Put
    <3>. QED
      BY <3>2, <3>3
  <2>. QED
    BY <1>2, <2>1, <2>2 DEF DrainExtract
<1>. QED
  BY <1>1, <1>2 DEF DrainStep

\* Attaching and closing: no call reads, so what is held is the buffer, and a
\* call that starts to read keeps it or, with a new reader, has none.
LEMMA AttachRefines ==
    ASSUME Inv,
           EnsureCached \/ EnsureNew \/ OpenNew \/ Recycle \/ Poll \/ Reopen \/ Close
    PROVE  [Channel!Next]_(Channel!vars)
<1> DEFINE Begins ==
      \/ Channel!Begin \/ Channel!Renew \/ UNCHANGED Channel!vars
<1> SUFFICES Begins
  BY DEF Channel!Next
<1>i. Inv'
  BY AttachInv
<1>1. /\ ~Reading /\ call.pc # "yield" /\ call.last = Wrap
      /\ call.backlog = <<>> /\ buffer \in Seq(Lines)
  BY DEF EnsureCached, EnsureNew, OpenNew, Recycle, Poll, Reopen, Close, At,
         Reading, ReadingPCs, Inv, CallOK, DataOK
<1>2. /\ call'.pc # "yield" /\ call'.last = Wrap /\ call'.backlog = <<>>
      /\ UNCHANGED next
  <2>0. CallOK(call) /\ call \in CallType
    BY DEF Inv, CallOK
  <2>1. CallOK(NoCall) /\ NoCall.pc = "idle" /\ NoCall.backlog = <<>> /\ NoCall.last = Wrap
    BY NoCallOK DEF NoCall
  <2>2. At("ensure") \/ At("attach") \/ At("reopen") =>
           /\ Started.backlog = <<>> /\ Started.last = Wrap /\ Started.pc # "yield"
    BY <2>0, StartedOK DEF At, CallOK, AttachPCs
  <2>3. UNCHANGED next
    BY DEF EnsureCached, EnsureNew, OpenNew, Recycle, Poll, Reopen, Close, data
  <2>4. CASE \/ call' = NoCall \/ call' = call
             \/ call' = Started /\ (At("ensure") \/ At("attach") \/ At("reopen"))
    BY <1>1, <2>1, <2>2, <2>3, <2>4
  <2>5. CASE \E p \in {"recycle", "join", "release"} : Goto(p)
    BY <1>1, <2>0, <2>3, <2>5 DEF Goto, CallType
  <2>6. CASE call' = Polling
    BY <1>1, <2>0, <2>3, <2>6 DEF Polling, CallType
  <2>7. CASE \E to, found : call' = [call EXCEPT !.pc = "attach", !.to = to, !.found = found]
    BY <1>1, <2>0, <2>3, <2>7 DEF CallType
  <2>8. CASE \E to, found : call' = [call EXCEPT !.pc = "reopen", !.to = to, !.found = found]
    BY <1>1, <2>0, <2>3, <2>8 DEF CallType
  <2>9. CASE EnsureCached
    BY <2>4, <2>5, <2>9 DEF EnsureCached, End
  <2>10. CASE EnsureNew
    BY <2>4, <2>7, <2>10 DEF EnsureNew, Attach, End
  <2>11. CASE OpenNew
    BY <2>4, <2>11 DEF OpenNew, End
  <2>12. CASE Recycle
    BY <2>5, <2>6, <2>12 DEF Recycle, StopDrain, Join
  <2>13. CASE Poll
    BY <2>4, <2>8, <2>13 DEF Poll, End
  <2>14. CASE Reopen
    BY <2>4, <2>14 DEF Reopen, End
  <2>15. CASE Close
    BY <2>4, <2>5, <2>15 DEF Close, StopDrain, Join
  <2>. QED
    BY <2>9, <2>10, <2>11, <2>12, <2>13, <2>14, <2>15
<1>3. buffer' \in {buffer, <<>>}
  BY DEF EnsureCached, EnsureNew, OpenNew, Recycle, Poll, Reopen, Close, data
<1>4. call.backlog \o buffer = buffer /\ call'.backlog \o buffer' = buffer'
  BY <1>1, <1>2, <1>3, EmptyLines, ConcatEmptySeq
<1>5. \E n \in 0..Len(buffer) : buffer' = SubSeq(buffer, n + 1, Len(buffer))
  BY <1>1, <1>3, EmptyLines, ForgetCases
<1>6. CASE Reading'
  BY <1>1, <1>2, <1>4, <1>5, <1>6 DEF Channel!Begin, Channel!Forget
<1>7. CASE ~Reading' /\ buffer' = buffer
  BY <1>1, <1>2, <1>7, Hidden DEF Reading
<1>8. CASE ~Reading' /\ buffer' = <<>>
  BY <1>1, <1>2, <1>4, <1>8 DEF Channel!Renew, Reading
<1>. QED
  BY <1>3, <1>6, <1>7, <1>8

\* Reading: a line is taken, a call begins to read, or it ends.
LEMMA ReadRefines ==
    ASSUME Inv, ReadStep PROVE [Channel!Next]_(Channel!vars)
<1> SUFFICES Channel!Take \/ Channel!Begin \/ Channel!Finish \/ UNCHANGED Channel!vars
  BY DEF Channel!Next
<1>0. /\ call \in CallType /\ CallOK(call) /\ buffer \in Seq(Lines)
      /\ call.backlog \in Seq(Lines) /\ UNCHANGED next
  BY DEF Inv, CallOK, CallType, DataOK, ReadStep, Flush, WriteLine, TakeBacklog,
         YieldBacklog, Turn, Look, ClearEvent, Wait, Enough, data
<1>n. NoCall.pc = "idle" /\ NoCall.backlog = <<>> /\ NoCall.last = Wrap
  BY DEF NoCall
<1>g. ASSUME NEW p \in PCs, Goto(p)
      PROVE  call'.pc = p /\ call'.backlog = call.backlog /\ call'.last = call.last
  BY <1>0, <1>g DEF Goto, CallType
\* The call goes on reading.
<1>1. ASSUME Reading, NEW p \in ReadingPCs, Goto(p), UNCHANGED buffer
      PROVE  UNCHANGED Channel!vars
  BY <1>0, <1>1, <1>g, Hidden DEF Reading, ReadingPCs, PCs
\* The call ends: a backlog goes with it.
<1>2. ASSUME Reading, End, UNCHANGED buffer PROVE Channel!Finish
  <2>1. /\ call'.backlog \o buffer' = buffer /\ ~Reading' /\ call'.last = Wrap
    BY <1>0, <1>2, <1>n, ConcatEmptySeq DEF End, Reading, ReadingPCs
  <2>2. \E n \in 0..Len(call.backlog \o buffer) :
           buffer = SubSeq(call.backlog \o buffer, n + 1, Len(call.backlog \o buffer))
    BY <1>0, ForgetCases
  <2>. QED
    BY <1>0, <1>2, <2>1, <2>2 DEF Channel!Finish, Channel!Forget
\* The call begins to read.
<1>3. ASSUME NEW b \in Seq(Lines), ~Reading, Reading', call'.last = call.last,
             call.backlog = <<>>, call'.backlog = b,
             \E n \in 0..Len(buffer) : b \o buffer' = SubSeq(buffer, n + 1, Len(buffer))
      PROVE  Channel!Begin
  <2>1. call.backlog \o buffer = buffer
    BY <1>0, <1>3, ConcatEmptySeq
  <2>. QED
    BY <1>0, <1>3, <2>1 DEF Channel!Begin, Channel!Forget
<1>4. CASE Flush
  <2>1. /\ ~Reading /\ Reading' /\ call.backlog = <<>> /\ buffer' = <<>>
        /\ call'.last = call.last /\ call'.backlog = <<>>
    BY <1>0, <1>4, <1>g DEF Flush, At, Reading, ReadingPCs, PCs, CallOK
  <2>2. <<>> \o <<>> = <<>> /\ <<>> \in Seq(Lines)
    BY EmptyLines, ConcatEmptySeq
  <2>3. \E n \in 0..Len(buffer) : <<>> \o buffer' = SubSeq(buffer, n + 1, Len(buffer))
    BY <1>0, <2>1, <2>2, ForgetCases
  <2>. QED
    BY <1>3, <2>1, <2>2, <2>3
<1>5. CASE TakeBacklog
  <2>1. ~Reading /\ call.backlog = <<>>
    BY <1>0, <1>5 DEF TakeBacklog, At, Reading, ReadingPCs, CallOK
  <2>2. ASSUME NEW n \in 0..(Len(buffer) - 1), buffer' = <<>>,
               call' = [call EXCEPT !.backlog = SubSeq(buffer, n + 1, Len(buffer)),
                                    !.pc = "yield"]
        PROVE  Channel!Begin
    <3> DEFINE b == SubSeq(buffer, n + 1, Len(buffer))
    <3>1. b \in Seq(Lines)
      <4>1. Len(buffer) \in Nat
        BY <1>0, LenProperties
      <4>2. \A i \in (n + 1)..Len(buffer) : buffer[i] \in Lines
        BY <1>0, <4>1, ElementOfSeq
      <4>3. n + 1 \in Int /\ Len(buffer) \in Int
        BY <4>1
      <4>. QED
        BY <4>2, <4>3, SubSeqProperties
    <3>2. b \o buffer' = b
      BY <2>2, <3>1, ConcatEmptySeq
    <3>3. Reading' /\ call'.last = call.last /\ call'.backlog = b
      BY <1>0, <2>2 DEF CallType, Reading, ReadingPCs
    <3>4. n \in 0..Len(buffer)
      BY <1>0, LenProperties
    <3>5. \E m \in 0..Len(buffer) : b \o buffer' = SubSeq(buffer, m + 1, Len(buffer))
      BY <3>2, <3>4
    <3> HIDE DEF b
    <3>. QED
      BY <1>3, <2>1, <3>1, <3>3, <3>5
  <2>3. CASE Goto("turn") /\ UNCHANGED buffer
    <3>1. /\ Reading' /\ call'.last = call.last /\ call'.backlog = <<>>
          /\ <<>> \in Seq(Lines) /\ <<>> \o buffer' = buffer
      BY <1>0, <1>g, <2>1, <2>3, EmptyLines, ConcatEmptySeq DEF PCs, Reading, ReadingPCs
    <3>2. \E n \in 0..Len(buffer) : <<>> \o buffer' = SubSeq(buffer, n + 1, Len(buffer))
      BY <1>0, <3>1, ForgetCases
    <3>. QED
      BY <1>3, <2>1, <3>1, <3>2
  <2>. QED
    BY <1>5, <2>2, <2>3 DEF TakeBacklog, LeavesBehind
<1>6. CASE YieldBacklog
  <2>1. Reading /\ UNCHANGED buffer
    BY <1>6 DEF YieldBacklog, At, Reading, ReadingPCs, data
  <2>2. CASE call.backlog # <<>>
    <3>1. /\ call.backlog \o buffer # <<>>
          /\ Head(call.backlog \o buffer) = Head(call.backlog)
          /\ Tail(call.backlog \o buffer) = Tail(call.backlog) \o buffer
      BY <1>0, <2>2, ConcatHead
    <3>2. call' = [[call EXCEPT !.got = TRUE, !.last = Head(call.backlog), !.pc = "yield"]
                     EXCEPT !.backlog = Tail(call.backlog)]
      BY <1>0, <1>6, <2>2 DEF YieldBacklog, Takes, CallType
    <3>3. /\ Reading' /\ call'.last = Head(call.backlog)
          /\ call'.backlog = Tail(call.backlog)
      BY <1>0, <3>2 DEF CallType, Reading, ReadingPCs
    <3>. QED
      BY <1>0, <2>1, <3>1, <3>3 DEF Channel!Take
  <2>3. CASE call.backlog = <<>>
    BY <1>1, <1>6, <2>1, <2>3 DEF YieldBacklog, ReadingPCs
  <2>. QED
    BY <2>2, <2>3
<1>7. CASE Look
  <2>1. Reading /\ call.backlog = <<>>
    BY <1>0, <1>7 DEF Look, At, Reading, ReadingPCs, CallOK
  <2>2. CASE buffer # <<>>
    <3>1. call' = [call EXCEPT !.got = TRUE, !.last = Head(buffer), !.pc = "turn"]
      BY <1>7, <2>2 DEF Look, Takes
    <3>2. Reading' /\ call'.last = Head(buffer) /\ call'.backlog = <<>>
      BY <1>0, <2>1, <3>1 DEF CallType, Reading, ReadingPCs
    <3>3. buffer' = Tail(buffer) /\ Tail(buffer) \in Seq(Lines)
      BY <1>0, <1>7, <2>2, HeadTailProperties DEF Look
    <3>4. call.backlog \o buffer = buffer /\ call'.backlog \o buffer' = Tail(buffer)
      BY <1>0, <2>1, <3>2, <3>3, ConcatEmptySeq
    <3>. QED
      BY <1>0, <2>1, <2>2, <3>2, <3>4 DEF Channel!Take
  <2>3. CASE buffer = <<>>
    BY <1>1, <1>2, <1>7, <2>1, <2>3 DEF Look, ReadingPCs
  <2>. QED
    BY <2>2, <2>3
<1>8. CASE WriteLine \/ Turn \/ ClearEvent \/ Wait \/ Enough
  <2>1. Reading /\ UNCHANGED buffer
    BY <1>8 DEF WriteLine, Turn, ClearEvent, Wait, Enough, At, Reading, ReadingPCs, data
  <2>2. End \/ \E p \in ReadingPCs : Goto(p)
    BY <1>8 DEF WriteLine, Turn, ClearEvent, Wait, Enough, ReadingPCs
  <2>. QED
    BY <1>1, <1>2, <2>1, <2>2
<1>. QED
  BY <1>4, <1>5, <1>6, <1>7, <1>8 DEF ReadStep

\* The caller, the clock and the boards do not show.
LEMMA WorldRefines ==
    ASSUME Inv,
           \/ \E kind \in Kinds, port \in 0..Ports, timed \in BOOLEAN : Call(kind, port, timed)
           \/ Deadline \/ Emit
           \/ \E b \in Boards : Unplug(b) \/ \E p \in 1..Ports : Plug(b, p)
    PROVE  UNCHANGED Channel!vars
<1>0. call \in CallType /\ CallOK(call)
  BY DEF Inv, CallOK
<1>1. CASE UNCHANGED <<call, buffer, next>>
  BY <1>1, Hidden DEF Reading
<1>2. CASE Deadline
  <2>1. call'.pc = call.pc /\ call'.backlog = call.backlog /\ call'.last = call.last
    BY <1>0, <1>2, LateOK DEF Deadline
  <2>. QED
    BY <1>2, <2>1, Hidden DEF Deadline, data, Reading
<1>3. ASSUME NEW kind \in Kinds, NEW port \in 0..Ports, NEW timed \in BOOLEAN,
             Call(kind, port, timed)
      PROVE  UNCHANGED Channel!vars
  <2>1. call.backlog = <<>> /\ call.last = Wrap /\ ~Reading
    BY <1>0, <1>3 DEF Call, At, CallOK, Reading, ReadingPCs
  <2>2. call'.backlog = <<>> /\ call'.last = Wrap /\ ~Reading'
    <3>1. NoCall \in CallType /\ NoCall.backlog = <<>> /\ NoCall.last = Wrap
      BY NoCallOK DEF CallOK, NoCall
    <3>2. PICK p \in {"ensure", "recycle"} :
             call' = [NoCall EXCEPT !.kind = kind, !.port = port, !.timed = timed, !.pc = p]
      BY <1>3 DEF Call
    <3>. QED
      BY <3>1, <3>2 DEF CallType, Reading, ReadingPCs
  <2>3. buffer' = buffer /\ next' = next
    BY <1>3 DEF Call, data
  <2>4. Reading' = Reading
    BY <2>1, <2>2 DEF Reading
  <2>. QED
    BY <2>1, <2>2, <2>3, <2>4, Hidden
<1>. QED
  BY <1>1, <1>2, <1>3 DEF Emit, Unplug, Plug, data

\* The reader of vcp/reader.py implements the channel, for every number of
\* boards and ports, every capacity and every numbering of the lines.
THEOREM ReaderIsChannel == Spec => ChannelSafe
<1>1. ASSUME Inv, [Next]_vars PROVE [Channel!Next]_(Channel!vars)
  <2>1. CASE Next
    BY <1>1, <2>1, DrainRefines, AttachRefines, ReadRefines, WorldRefines
    DEF Next, CallStep, ReadStep
  <2>2. CASE UNCHANGED vars
    BY <2>2, Hidden DEF vars, data, Reading
  <2>. QED
    BY <1>1, <2>1, <2>2
<1>. QED
  BY <1>1, ChannelInit, Inductive, PTL DEF Spec, ChannelSafe, Channel!Spec
-----------------------------------------------------------------------------
(* A dead drain thread has said so: the reader it served is marked as      *)
(* failed until it is opened anew, and only then is there a new thread.    *)

DeadOK == drain = "dead" => reader.failed

LEMMA DeadStep == Inv /\ DeadOK /\ [Next]_vars => DeadOK'
<1> SUFFICES ASSUME Inv, DeadOK, [Next]_vars PROVE DeadOK'
  OBVIOUS
<1>0. reader \in ReaderType
  BY DEF Inv, RigOK
<1>1. CASE DrainStep
  BY <1>0, <1>1 DEF DrainStep, DrainTop, DrainRead, DrainExtract, DeadOK, ReaderType
<1>2. CASE OpenNew \/ Recycle \/ Reopen \/ Close
  BY <1>0, <1>2 DEF OpenNew, Recycle, Reopen, Close, StopDrain, Join, DeadOK, ReaderType
<1>3. CASE ClearEvent
  BY <1>0, <1>3 DEF ClearEvent, DeadOK, ReaderType
<1>4. CASE UNCHANGED <<drain, reader>>
  BY <1>4 DEF DeadOK
<1>5. CASE EnsureCached \/ EnsureNew \/ Poll \/ ReadStep
  BY <1>3, <1>4, <1>5
  DEF EnsureCached, EnsureNew, Poll, ReadStep, Flush, WriteLine, TakeBacklog,
      YieldBacklog, Turn, Look, Wait, Enough
<1>6. CASE \/ \E kind \in Kinds, port \in 0..Ports, timed \in BOOLEAN : Call(kind, port, timed)
           \/ Deadline \/ Emit
           \/ \E b \in Boards : Unplug(b) \/ \E p \in 1..Ports : Plug(b, p)
  BY <1>4, <1>6 DEF Call, Deadline, Emit, Unplug, Plug
<1>7. CASE UNCHANGED vars
  BY <1>4, <1>7 DEF vars
<1>. QED
  BY <1>1, <1>2, <1>5, <1>6, <1>7 DEF Next, CallStep, ReadStep

Serves == call'.pc \in {"flush", "backlog", "turn"}

LEMMA UsesLiveReader == Inv /\ DeadOK /\ [Next]_vars /\ At("ensure") /\ Serves => drain # "dead"
<1> SUFFICES ASSUME Inv, DeadOK, [Next]_vars, At("ensure"), Serves PROVE drain # "dead"
  OBVIOUS
<1>0. call \in CallType /\ call.pc = "ensure"
  BY DEF Inv, CallOK, At
<1>1. CASE EnsureCached
  BY <1>0, <1>1 DEF EnsureCached, Goto, End, NoCall, IsAlive, Serves, DeadOK, CallType
<1>2. CASE EnsureNew
  <2>1. End \/ \E port, found, sn : Attach(port, found, sn)
    BY <1>2 DEF EnsureNew
  <2>2. ASSUME NEW port, NEW found, NEW sn, Attach(port, found, sn) PROVE call'.pc = "attach"
    BY <1>0, <2>2 DEF Attach, CallType
  <2>3. End => call'.pc = "idle"
    BY DEF End, NoCall
  <2>. QED
    BY <2>1, <2>2, <2>3 DEF Serves
<1>3. CASE Deadline
  BY <1>0, <1>3 DEF Deadline, Serves, CallType
<1>4. CASE UNCHANGED call
  BY <1>0, <1>4 DEF Serves
<1>5. CASE DrainStep \/ Emit \/ \E b \in Boards : Unplug(b) \/ \E p \in 1..Ports : Plug(b, p)
  BY <1>4, <1>5 DEF DrainStep, DrainTop, DrainRead, DrainExtract, Emit, Unplug, Plug
<1>6. CASE UNCHANGED vars
  BY <1>4, <1>6 DEF vars
<1>7. ~(OpenNew \/ Recycle \/ Poll \/ Reopen \/ Close \/ ReadStep)
  BY <1>0 DEF At, OpenNew, Recycle, Poll, Reopen, Close, ReadStep, Flush, WriteLine,
              TakeBacklog, YieldBacklog, Turn, Look, ClearEvent, Wait, Enough
<1>8. \A kind \in Kinds, port \in 0..Ports, timed \in BOOLEAN : ~Call(kind, port, timed)
  BY <1>0 DEF At, Call
<1>. QED
  BY <1>1, <1>2, <1>3, <1>5, <1>6, <1>7, <1>8 DEF Next, CallStep, ReadStep

\* No call starts to read from a reader whose drain thread has died: the death
\* is recorded before the thread is gone, and is_alive looks at the record.
THEOREM DeadIsRecycled == Spec => DeadNotUsed
<1>1. Init => DeadOK
  BY DEF Init, DeadOK
<1>2. Spec => []DeadOK
  BY <1>1, DeadStep, Inductive, PTL DEF Spec
<1>3. /\ Inv /\ DeadOK /\ [Next]_vars
      => [At("ensure") /\ call'.pc \in {"flush", "backlog", "turn"} => drain # "dead"]_vars
  BY UsesLiveReader DEF Serves
<1>. QED
  BY <1>2, <1>3, Inductive, PTL DEF Spec, DeadNotUsed

-----------------------------------------------------------------------------
(* The probe.  What the context knows changes only while there is no       *)
(* reader; a reader carries a copy of it; so what a discovery finds is the *)
(* probe known, from the moment it is found until the port is opened.      *)

IsKnown(found) == default_sn # "none" /\ found # "none" => found = default_sn

ProbeOK ==
    /\ reader.open \/ call.pc \in {"recycle", "join", "poll", "reopen"} => active
    /\ active => reader.sn = default_sn
    /\ call.pc \in {"attach", "reopen"} => IsKnown(call.found)
    /\ reader.open => IsKnown(reader.meant)

LEMMA ProbeStays ==
    ASSUME ProbeOK, UNCHANGED <<default_sn, active, reader.open, reader.sn, reader.meant>>,
           \/ call'.pc \in PCs \ {"recycle", "join", "poll", "attach", "reopen"}
           \/ call'.pc = call.pc /\ call'.found = call.found
           \/ call'.pc \in {"recycle", "join", "poll"} /\ active
    PROVE  ProbeOK'
BY DEF ProbeOK, IsKnown

LEMMA StartedPC == Inv /\ call.kind \in Kinds => Started.pc \in {"flush", "backlog", "turn", "idle"}
BY StartedOK DEF Inv

\* The steps that find or open a port.
LEMMA ProbeAttach ==
    ASSUME Inv, ProbeOK, EnsureCached \/ EnsureNew \/ OpenNew \/ Recycle \/ Poll \/ Reopen \/ Close
    PROVE  ProbeOK'
<1>0. call \in CallType /\ reader \in ReaderType /\ NoCall.pc = "idle" /\ "idle" \in PCs
  BY DEF Inv, CallOK, RigOK, NoCall, PCs
<1>k. At("ensure") \/ At("attach") \/ At("reopen")
      => Started.pc \in PCs \ {"recycle", "join", "poll", "attach", "reopen"}
  BY StartedPC DEF Inv, CallOK, At, AttachPCs, PCs
<1>1. CASE EnsureCached
  <2>1. \/ call'.pc \in PCs \ {"recycle", "join", "poll", "attach", "reopen"}
        \/ call'.pc = "recycle" /\ active
    BY <1>0, <1>k, <1>1 DEF EnsureCached, End, Goto, CallType
  <2>. QED
    BY <1>1, <2>1, ProbeStays DEF EnsureCached, env
<1>2. CASE EnsureNew
  <2>1. ~active /\ ~reader.open /\ UNCHANGED <<active, reader>>
    BY <1>2 DEF EnsureNew, ProbeOK
  <2>2. ASSUME NEW port, NEW found, NEW sn, Attach(port, found, sn),
               sn # "none" /\ found # "none" => found = sn
        PROVE  ProbeOK'
    BY <1>0, <2>1, <2>2 DEF Attach, ProbeOK, IsKnown, CallType
  <2>3. CASE End
    BY <1>0, <2>1, <2>3 DEF End, ProbeOK
  <2>4. ASSUME NEW b, Candidates(default_sn) = {b}
        PROVE  default_sn # "none" /\ b # "none" => b = default_sn
    BY <2>4 DEF Candidates
  <2>. QED
    BY <1>2, <2>2, <2>3, <2>4 DEF EnsureNew
<1>3. CASE OpenNew
  <2>1. CASE End /\ UNCHANGED <<active, reader>>
    BY <1>0, <1>3, <2>1, ProbeStays DEF OpenNew, End, env
  <2>2. CASE /\ reader' = Opened(NewReader(call.to, SnOfReader), call.to)
             /\ active' = TRUE /\ call' = Started
    <3>1. /\ reader'.sn = default_sn /\ reader'.meant = call.found
      BY <2>2 DEF Opened, NewReader, SnOfReader
    <3>2. IsKnown(call.found) /\ UNCHANGED default_sn
      BY <1>3 DEF OpenNew, At, ProbeOK, env
    <3>3. call'.pc \notin {"recycle", "join", "poll", "attach", "reopen"}
      BY <1>3, <1>k, <2>2 DEF OpenNew
    <3>. QED
      BY <2>2, <3>1, <3>2, <3>3 DEF ProbeOK, IsKnown
  <2>. QED
    BY <1>3, <2>1, <2>2 DEF OpenNew
<1>4. CASE Recycle
  <2>1. active /\ call'.pc \in {"join", "poll"} /\ UNCHANGED <<active, default_sn>>
    BY <1>0, <1>4 DEF Recycle, StopDrain, Goto, Join, Polling, At, ProbeOK, env, CallType
  <2>2. /\ UNCHANGED <<reader.sn, reader.meant>>
        /\ reader'.open => reader.open
    BY <1>0, <1>4 DEF Recycle, StopDrain, Join, ReaderType
  <2>. QED
    BY <2>1, <2>2 DEF ProbeOK, IsKnown
<1>5. CASE Poll
  <2>1. UNCHANGED <<default_sn, active, reader>> /\ active /\ reader.sn = default_sn
    BY <1>5 DEF Poll, At, ProbeOK, env
  <2>2. CASE End
    BY <1>0, <2>1, <2>2, ProbeStays DEF End
  <2>3. ASSUME NEW b \in Candidates(reader.sn),
               call' = [call EXCEPT !.pc = "reopen", !.to = where[b], !.found = b]
        PROVE  ProbeOK'
    <3>1. IsKnown(b) /\ call'.pc = "reopen" /\ call'.found = b
      BY <1>0, <2>1, <2>3 DEF Candidates, IsKnown, CallType
    <3>. QED
      BY <2>1, <3>1 DEF ProbeOK, IsKnown
  <2>. QED
    BY <1>5, <2>2, <2>3 DEF Poll
<1>6. CASE Reopen
  <2>0. active /\ reader.sn = default_sn /\ IsKnown(call.found) /\ UNCHANGED <<active, default_sn>>
    BY <1>6 DEF Reopen, At, ProbeOK, env
  <2>1. call'.pc \in PCs \ {"recycle", "join", "poll", "attach", "reopen"}
    BY <1>0, <1>k, <1>6 DEF Reopen, End, PCs
  <2>2. CASE reader' = Opened(reader, call.to)
    <3>1. reader'.sn = reader.sn /\ reader'.meant = call.found
      BY <1>0, <2>2 DEF Opened, ReaderType
    <3>. QED
      BY <2>0, <2>1, <3>1 DEF ProbeOK, IsKnown
  <2>3. CASE reader' = [reader EXCEPT !.port = call.to]
    <3>1. UNCHANGED <<reader.open, reader.sn, reader.meant>>
      BY <1>0, <2>3 DEF ReaderType
    <3>. QED
      BY <2>0, <2>1, <3>1, ProbeStays
  <2>. QED
    BY <1>6, <2>2, <2>3 DEF Reopen
<1>7. CASE Close
  <2>1. call'.pc \in {"idle", "release"} /\ UNCHANGED default_sn
    BY <1>0, <1>7 DEF Close, StopDrain, Goto, Join, At, env, CallType
  <2>2. /\ UNCHANGED <<reader.sn, reader.meant>>
        /\ reader'.open => reader.open
        /\ active' => active
        /\ ~active' => ~reader'.open
    BY <1>0, <1>7 DEF Close, StopDrain, Join, ProbeOK, ReaderType
  <2>. QED
    BY <2>1, <2>2 DEF ProbeOK, IsKnown
<1>. QED
  BY <1>1, <1>2, <1>3, <1>4, <1>5, <1>6, <1>7

LEMMA ProbeStep == Inv /\ ProbeOK /\ [Next]_vars => ProbeOK'
<1> SUFFICES ASSUME Inv, ProbeOK, [Next]_vars PROVE ProbeOK'
  OBVIOUS
<1>0. call \in CallType /\ reader \in ReaderType /\ NoCall.pc = "idle" /\ "idle" \in PCs
  BY DEF Inv, CallOK, RigOK, NoCall, PCs
<1>1. CASE DrainStep \/ Emit \/ \E b \in Boards : Unplug(b) \/ \E p \in 1..Ports : Plug(b, p)
  <2>1. UNCHANGED <<default_sn, active, call, reader.open, reader.sn, reader.meant>>
    BY <1>0, <1>1 DEF DrainStep, DrainTop, DrainRead, DrainExtract, Emit, Unplug, Plug,
                      env, ReaderType
  <2>. QED
    BY <2>1, ProbeStays
<1>2. CASE ReadStep
  <2>1. UNCHANGED <<default_sn, active, reader.open, reader.sn, reader.meant>>
    BY <1>0, <1>2 DEF ReadStep, Flush, WriteLine, TakeBacklog, YieldBacklog, Turn, Look,
                      ClearEvent, Wait, Enough, env, ReaderType
  <2>2. call'.pc \in {"idle", "write", "look", "yield", "turn", "clear", "wait"}
    BY <1>0, <1>2 DEF ReadStep, Flush, WriteLine, TakeBacklog, YieldBacklog, Turn, Look,
                      ClearEvent, Wait, Enough, End, Goto, Takes, CallType
  <2>. QED
    BY <2>1, <2>2, ProbeStays DEF PCs
<1>3. CASE Deadline
  <2>1. UNCHANGED <<default_sn, active, reader>> /\ call'.pc = call.pc /\ call'.found = call.found
    BY <1>0, <1>3 DEF Deadline, env, CallType
  <2>. QED
    BY <2>1, ProbeStays
<1>4. ASSUME NEW kind \in Kinds, NEW port \in 0..Ports, NEW timed \in BOOLEAN,
             Call(kind, port, timed)
      PROVE  ProbeOK'
  <2>1. UNCHANGED <<default_sn, active, reader>>
    BY <1>4 DEF Call, env
  <2>2. \A p : [NoCall EXCEPT !.kind = kind, !.port = port, !.timed = timed, !.pc = p].pc = p
    BY DEF NoCall
  <2>3. \/ call'.pc = "ensure"
        \/ call'.pc = "recycle" /\ active
    BY <1>4, <2>2 DEF Call
  <2>4. CASE call'.pc = "ensure"
    BY <2>1, <2>4, ProbeStays DEF PCs
  <2>5. CASE call'.pc = "recycle" /\ active
    BY <2>1, <2>5, ProbeStays
  <2>. QED
    BY <2>3, <2>4, <2>5
<1>5. CASE UNCHANGED vars
  BY <1>5, ProbeStays DEF vars, env
<1>. QED
  BY <1>1, <1>2, <1>3, <1>4, <1>5, ProbeAttach DEF Next, CallStep, ReadStep

\* The reader is on the probe the context knows, whether it was configured or
\* kept from the match with the project's board, and through every reconnect.
THEOREM ProbeIsKept == Spec => []SameProbe
<1>1. Init => ProbeOK
  BY DEF Init, ProbeOK, NewReader, NoCall
<1>2. Spec => []ProbeOK
  BY <1>1, ProbeStep, Inductive, PTL DEF Spec
<1>3. ProbeOK => SameProbe
  BY DEF ProbeOK, IsKnown, SameProbe
<1>. QED
  BY <1>2, <1>3, PTL
=============================================================================
