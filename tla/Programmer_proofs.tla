--------------------------- MODULE Programmer_proofs --------------------------
(***************************************************************************)
(* The safety of CubeProgrammer for any number of calls and builds and any *)
(* length of the diagnose ladder: consent, what pairs and locks report,    *)
(* signatures, and the end of a tail.  One inductive invariant, Inv, says  *)
(* what each of them leans on while a call is under way.                   *)
(***************************************************************************)
EXTENDS Programmer, TLAPS

\* A place belongs to its verbs.
Places ==
    /\ At("route") => call.verb = "control"
    /\ At("read") => call.verb \in {"read", "dump", "options"}
    /\ At("ladder") => call.verb = "diagnose"
    /\ At("loader") => call.verb = "external"
    /\ At("arguments") => call.verb = "dump"
    /\ At("level") => call.verb = "options"
    /\ At("gate") => call.verb \in {"erase", "options", "inferred"}
    /\ At("run") => call.verb \in {"erase", "options"}
    /\ At("flash") => call.verb \in {"flash", "inferred", "external", "pair", "signed_pair"}
    /\ At("sign") => call.verb = "signed_pair"
    /\ call.sign => call.verb = "signed_pair"

\* Nobody passes a gate without its consent, nor the first check without the second.
Consented ==
    /\ At("run") => Approved
    /\ call.at \in {"gate", "run"} /\ call.level = "rdp2" => call.irreversible

\* What is read back after a write is not a lock.
ReadsBackOpen ==
    /\ call.wrote /\ ~At("idle") => At("read")
    /\ At("read") /\ call.verb = "options" => call.wrote /\ call.level # "rdp2"

\* A pair that goes on has touched nothing yet, or written its first leg whole.
PairGoesOn ==
    /\ At("sign") => call.touched = {}
    /\ At("flash") /\ call.leg = "boot" /\ Paired => call.touched = {}
    /\ At("flash") /\ call.leg = "app" /\ Paired =>
           call.touched = {"boot"} /\ flash["boot"] \notin {Blank, Torn}

\* A leg's signed image, of the input the call began with.
Fresh(l) == [state |-> "signed", build |-> call.since[l]]
SourcesFresh == ~At("idle") => \A l \in Legs :
    /\ call.since[l] = input[l].build
    /\ call.from[l] = "output" => output[l] \in {Blank, Fresh(l)}

\* The legs that are through signing.
Ready(l) == call.from[l] = "output" \/ input[l].state = "signed"
SigningGoesOn == call.sign =>
    /\ At("sign") /\ call.leg = "app" => Ready("boot")
    /\ At("flash") => Ready("boot") /\ Ready("app")
    /\ At("flash") /\ call.leg = "app" => flash["boot"] = Fresh("boot")

\* A stream is drained only by an exit code of zero, which leaves nothing to clean up.
DrainedIsOver == swo.end = "drained" => swo.gen = "over" /\ swo.child = "zero"

Inv ==
    /\ ProgrammerTypeOK /\ Places
    /\ Consented
    /\ ReadsBackOpen /\ WrittenLockTold
    /\ PairGoesOn /\ PairTold
    /\ SourcesFresh /\ SigningGoesOn /\ SignedIsSound
    /\ DrainedIsOver /\ SwoEnds

-----------------------------------------------------------------------------
(* A run, and what it leaves.                                              *)

LEMMA RunDef ==
    ASSUME NEW run \in Run
    PROVE  /\ run.ended \in {"ok", "failed", "interrupted"} /\ run.did \in {"none", "part", "all"}
           /\ run.ended = "ok" => run.did = "all"
           /\ Told(run) \in {"ok", "raised", "interrupted"} /\ (Told(run) = "ok" <=> run.ended = "ok")
           /\ Told(run) = "raised" <=> run.ended = "failed"
  BY DEF Run, Told

LEMMA RunsDef ==
    ASSUME NEW run \in Runs
    PROVE  run \in Run /\ (run.ended = "ok" \/ run.did # "none" => ProbeFree /\ rdp # "rdp2")
  BY DEF Run, Runs

LEMMA DoneDef ==
    ASSUME NEW run \in Run, NEW before \in Image, NEW after \in Image
    PROVE  Done(run, before, after) \in Image /\ (run.did = "all" => Done(run, before, after) = after)
           /\ (run.did = "none" => Done(run, before, after) = before)
  BY RunDef DEF Done, Image

-----------------------------------------------------------------------------
LEMMA InitInv == ProgrammerInit => Inv
<1>. SUFFICES ASSUME ProgrammerInit PROVE Inv
  OBVIOUS
<1>1. ProgrammerTypeOK
  BY ProgrammerAssumption
     DEF ProgrammerInit, ProgrammerTypeOK, CallRecords, Outcomes, NoCall, Legs, Consents, Image, Whole, Blank
<1>. QED
  BY <1>1 DEF ProgrammerInit, Inv, NoCall, Places, Consented, ReadsBackOpen, WrittenLockTold, PairGoesOn, PairTold,
        SourcesFresh, SigningGoesOn, SignedIsSound, DrainedIsOver, SwoEnds, At, Paired

-----------------------------------------------------------------------------
(* Types.                                                                  *)

LEMMA GoTypes ==
    ASSUME call \in CallRecords,
           NEW place \in {"idle", "read", "gate", "run", "flash"}, Go(place)
    PROVE  call' \in CallRecords
  BY DEF Go, CallRecords

LEMMA ReturnTypes ==
    ASSUME call \in CallRecords, NEW outcome \in Outcomes, Return(outcome)
    PROVE  call' \in CallRecords
  BY DEF Return, CallRecords

LEMMA ToldTypes == ASSUME NEW run \in Runs PROVE Told(run) \in Outcomes
  BY RunDef, RunsDef DEF Outcomes

LEMMA NextLegTypes == ASSUME call \in CallRecords PROVE NextLeg \in CallRecords
  BY DEF NextLeg, CallRecords, Legs

LEMMA BareTypes ==
    ASSUME NEW verb \in {"control", "read", "diagnose", "external", "dump", "erase", "options", "flash",
                        "inferred", "pair", "signed_pair"},
           NEW place \in {"route", "read", "ladder", "loader", "arguments", "gate", "level", "flash", "sign"}
    PROVE  Call(verb, place) \in CallRecords
<1>1. NoCall \in CallRecords
  BY ProgrammerAssumption DEF NoCall, Consents, Legs, CallRecords, Outcomes
<1>. QED
  BY <1>1 DEF Call, CallRecords

LEMMA FieldTypes ==
    ASSUME NEW r \in CallRecords
    PROVE  /\ \A x \in Consents : [r EXCEPT !.consent = x] \in CallRecords
           /\ \A x \in {"other", "rdp2"} : [r EXCEPT !.level = x] \in CallRecords
           /\ \A x \in BOOLEAN : [r EXCEPT !.irreversible = x] \in CallRecords
           /\ \A x \in BOOLEAN : [r EXCEPT !.sign = x] \in CallRecords
           /\ \A x \in Legs : [r EXCEPT !.leg = x] \in CallRecords
           /\ \A x \in SUBSET Legs : [r EXCEPT !.bad = x] \in CallRecords
           /\ \A x \in [Legs -> 1..MaxBuilds] : [r EXCEPT !.since = x] \in CallRecords
  BY DEF CallRecords

LEMMA RequestTypes ==
    ASSUME NEW c \in Requests
    PROVE  c \in CallRecords
<1>1. CASE c \in PlainRequests
  BY <1>1, BareTypes, FieldTypes DEF PlainRequests
<1>2. CASE c \in EraseRequests
  <2>1. PICK x \in Consents : c = [Call("erase", "gate") EXCEPT !.consent = x]
    BY <1>2 DEF EraseRequests
  <2>2. Call("erase", "gate") \in CallRecords
    BY BareTypes
  <2>. QED
    BY <2>1, <2>2, FieldTypes
<1>3. CASE c \in OptionRequests
  <2>1. PICK x \in [consent : Consents, level : {"other", "rdp2"}, twice : BOOLEAN] :
          c = [Call("options", "level") EXCEPT !.consent = x.consent, !.level = x.level, !.irreversible = x.twice]
    BY <1>3 DEF OptionRequests
  <2>2. Call("options", "level") \in CallRecords
    BY BareTypes
  <2>3. x.consent \in Consents /\ x.level \in {"other", "rdp2"} /\ x.twice \in BOOLEAN
    OBVIOUS
  <2>4. [Call("options", "level") EXCEPT !.consent = x.consent] \in CallRecords
    BY <2>2, <2>3, FieldTypes
  <2>5. [Call("options", "level") EXCEPT !.consent = x.consent, !.level = x.level] \in CallRecords
    BY <2>3, <2>4, FieldTypes
  <2>. QED
    BY <2>1, <2>3, <2>5, FieldTypes
<1>4. CASE c \in FlashRequests
  <2>1. PICK x \in [leg : Legs, bad : {{}, Legs}] :
          c = [Call("flash", "flash") EXCEPT !.leg = x.leg, !.bad = x.bad]
    BY <1>4 DEF FlashRequests
  <2>2. Call("flash", "flash") \in CallRecords
    BY BareTypes
  <2>. QED
    BY <2>1, <2>2 DEF CallRecords
<1>5. CASE c \in InferredRequests
  <2>1. PICK x \in [consent : {"absent", "asks_yes", "asks_no"}, bad : {{}, Legs}] :
          c = [Call("inferred", "gate") EXCEPT !.consent = x.consent, !.bad = x.bad]
    BY <1>5 DEF InferredRequests
  <2>2. Call("inferred", "gate") \in CallRecords
    BY BareTypes
  <2>3. x.consent \in Consents /\ x.bad \in SUBSET Legs
    BY DEF Consents
  <2>4. [Call("inferred", "gate") EXCEPT !.consent = x.consent] \in CallRecords
    BY <2>2, <2>3, FieldTypes
  <2>. QED
    BY <2>1, <2>3, <2>4, FieldTypes
<1>6. CASE c \in PairRequests
  <2>1. /\ Call("pair", "flash") \in CallRecords
        /\ Call("signed_pair", "flash") \in CallRecords /\ Call("signed_pair", "sign") \in CallRecords
    BY BareTypes
  <2>2. CASE \E b \in SUBSET Legs : c = [Call("pair", "flash") EXCEPT !.bad = b]
    BY <2>1, <2>2, FieldTypes
  <2>3. CASE \E b \in SUBSET Legs : c = [Call("signed_pair", "flash") EXCEPT !.bad = b]
    BY <2>1, <2>3, FieldTypes
  <2>4. CASE \E b \in SUBSET Legs : c = [Call("signed_pair", "sign") EXCEPT !.sign = TRUE, !.bad = b]
    <3>1. [Call("signed_pair", "sign") EXCEPT !.sign = TRUE] \in CallRecords
      BY <2>1, FieldTypes
    <3>. QED
      BY <2>4, <3>1, FieldTypes
  <2>. QED
    BY <1>6, <2>2, <2>3, <2>4 DEF PairRequests
<1>. QED
  BY <1>1, <1>2, <1>3, <1>4, <1>5, <1>6 DEF Requests

\* Steps of a call that change nothing but the call.
LEMMA CallTypes ==
    ASSUME ProgrammerTypeOK,
           \/ Start \/ Route \/ Read \/ Irreversible \/ Gate \/ FindLoader \/ FindArguments
           \/ AlreadySigned \/ RefuseToSign \/ ClimbOn \/ GiveUp
    PROVE  ProgrammerTypeOK'
<1>. USE DEF ProgrammerTypeOK, device, files
<1>a. "refused" \in Outcomes /\ "declined" \in Outcomes /\ "unresponsive" \in Outcomes
      /\ {"ok", "raised", "interrupted"} \subseteq Outcomes
  BY DEF Outcomes
<1>1. CASE Start
  <2>1. PICK c \in Requests : call' = [c EXCEPT !.since = [l \in Legs |-> input[l].build]]
    BY <1>1 DEF Start
  <2>2. [l \in Legs |-> input[l].build] \in [Legs -> 1..MaxBuilds]
    BY DEF Whole
  <2>3. call' \in CallRecords
    BY <2>1, <2>2, RequestTypes, FieldTypes
  <2>4. calls' \in 0..MaxCalls
    BY <1>1, ProgrammerAssumption DEF Start
  <2>. QED
    BY <1>1, <2>3, <2>4 DEF Start
<1>2. CASE Route
  <2>1. call' \in CallRecords
    BY <1>2, <1>a, ReturnTypes, ToldTypes DEF Route
  <2>. QED
    BY <1>2, <2>1 DEF Route
<1>3. CASE Read
  <2>1. Run \subseteq Runs \cup Run /\ \A run \in Run : Told(run) \in Outcomes
    BY RunDef DEF Outcomes
  <2>2. call' \in CallRecords
    BY <1>3, <2>1, ReturnTypes, ToldTypes DEF Read
  <2>. QED
    BY <1>3, <2>2 DEF Read
<1>4. CASE Irreversible
  <2>1. call' \in CallRecords
    BY <1>4, <1>a, ReturnTypes, GoTypes DEF Irreversible
  <2>. QED
    BY <1>4, <2>1 DEF Irreversible
<1>5. CASE Gate
  <2>1. call' \in CallRecords
    BY <1>5, <1>a, ReturnTypes, GoTypes DEF Gate
  <2>. QED
    BY <1>5, <2>1 DEF Gate
<1>6. CASE FindLoader \/ FindArguments
  <2>1. call' \in CallRecords
    BY <1>6, <1>a, ReturnTypes, GoTypes, ToldTypes DEF FindLoader, FindArguments, Prepare
  <2>. QED
    BY <1>6, <2>1 DEF FindLoader, FindArguments
<1>7. CASE AlreadySigned
  BY <1>7, NextLegTypes DEF AlreadySigned
<1>8. CASE RefuseToSign
  <2>1. call' \in CallRecords
    BY <1>8, <1>a, ReturnTypes DEF RefuseToSign
  <2>. QED
    BY <1>8, <2>1 DEF RefuseToSign
<1>9. CASE ClimbOn
  <2>1. CASE \E run \in Runs : Return(Told(run))
    BY <1>9, <2>1, ReturnTypes, ToldTypes DEF ClimbOn
  <2>2. CASE call' = [call EXCEPT !.tries = @ + 1]
    <3>1. call' \in CallRecords
      BY <1>9, <2>2, ProgrammerAssumption DEF ClimbOn, Exhausted, CallRecords
    <3>. QED
      BY <1>9, <3>1 DEF ClimbOn
  <2>. QED
    BY <1>9, <2>1, <2>2 DEF ClimbOn
<1>10. CASE GiveUp
  <2>1. call' \in CallRecords
    BY <1>10, <1>a, ReturnTypes DEF GiveUp
  <2>. QED
    BY <1>10, <2>1 DEF GiveUp
<1>. QED
  BY <1>1, <1>2, <1>3, <1>4, <1>5, <1>6, <1>7, <1>8, <1>9, <1>10

LEMMA DeviceTypes ==
    ASSUME ProgrammerTypeOK, Erase \/ WriteOptions \/ Flash \/ Sign
    PROVE  ProgrammerTypeOK'
<1>. USE DEF ProgrammerTypeOK, device, files
<1>a. "refused" \in Outcomes
  BY DEF Outcomes
<1>1. CASE Erase
  <2>1. PICK run \in Runs : flash' = [l \in Legs |-> Done(run, flash[l], Blank)] /\ Return(Told(run))
    BY <1>1 DEF Erase
  <2>2. flash' \in [Legs -> Image]
    BY <2>1, RunsDef, DoneDef DEF Image
  <2>3. call' \in CallRecords
    BY <2>1, ReturnTypes, ToldTypes
  <2>. QED
    BY <1>1, <2>2, <2>3 DEF Erase
<1>2. CASE WriteOptions
  <2>1. PICK run \in Runs :
          IF run.ended # "ok" THEN Return(Told(run))
          ELSE IF ReadsBack THEN call' = [call EXCEPT !.at = "read", !.wrote = TRUE]
          ELSE call' = [call EXCEPT !.at = "idle", !.wrote = TRUE, !.told = "ok"]
    BY <1>2 DEF WriteOptions
  <2>2. CASE Return(Told(run))
    <3>1. call' \in CallRecords
      BY <2>2, ReturnTypes, ToldTypes
    <3>. QED
      BY <1>2, <3>1 DEF WriteOptions
  <2>3. CASE call' = [call EXCEPT !.at = "read", !.wrote = TRUE]
    <3>1. call' \in CallRecords
      BY <2>3 DEF CallRecords
    <3>. QED
      BY <1>2, <3>1 DEF WriteOptions
  <2>4. CASE call' = [call EXCEPT !.at = "idle", !.wrote = TRUE, !.told = "ok"]
    <3>1. call' \in CallRecords
      BY <2>4 DEF CallRecords, Outcomes
    <3>. QED
      BY <1>2, <3>1 DEF WriteOptions
  <2>. QED
    BY <2>1, <2>2, <2>3, <2>4
<1>3. CASE Flash
  <2>1. CASE call.leg \in call.bad
    <3>1. call' \in CallRecords
      BY <1>3, <2>1, <1>a, ReturnTypes DEF Flash
    <3>. QED
      BY <1>3, <2>1, <3>1 DEF Flash
  <2>2. CASE call.leg \notin call.bad
    <3>1. PICK run \in Runs : /\ call' = Flashed(run)
                              /\ flash' = [flash EXCEPT ![call.leg] = Done(run, @, File(call.leg))]
      BY <1>3, <2>2 DEF Flash
    <3>2. call.leg \in Legs /\ File(call.leg) \in Image /\ flash[call.leg] \in Image
      BY DEF CallRecords, Image, File
    <3>3. flash' \in [Legs -> Image]
      BY <3>1, <3>2, RunsDef, DoneDef
    <3>4. Told(run) \in Outcomes /\ "partial" \in Outcomes
      BY ToldTypes DEF Outcomes
    <3>5. call' \in CallRecords
      <4>. DEFINE c == [call EXCEPT !.touched = IF run.did = "none" THEN @ ELSE @ \cup {call.leg}]
      <4>1. c \in CallRecords
        BY <3>2 DEF CallRecords
      <4>. HIDE DEF c
      <4>2. [c EXCEPT !.leg = "app"] \in CallRecords
        BY <4>1 DEF CallRecords, Legs
      <4>3. \A o \in Outcomes : [c EXCEPT !.at = "idle", !.told = o] \in CallRecords
        BY <4>1 DEF CallRecords
      <4>. QED
        BY <3>1, <3>4, <4>2, <4>3 DEF Flashed, c
    <3>. QED
      BY <1>3, <3>3, <3>5 DEF Flash
  <2>. QED
    BY <2>1, <2>2
<1>4. CASE Sign
  <2>1. CASE output[call.leg] # Blank
    <3>1. call' \in CallRecords
      BY <1>4, <2>1, <1>a, ReturnTypes DEF Sign, ExistingRefused
    <3>. QED
      BY <1>4, <2>1, <3>1 DEF Sign
  <2>2. CASE output[call.leg] = Blank
    <3>1. PICK run \in Run :
            /\ output' = [output EXCEPT ![call.leg] =
                              Done(run, @, [state |-> "signed", build |-> input[call.leg].build])]
            /\ IF run.ended = "ok" THEN call' = [NextLeg EXCEPT !.from[call.leg] = "output"]
                                   ELSE Return(Told(run))
      BY <1>4, <2>2 DEF Sign
    <3>2. call.leg \in Legs /\ output[call.leg] \in Image
          /\ [state |-> "signed", build |-> input[call.leg].build] \in Image
      BY DEF CallRecords, Image, Whole
    <3>3. output' \in [Legs -> Image]
      BY <3>1, <3>2, DoneDef
    <3>4. Told(run) \in Outcomes
      BY RunDef DEF Outcomes
    <3>5. [NextLeg EXCEPT !.from[call.leg] = "output"] \in CallRecords
      BY <3>2, NextLegTypes DEF CallRecords
    <3>6. call' \in CallRecords
      BY <3>1, <3>4, <3>5, ReturnTypes
    <3>. QED
      BY <1>4, <3>3, <3>6 DEF Sign
  <2>. QED
    BY <2>1, <2>2
<1>. QED
  BY <1>1, <1>2, <1>3, <1>4

LEMMA OtherTypes ==
    ASSUME ProgrammerTypeOK,
           \/ SwoNext \/ SwoYield \/ SwoEof \/ SwoWaited \/ SwoClose \/ SwoTerminate \/ SwoExits
           \/ SessionOpens \/ SessionCloses \/ Rebuild \/ DeleteOutput
    PROVE  ProgrammerTypeOK'
<1>. USE ProgrammerAssumption DEF ProgrammerTypeOK, device, files, Legs
<1>1. CASE SwoNext \/ SwoYield \/ SwoEof \/ SwoWaited \/ SwoClose \/ SwoTerminate \/ SwoExits
  BY <1>1 DEF SwoNext, SwoYield, SwoEof, SwoWaited, SwoClose, SwoTerminate, SwoExits,
             Finally, ExitTold, Abandoned, Killed
<1>2. CASE SessionOpens \/ SessionCloses
  BY <1>2 DEF SessionOpens, SessionCloses
<1>3. CASE Rebuild
  BY <1>3 DEF Rebuild, Whole
<1>4. CASE DeleteOutput
  BY <1>4 DEF DeleteOutput, Image
<1>. QED
  BY <1>1, <1>2, <1>3, <1>4

-----------------------------------------------------------------------------
(* The call.                                                               *)

\* How a call starts.
LEMMA RequestDef ==
    ASSUME NEW c \in Requests
    PROVE  /\ c.touched = {} /\ c.wrote = FALSE /\ c.from = [l \in Legs |-> "input"]
           /\ \/ c.at = "route" /\ c.verb = "control"
              \/ c.at = "read" /\ c.verb = "read"
              \/ c.at = "ladder" /\ c.verb = "diagnose"
              \/ c.at = "loader" /\ c.verb = "external"
              \/ c.at = "arguments" /\ c.verb = "dump"
              \/ c.at = "level" /\ c.verb = "options"
              \/ c.at = "gate" /\ c.verb \in {"erase", "inferred"} /\ c.level = "other"
              \/ c.at = "flash" /\ c.verb = "flash"
              \/ c.at = "flash" /\ c.verb \in {"pair", "signed_pair"} /\ c.leg = "boot"
              \/ c.at = "sign" /\ c.verb = "signed_pair" /\ c.leg = "boot"
           /\ c.sign => c.at = "sign"
<1>. USE DEF Call, NoCall
<1>1. CASE c \in PlainRequests
  BY <1>1 DEF PlainRequests
<1>2. CASE c \in EraseRequests
  BY <1>2 DEF EraseRequests
<1>3. CASE c \in OptionRequests
  BY <1>3 DEF OptionRequests
<1>4. CASE c \in FlashRequests
  BY <1>4 DEF FlashRequests
<1>5. CASE c \in InferredRequests
  BY <1>5 DEF InferredRequests
<1>6. CASE c \in PairRequests
  BY <1>6 DEF PairRequests
<1>. QED
  BY <1>1, <1>2, <1>3, <1>4, <1>5, <1>6 DEF Requests

CallInv ==
    /\ Places /\ Consented
    /\ ReadsBackOpen /\ WrittenLockTold
    /\ PairGoesOn /\ PairTold
    /\ SourcesFresh /\ SigningGoesOn /\ SignedIsSound

LEMMA StartInv == ASSUME ProgrammerTypeOK, CallInv, Start PROVE CallInv'
<1>1. PICK c \in Requests : call' = [c EXCEPT !.since = [l \in Legs |-> input[l].build]]
  BY DEF Start
<1>2. c \in CallRecords
  BY RequestTypes
<1>3. /\ call'.since = [l \in Legs |-> input[l].build] /\ call'.at = c.at /\ call'.verb = c.verb
      /\ call'.leg = c.leg /\ call'.level = c.level /\ call'.touched = {} /\ call'.wrote = FALSE
      /\ call'.from = [l \in Legs |-> "input"] /\ call'.sign = c.sign
  BY <1>1, <1>2, RequestDef DEF CallRecords
<1>4. UNCHANGED <<device, files, session, swo>>
  BY DEF Start
<1>5. (Places /\ Consented)'
  BY <1>3, <1>4, RequestDef DEF Places, Consented, At, Approved
<1>6. (ReadsBackOpen /\ WrittenLockTold)'
  BY <1>3, <1>4, RequestDef DEF ReadsBackOpen, WrittenLockTold, At
<1>7. (PairGoesOn /\ PairTold)'
  BY <1>3, <1>4, RequestDef DEF PairGoesOn, PairTold, At, Paired
<1>8. (SourcesFresh /\ SigningGoesOn /\ SignedIsSound)'
  BY <1>3, <1>4, RequestDef DEF SourcesFresh, SigningGoesOn, SignedIsSound, At, files
<1>. QED
  BY <1>5, <1>6, <1>7, <1>8 DEF CallInv

\* A call that goes on elsewhere, or ends, is otherwise as it was.
LEMMA GoDef ==
    ASSUME call \in CallRecords, NEW place, Go(place)
    PROVE  /\ call'.at = place
           /\ call'.verb = call.verb /\ call'.leg = call.leg /\ call'.consent = call.consent
           /\ call'.level = call.level /\ call'.irreversible = call.irreversible /\ call'.sign = call.sign
           /\ call'.from = call.from /\ call'.since = call.since /\ call'.touched = call.touched
           /\ call'.wrote = call.wrote /\ call'.told = call.told
  BY DEF Go, CallRecords

LEMMA ReturnDef ==
    ASSUME call \in CallRecords, NEW outcome, Return(outcome)
    PROVE  /\ call'.at = "idle" /\ call'.told = outcome
           /\ call'.verb = call.verb /\ call'.leg = call.leg /\ call'.consent = call.consent
           /\ call'.level = call.level /\ call'.irreversible = call.irreversible /\ call'.sign = call.sign
           /\ call'.from = call.from /\ call'.since = call.since /\ call'.touched = call.touched
           /\ call'.wrote = call.wrote
  BY DEF Return, CallRecords

LEMMA NextLegDef ==
    ASSUME call \in CallRecords
    PROVE  /\ IF call.leg = "boot" THEN NextLeg.leg = "app" /\ NextLeg.at = call.at
                                   ELSE NextLeg.leg = "boot" /\ NextLeg.at = "flash"
           /\ NextLeg.verb = call.verb /\ NextLeg.consent = call.consent
           /\ NextLeg.level = call.level /\ NextLeg.irreversible = call.irreversible
           /\ NextLeg.sign = call.sign /\ NextLeg.from = call.from /\ NextLeg.since = call.since
           /\ NextLeg.touched = call.touched /\ NextLeg.wrote = call.wrote /\ NextLeg.told = call.told
  BY DEF NextLeg, CallRecords

\* A pair ends here only short of success, and so does a run that writes options.
LEMMA ReturnInv ==
    ASSUME ProgrammerTypeOK, CallInv, ~At("idle"), NEW outcome, Return(outcome),
           Paired => outcome \notin {"ok", "partial"},
           call.verb = "options" => At("read") \/ outcome # "ok"
    PROVE  CallInv'
<1>1. call \in CallRecords
  BY DEF ProgrammerTypeOK
<1>2. (Places /\ Consented)'
  BY <1>1, ReturnDef DEF CallInv, Places, Consented, At, Approved
<1>3. (ReadsBackOpen /\ WrittenLockTold)'
  BY <1>1, ReturnDef DEF CallInv, ReadsBackOpen, WrittenLockTold, At
<1>4. (PairGoesOn /\ PairTold)'
  <2>1. Paired => "app" \notin call.touched
    BY <1>1 DEF CallInv, Places, PairGoesOn, Paired, At, CallRecords, Legs
  <2>. QED
    BY <1>1, <2>1, ReturnDef DEF PairGoesOn, PairTold, At, Paired
<1>5. (SourcesFresh /\ SigningGoesOn)'
  BY <1>1, ReturnDef DEF SourcesFresh, SigningGoesOn, At
<1>6. SignedIsSound'
  BY <1>1, ReturnDef DEF CallInv, Places, SignedIsSound, At, Paired
<1>. QED
  BY <1>2, <1>3, <1>4, <1>5, <1>6 DEF CallInv

\* A call moves on to where its checks allow.
LEMMA GoInv ==
    ASSUME ProgrammerTypeOK, CallInv, UNCHANGED <<device, files>>, NEW place, Go(place),
           \/ At("level") /\ place = "gate" /\ (call.level = "rdp2" => call.irreversible)
           \/ At("gate") /\ place = "run" /\ call.verb # "inferred" /\ Approved
           \/ At("gate") /\ place = "flash" /\ call.verb = "inferred"
           \/ At("loader") /\ place = "flash"
           \/ At("arguments") /\ place = "read"
    PROVE  CallInv'
<1>1. call \in CallRecords
  BY DEF ProgrammerTypeOK
<1>2. /\ call.wrote = FALSE /\ call.sign = FALSE /\ ~Paired
      /\ place = "gate" => call.verb = "options"
      /\ place = "run" => call.verb \in {"erase", "options"}
      /\ place = "read" => call.verb = "dump"
      /\ place = "flash" => call.verb \in {"inferred", "external"}
      /\ place \in {"gate", "run"} /\ call.level = "rdp2" => call.irreversible
      /\ place = "run" => call.consent \in {"true", "asks_yes"}
      /\ place \in {"gate", "run", "read", "flash"}
  BY <1>1 DEF CallInv, Places, Consented, ReadsBackOpen, At, Paired, CallRecords, Approved
<1>3. (Places /\ Consented)'
  BY <1>1, <1>2, GoDef DEF Places, Consented, At, Approved
<1>4. (ReadsBackOpen /\ WrittenLockTold)'
  BY <1>1, <1>2, GoDef DEF ReadsBackOpen, WrittenLockTold, At
<1>5. (PairGoesOn /\ PairTold)'
  BY <1>1, <1>2, GoDef DEF PairGoesOn, PairTold, At, Paired
<1>6. (SourcesFresh /\ SigningGoesOn /\ SignedIsSound)'
  <2>1. ~At("idle")
    BY DEF At
  <2>2. SourcesFresh'
    BY <1>1, <2>1, GoDef DEF CallInv, SourcesFresh, Fresh, files
  <2>. QED
    BY <1>1, <1>2, <2>2, GoDef DEF SigningGoesOn, SignedIsSound
<1>. QED
  BY <1>3, <1>4, <1>5, <1>6 DEF CallInv

LEMMA PlainInv ==
    ASSUME ProgrammerTypeOK, CallInv,
           \/ Route \/ Read \/ Irreversible \/ Gate \/ FindLoader \/ FindArguments
           \/ RefuseToSign \/ ClimbOn \/ GiveUp \/ Erase
    PROVE  CallInv'
<1>. USE DEF device, files
<1>1. \A p \in {"route", "read", "level", "gate", "loader", "arguments", "ladder", "run"} :
          At(p) => ~Paired /\ p # "idle"
                   /\ (call.verb = "options" => p \in {"read", "level", "gate", "run"})
  BY DEF CallInv, Places, At, Paired
<1>2. CASE Route
  <2>1. ~At("idle") /\ ~Paired /\ call.verb # "options" /\ \E outcome : Return(outcome)
    BY <1>2, <1>1 DEF Route, At
  <2>. QED
    BY <1>2, <2>1, ReturnInv DEF Route
<1>3. CASE Read
  <2>1. ~At("idle") /\ ~Paired /\ \E outcome : Return(outcome)
    BY <1>3, <1>1 DEF Read, At
  <2>. QED
    BY <1>3, <2>1, ReturnInv DEF Read
<1>4. CASE Irreversible
  <2>1. ~At("idle") /\ ~Paired
    BY <1>4, <1>1 DEF Irreversible, At
  <2>. QED
    BY <1>4, <2>1, ReturnInv, GoInv DEF Irreversible
<1>5. CASE Gate
  <2>1. ~At("idle") /\ ~Paired
    BY <1>5, <1>1 DEF Gate, At
  <2>. QED
    BY <1>5, <2>1, ReturnInv, GoInv DEF Gate
<1>6. CASE FindLoader
  <2>1. ~At("idle") /\ ~Paired /\ call.verb # "options"
    BY <1>6, <1>1 DEF FindLoader, At
  <2>2. Go("flash") \/ \E outcome : Return(outcome)
    BY <1>6 DEF FindLoader, Prepare
  <2>. QED
    BY <1>6, <2>1, <2>2, ReturnInv, GoInv DEF FindLoader
<1>7. CASE FindArguments
  <2>1. ~At("idle") /\ ~Paired /\ call.verb # "options"
    BY <1>7, <1>1 DEF FindArguments, At
  <2>2. Go("read") \/ \E outcome : Return(outcome)
    BY <1>7 DEF FindArguments, Prepare
  <2>. QED
    BY <1>7, <2>1, <2>2, ReturnInv, GoInv DEF FindArguments
<1>8. CASE RefuseToSign
  BY <1>8, ReturnInv DEF RefuseToSign, At
<1>9. CASE ClimbOn
  <2>1. ~At("idle") /\ ~Paired /\ call.verb # "options" /\ At("ladder") /\ UNCHANGED <<device, files>>
    BY <1>9, <1>1 DEF ClimbOn, At
  <2>2. CASE \E outcome : Return(outcome)
    BY <2>1, <2>2, ReturnInv
  <2>3. CASE call' = [call EXCEPT !.tries = @ + 1]
    <3>1. call \in CallRecords
      BY DEF ProgrammerTypeOK
    <3>2. /\ call'.at = call.at /\ call'.verb = call.verb /\ call'.leg = call.leg
          /\ call'.consent = call.consent /\ call'.level = call.level
          /\ call'.irreversible = call.irreversible /\ call'.sign = call.sign /\ call'.from = call.from
          /\ call'.since = call.since /\ call'.touched = call.touched /\ call'.wrote = call.wrote
      BY <2>3, <3>1 DEF CallRecords
    <3>3. (Places /\ Consented /\ ReadsBackOpen /\ WrittenLockTold)'
      BY <2>1, <3>2 DEF CallInv, Places, Consented, ReadsBackOpen, WrittenLockTold, At, Approved
    <3>4. (PairGoesOn /\ PairTold /\ SourcesFresh /\ SigningGoesOn /\ SignedIsSound)'
      BY <2>1, <3>2 DEF CallInv, PairGoesOn, PairTold, SourcesFresh, SigningGoesOn, SignedIsSound,
            At, Paired, Fresh, Ready
    <3>. QED
      BY <3>3, <3>4 DEF CallInv
  <2>. QED
    BY <1>9, <2>2, <2>3 DEF ClimbOn
<1>10. CASE GiveUp
  BY <1>10, <1>1, ReturnInv DEF GiveUp, At
<1>11. CASE Erase
  <2>1. ~At("idle") /\ ~Paired /\ call.verb # "options" /\ \E outcome : Return(outcome)
    BY <1>11, <1>1 DEF Erase, At
  <2>. QED
    BY <1>11, <2>1, ReturnInv DEF Erase
<1>. QED
  BY <1>2, <1>3, <1>4, <1>5, <1>6, <1>7, <1>8, <1>9, <1>10, <1>11

-----------------------------------------------------------------------------
(* Steps that write: option bytes, flash, signatures.                      *)

LEMMA WriteOptionsInv == ASSUME ProgrammerTypeOK, CallInv, WriteOptions PROVE CallInv'
<1>1. call \in CallRecords
  BY DEF ProgrammerTypeOK
<1>2. At("run") /\ call.verb = "options" /\ ~Paired /\ call.wrote = FALSE /\ call.sign = FALSE /\ ~At("idle")
  BY <1>1 DEF WriteOptions, CallInv, Places, ReadsBackOpen, At, Paired, CallRecords
<1>3. PICK run \in Runs :
        /\ rdp' = IF run.did = "all" /\ call.level = "rdp2" THEN "rdp2" ELSE rdp
        /\ IF run.ended # "ok" THEN Return(Told(run))
           ELSE IF ReadsBack THEN call' = [call EXCEPT !.at = "read", !.wrote = TRUE]
           ELSE call' = [call EXCEPT !.at = "idle", !.wrote = TRUE, !.told = "ok"]
  BY DEF WriteOptions
<1>4. CASE run.ended # "ok"
  BY <1>2, <1>3, <1>4, RunDef, RunsDef, ReturnInv
<1>5. CASE run.ended = "ok"
  <2>1. /\ call'.wrote = TRUE /\ call'.verb = "options" /\ call'.sign = FALSE
        /\ call'.from = call.from /\ call'.since = call.since
        /\ \/ ReadsBack /\ call'.at = "read"
           \/ call'.at = "idle" /\ call'.told = "ok"
    BY <1>1, <1>2, <1>3, <1>5 DEF CallRecords
  <2>2. /\ ReadsBack => call'.level # "rdp2"
        /\ call'.level = "rdp2" => rdp' = "rdp2"
    BY <1>1, <1>3, <1>5, RunDef, RunsDef DEF ReadsBack, CallRecords
  <2>3. (Places /\ Consented /\ ReadsBackOpen /\ WrittenLockTold)'
    BY <2>1, <2>2 DEF Places, Consented, ReadsBackOpen, WrittenLockTold, At
  <2>4. (PairGoesOn /\ PairTold /\ SigningGoesOn /\ SignedIsSound)'
    BY <2>1 DEF PairGoesOn, PairTold, SigningGoesOn, SignedIsSound, At, Paired
  <2>5. SourcesFresh'
    BY <1>2, <2>1 DEF CallInv, SourcesFresh, Fresh, At, WriteOptions, files
  <2>. QED
    BY <2>3, <2>4, <2>5 DEF CallInv
<1>. QED
  BY <1>4, <1>5

\* The next leg is at hand: AlreadySigned and Sign go on alike.
LEMMA NextLegInv ==
    ASSUME ProgrammerTypeOK, CallInv, At("sign"), NEW from,
           from \in {call.from, [call.from EXCEPT ![call.leg] = "output"]},
           call' = [NextLeg EXCEPT !.from = from],
           UNCHANGED <<device, input>>,
           from[call.leg] = "output" \/ HasHeader,
           \A l \in Legs : from[l] = "output" => output'[l] \in {Blank, Fresh(l)}
    PROVE  CallInv'
<1>. USE DEF device
<1>1. call \in CallRecords /\ NextLeg \in CallRecords
  BY NextLegTypes DEF ProgrammerTypeOK
<1>2. call.verb = "signed_pair" /\ call.touched = {} /\ call.wrote = FALSE /\ call.leg \in Legs
  BY <1>1 DEF CallInv, Places, PairGoesOn, ReadsBackOpen, At, CallRecords
<1>3. /\ IF call.leg = "boot" THEN call'.leg = "app" /\ call'.at = "sign"
                              ELSE call'.leg = "boot" /\ call'.at = "flash"
      /\ call'.verb = call.verb /\ call'.sign = call.sign /\ call'.from = from
      /\ call'.since = call.since /\ call'.touched = {} /\ call'.wrote = FALSE
  BY <1>1, <1>2, NextLegDef DEF CallRecords, At
<1>4. (Places /\ Consented /\ ReadsBackOpen /\ WrittenLockTold)'
  BY <1>2, <1>3 DEF Places, Consented, ReadsBackOpen, WrittenLockTold, At
<1>5. (PairGoesOn /\ PairTold /\ SignedIsSound)'
  BY <1>3 DEF PairGoesOn, PairTold, SignedIsSound, At
<1>6. SourcesFresh'
  BY <1>3 DEF CallInv, SourcesFresh, At, Fresh
<1>7. SigningGoesOn'
  <2>1. from[call.leg] = "output" \/ input[call.leg].state = "signed"
    BY DEF HasHeader
  <2>2. call.sign /\ call.leg = "app" => from["boot"] = "output" \/ input["boot"].state = "signed"
    BY <1>1 DEF CallInv, SigningGoesOn, Ready, At, CallRecords, Legs
  <2>. QED
    BY <1>2, <1>3, <2>1, <2>2 DEF SigningGoesOn, Ready, At, Legs
<1>. QED
  BY <1>4, <1>5, <1>6, <1>7 DEF CallInv

LEMMA SignInv == ASSUME ProgrammerTypeOK, CallInv, AlreadySigned \/ Sign PROVE CallInv'
<1>. USE DEF device
<1>1. call \in CallRecords /\ NextLeg \in CallRecords /\ call.leg \in Legs
  BY NextLegTypes DEF ProgrammerTypeOK, CallRecords
<1>2. NextLeg.from = call.from /\ call.from \in [Legs -> {"input", "output"}]
  BY <1>1, NextLegDef DEF CallRecords
<1>3. At("sign") /\ ~At("idle") /\ Paired /\ call.wrote = FALSE
  BY <1>1 DEF AlreadySigned, Sign, CallInv, Places, ReadsBackOpen, At, Paired, CallRecords
<1>4. \A l \in Legs : call.from[l] = "output" => output[l] \in {Blank, Fresh(l)}
  BY <1>3 DEF CallInv, SourcesFresh
<1>5. CASE AlreadySigned
  <2>1. call' = [NextLeg EXCEPT !.from = call.from]
    BY <1>1, <1>2, <1>5 DEF AlreadySigned, CallRecords
  <2>. QED
    BY <1>3, <1>4, <1>5, <2>1, NextLegInv DEF AlreadySigned, files
<1>6. CASE Sign
  <2>1. CASE output[call.leg] # Blank
    BY <1>3, <1>6, <2>1, ReturnInv DEF Sign, ExistingRefused
  <2>2. CASE output[call.leg] = Blank
    <3>1. PICK run \in Run :
            /\ output' = [output EXCEPT ![call.leg] =
                              Done(run, @, [state |-> "signed", build |-> input[call.leg].build])]
            /\ IF run.ended = "ok" THEN call' = [NextLeg EXCEPT !.from[call.leg] = "output"]
                                   ELSE Return(Told(run))
      BY <1>6, <2>2 DEF Sign
    <3>2. CASE run.ended # "ok"
      BY <1>3, <3>1, <3>2, RunDef, ReturnInv
    <3>3. CASE run.ended = "ok"
      <4>. DEFINE from == [call.from EXCEPT ![call.leg] = "output"]
      <4>1. call' = [NextLeg EXCEPT !.from = from]
        BY <1>1, <1>2, <3>1, <3>3 DEF CallRecords
      <4>2. call.since[call.leg] = input[call.leg].build
        BY <1>1, <1>3 DEF CallInv, SourcesFresh
      <4>3. output'[call.leg] = Fresh(call.leg)
        BY <1>1, <3>1, <3>3, <4>2, RunDef DEF ProgrammerTypeOK, Done, Fresh
      <4>4. from[call.leg] = "output" /\ \A l \in Legs : l # call.leg => from[l] = call.from[l] /\ output'[l] = output[l]
        BY <1>1, <1>2, <3>1 DEF ProgrammerTypeOK
      <4>. HIDE DEF from
      <4>5. \A l \in Legs : from[l] = "output" => output'[l] \in {Blank, Fresh(l)}
        BY <1>4, <4>3, <4>4
      <4>6. from \in {call.from, [call.from EXCEPT ![call.leg] = "output"]}
        BY DEF from
      <4>. QED
        BY <1>3, <1>6, <4>1, <4>4, <4>5, <4>6, NextLegInv DEF Sign
    <3>. QED
      BY <3>2, <3>3
  <2>. QED
    BY <2>1, <2>2
<1>. QED
  BY <1>5, <1>6

\* What an accepted run leaves in the call.
LEMMA FlashedDef ==
    ASSUME call \in CallRecords, NEW run \in Run, call' = Flashed(run)
    PROVE  /\ call'.verb = call.verb /\ call'.sign = call.sign /\ call'.from = call.from
           /\ call'.since = call.since /\ call'.wrote = call.wrote
           /\ call'.touched = IF run.did = "none" THEN call.touched ELSE call.touched \cup {call.leg}
           /\ IF run.ended = "ok" /\ Paired /\ call.leg = "boot"
                THEN call'.leg = "app" /\ call'.at = call.at
              ELSE /\ call'.at = "idle"
                   /\ call'.told = IF run.ended = "failed" /\ Caught THEN "partial" ELSE Told(run)
<1>. DEFINE c == [call EXCEPT !.touched = IF run.did = "none" THEN @ ELSE @ \cup {call.leg}]
<1>1. /\ c \in CallRecords /\ c.touched = IF run.did = "none" THEN call.touched ELSE call.touched \cup {call.leg}
      /\ c.verb = call.verb /\ c.sign = call.sign /\ c.from = call.from /\ c.since = call.since
      /\ c.wrote = call.wrote /\ c.at = call.at
  BY DEF CallRecords
<1>2. call' = IF run.ended = "ok" /\ Paired /\ call.leg = "boot" THEN [c EXCEPT !.leg = "app"]
              ELSE [c EXCEPT !.at = "idle",
                             !.told = IF run.ended = "failed" /\ Caught THEN "partial" ELSE Told(run)]
  BY DEF Flashed
<1>. HIDE DEF c
<1>. QED
  BY <1>1, <1>2 DEF CallRecords

LEMMA FlashInv == ASSUME ProgrammerTypeOK, CallInv, Flash PROVE CallInv'
<1>. USE DEF files
<1>1. call \in CallRecords /\ call.leg \in Legs
  BY DEF ProgrammerTypeOK, CallRecords
<1>2. /\ At("flash") /\ ~At("idle") /\ call.wrote = FALSE
      /\ Paired => call.touched = IF call.leg = "boot" THEN {} ELSE {"boot"}
      /\ Paired /\ call.leg = "app" => flash["boot"] \notin {Blank, Torn}
      /\ call.sign => Paired /\ Ready("boot") /\ Ready("app")
      /\ call.sign /\ call.leg = "app" => flash["boot"] = Fresh("boot")
  BY <1>1 DEF Flash, CallInv, Places, ReadsBackOpen, PairGoesOn, SigningGoesOn, At, Paired, CallRecords, Legs
<1>3. CASE call.leg \in call.bad
  BY <1>2, <1>3, ReturnInv DEF Flash
<1>4. CASE call.leg \notin call.bad
  <2>1. PICK run \in Runs : /\ File(call.leg) = Blank => run.did = "none"
                            /\ call' = Flashed(run)
                            /\ flash' = [flash EXCEPT ![call.leg] = Done(run, @, File(call.leg))]
    BY <1>4 DEF Flash
  <2>2. run \in Run
    BY RunsDef
  <2>3. \A l \in Legs : call.from[l] \in {"input", "output"} /\ input[l] \in Whole
                        /\ call.since[l] = input[l].build
                        /\ (call.from[l] = "output" => output[l] \in {Blank, Fresh(l)})
    BY <1>1, <1>2 DEF CallInv, SourcesFresh, ProgrammerTypeOK, CallRecords
  \* What success leaves on the device.
  <2>4. run.ended = "ok" =>
          /\ flash'[call.leg] \notin {Blank, Torn} /\ call.leg \in call'.touched
          /\ call.sign => flash'[call.leg] = Fresh(call.leg)
    <3>. SUFFICES ASSUME run.ended = "ok" PROVE flash'[call.leg] = File(call.leg) /\ run.did = "all"
                  /\ File(call.leg) \notin {Blank, Torn} /\ (call.sign => File(call.leg) = Fresh(call.leg))
      BY <1>1, <2>1, <2>2, FlashedDef
    <3>1. run.did = "all" /\ File(call.leg) # Blank
      BY <2>1, <2>2, RunDef
    <3>2. flash'[call.leg] = File(call.leg)
      BY <1>1, <2>1, <3>1 DEF Done, ProgrammerTypeOK
    <3>3. CASE call.from[call.leg] = "output"
      BY <1>1, <2>3, <3>1, <3>2, <3>3 DEF File, Fresh, Torn
    <3>4. CASE call.from[call.leg] = "input"
      <4>1. File(call.leg) = input[call.leg] /\ input[call.leg] \in Whole
        BY <1>1, <2>3, <3>4 DEF File
      <4>2. call.sign => input[call.leg].state = "signed"
        BY <1>1, <1>2, <3>4 DEF Ready, Legs
      <4>3. call.sign => input[call.leg] = Fresh(call.leg)
        BY <1>1, <2>3, <4>1, <4>2 DEF Fresh, Whole
      <4>4. input[call.leg] \notin {Blank, Torn}
        BY <4>1 DEF Whole, Blank, Torn
      <4>. QED
        BY <3>1, <3>2, <4>1, <4>3, <4>4
    <3>. QED
      BY <1>1, <2>3, <3>3, <3>4
  <2>5. \A l \in Legs : l # call.leg => flash'[l] = flash[l]
    BY <1>1, <2>1 DEF ProgrammerTypeOK
  <2>6. call'.verb = call.verb /\ call'.sign = call.sign /\ call'.from = call.from
        /\ call'.since = call.since /\ call'.wrote = FALSE /\ (Paired' <=> Paired)
        /\ call'.touched = IF run.did = "none" THEN call.touched ELSE call.touched \cup {call.leg}
    BY <1>1, <1>2, <2>1, <2>2, FlashedDef DEF Paired
  <2>7. CASE run.ended = "ok" /\ Paired /\ call.leg = "boot"
    <3>1. call'.leg = "app" /\ call'.at = "flash"
      BY <1>1, <1>2, <2>1, <2>2, <2>7, FlashedDef DEF At
    <3>2. (Places /\ Consented /\ ReadsBackOpen /\ WrittenLockTold)'
      BY <1>2, <2>6, <3>1 DEF CallInv, Places, Consented, ReadsBackOpen, WrittenLockTold, At
    <3>3. (PairGoesOn /\ PairTold)'
      BY <1>2, <2>4, <2>6, <2>7, <3>1 DEF PairGoesOn, PairTold, At
    <3>4. SourcesFresh'
      BY <1>2, <2>6 DEF CallInv, SourcesFresh, Fresh, Flash
    <3>5. (SigningGoesOn /\ SignedIsSound)'
      BY <1>2, <2>4, <2>6, <2>7, <3>1 DEF SigningGoesOn, SignedIsSound, Ready, Fresh, At, Flash
    <3>. QED
      BY <3>2, <3>3, <3>4, <3>5 DEF CallInv
  <2>8. CASE ~(run.ended = "ok" /\ Paired /\ call.leg = "boot")
    <3>1. /\ call'.at = "idle"
          /\ call'.told = IF run.ended = "failed" /\ Caught THEN "partial" ELSE Told(run)
      BY <1>1, <2>1, <2>2, <2>8, FlashedDef
    <3>2. (Places /\ Consented /\ ReadsBackOpen /\ WrittenLockTold)'
      BY <1>2, <2>6, <3>1 DEF CallInv, Places, Consented, ReadsBackOpen, WrittenLockTold, At
    <3>3. (PairGoesOn /\ SourcesFresh /\ SigningGoesOn)'
      BY <3>1 DEF PairGoesOn, SourcesFresh, SigningGoesOn, At
    <3>4. PairTold' /\ SignedIsSound'
      <4>. SUFFICES ASSUME Paired PROVE PairTold' /\ SignedIsSound'
        BY <1>2, <2>6 DEF PairTold, SignedIsSound
      <4>1. CASE run.ended = "ok"
        <5>1. call.leg = "app" /\ call'.told = "ok"
          BY <1>1, <2>2, <2>8, <3>1, <4>1, RunDef DEF Legs
        <5>2. \A l \in Legs : l \in call'.touched /\ flash'[l] \notin {Blank, Torn}
          BY <1>2, <2>4, <2>5, <2>6, <4>1, <5>1 DEF Legs
        <5>3. call.sign => \A l \in Legs : flash'[l] = Fresh(l)
          BY <1>2, <2>4, <2>5, <4>1, <5>1 DEF Legs
        <5>. QED
          BY <2>6, <5>1, <5>2, <5>3 DEF PairTold, SignedIsSound, Fresh
      <4>2. CASE run.ended # "ok" /\ call.leg = "app"
        <5>1. call'.told \in {"partial", "interrupted"}
          BY <2>2, <3>1, <4>2, RunDef DEF Caught, Told
        <5>. QED
          BY <1>2, <2>5, <2>6, <4>2, <5>1 DEF PairTold, SignedIsSound, Legs
      <4>3. CASE run.ended # "ok" /\ call.leg = "boot"
        <5>1. call'.told \in {"raised", "interrupted"}
          BY <2>2, <3>1, <4>3, RunDef DEF Caught, Told
        <5>. QED
          BY <1>2, <2>6, <4>3, <5>1 DEF PairTold, SignedIsSound
      <4>. QED
        BY <1>1, <4>1, <4>2, <4>3 DEF Legs
    <3>. QED
      BY <3>2, <3>3, <3>4 DEF CallInv
  <2>. QED
    BY <2>7, <2>8
<1>. QED
  BY <1>3, <1>4

-----------------------------------------------------------------------------
(* What happens around the calls.                                          *)

LEMMA AroundInv ==
    ASSUME ProgrammerTypeOK, CallInv,
           \/ SwoNext \/ SwoYield \/ SwoEof \/ SwoWaited \/ SwoClose \/ SwoTerminate \/ SwoExits
           \/ SessionOpens \/ SessionCloses \/ Rebuild \/ DeleteOutput
    PROVE  CallInv'
<1>. USE DEF device, files
<1>1. UNCHANGED <<call, device>>
  BY DEF SwoNext, SwoYield, SwoEof, SwoWaited, SwoClose, SwoTerminate, SwoExits, SessionOpens, SessionCloses,
         Rebuild, DeleteOutput
<1>2. (Places /\ Consented /\ ReadsBackOpen /\ WrittenLockTold /\ PairGoesOn /\ PairTold /\ SignedIsSound)'
  BY <1>1 DEF CallInv, Places, Consented, ReadsBackOpen, WrittenLockTold, PairGoesOn, PairTold, SignedIsSound,
        At, Approved, Paired
<1>3. ~At("idle") => input' = input
  BY DEF SwoNext, SwoYield, SwoEof, SwoWaited, SwoClose, SwoTerminate, SwoExits, SessionOpens, SessionCloses,
         Rebuild, DeleteOutput
<1>4. \A l \in Legs : output'[l] \in {Blank, output[l]}
  BY DEF SwoNext, SwoYield, SwoEof, SwoWaited, SwoClose, SwoTerminate, SwoExits, SessionOpens, SessionCloses,
         Rebuild, DeleteOutput, ProgrammerTypeOK
<1>5. SourcesFresh'
  BY <1>1, <1>3, <1>4 DEF CallInv, SourcesFresh, Fresh, At
<1>6. SigningGoesOn'
  BY <1>1, <1>3 DEF CallInv, SigningGoesOn, Fresh, Ready, At
<1>. QED
  BY <1>2, <1>5, <1>6 DEF CallInv

LEMMA SwoEndsStep ==
    ASSUME ProgrammerTypeOK, DrainedIsOver, SwoEnds, [ProgrammerNext]_vars
    PROVE  DrainedIsOver' /\ SwoEnds'
<1>. USE DEF DrainedIsOver, SwoEnds, ProgrammerTypeOK
<1>1. CASE UNCHANGED swo
  BY <1>1
<1>2. CASE SwoNext \/ SwoYield \/ SwoEof \/ SwoExits
  BY <1>2 DEF SwoNext, SwoYield, SwoEof, SwoExits
<1>3. CASE SwoWaited \/ SwoClose
  BY <1>3 DEF SwoWaited, SwoClose, Finally, ExitTold
<1>4. CASE SwoTerminate
  BY <1>4 DEF SwoTerminate, Abandoned, Killed
<1>. QED
  BY <1>1, <1>2, <1>3, <1>4
     DEF ProgrammerNext, vars, Start, Route, Read, Irreversible, Gate, Erase, WriteOptions, FindLoader,
         FindArguments, Flash, AlreadySigned, RefuseToSign, Sign, ClimbOn, GiveUp, SessionOpens,
         SessionCloses, Rebuild, DeleteOutput

-----------------------------------------------------------------------------
LEMMA StepInv == Inv /\ [ProgrammerNext]_vars => Inv'
<1>. SUFFICES ASSUME ProgrammerTypeOK, CallInv, DrainedIsOver, SwoEnds, [ProgrammerNext]_vars
              PROVE  ProgrammerTypeOK' /\ CallInv'
  BY SwoEndsStep DEF Inv, CallInv
<1>1. CASE Start
  BY <1>1, CallTypes, StartInv
<1>2. CASE Route \/ Read \/ Irreversible \/ Gate \/ FindLoader \/ FindArguments
           \/ RefuseToSign \/ ClimbOn \/ GiveUp
  BY <1>2, CallTypes, PlainInv
<1>3. CASE Erase
  BY <1>3, DeviceTypes, PlainInv
<1>4. CASE WriteOptions
  BY <1>4, DeviceTypes, WriteOptionsInv
<1>5. CASE Flash
  BY <1>5, DeviceTypes, FlashInv
<1>6. CASE AlreadySigned
  BY <1>6, CallTypes, SignInv
<1>7. CASE Sign
  BY <1>7, DeviceTypes, SignInv
<1>8. CASE \/ SwoNext \/ SwoYield \/ SwoEof \/ SwoWaited \/ SwoClose \/ SwoTerminate \/ SwoExits
           \/ SessionOpens \/ SessionCloses \/ Rebuild \/ DeleteOutput
  BY <1>8, OtherTypes, AroundInv
<1>9. CASE UNCHANGED vars
  BY <1>9 DEF vars, ProgrammerTypeOK, CallInv, Places, Consented, ReadsBackOpen, WrittenLockTold, PairGoesOn,
        PairTold, SourcesFresh, SigningGoesOn, SignedIsSound, At, Approved, Paired, Fresh, Ready
<1>. QED
  BY <1>1, <1>2, <1>3, <1>4, <1>5, <1>6, <1>7, <1>8, <1>9 DEF ProgrammerNext

LEMMA Inductive == ProgrammerSpec => []Inv
  BY InitInv, StepInv, PTL DEF ProgrammerSpec

\* Every state is well typed, and the diagnose ladder is never climbed past its
\* last rung (run_diagnose).
THEOREM TypesHold == ProgrammerSpec => []ProgrammerTypeOK
<1>. Inv => ProgrammerTypeOK
  BY DEF Inv
<1>. QED
  BY Inductive, PTL

\* HARD RULE 1 in chip_erase and write_option_bytes: the device is changed by an
\* erase or an option byte only with consent given in that very call, and locked
\* for good only with confirm_irreversible, whatever calls were made before.
THEOREM ConsentIsFirst == ProgrammerSpec => ConsentFirst
<1>1. Inv /\ [ProgrammerNext]_vars => ConsentGiven
  <2>. SUFFICES ASSUME ProgrammerTypeOK, CallInv, [ProgrammerNext]_vars PROVE ConsentGiven
    BY DEF Inv, CallInv
  <2>. USE DEF ConsentGiven
  <2>1. CASE Erase
    BY <2>1 DEF Erase, CallInv, Consented, At, Approved, device
  <2>2. CASE WriteOptions
    <3>1. At("run") /\ Approved /\ (call.level = "rdp2" => call.irreversible)
      BY <2>2 DEF WriteOptions, CallInv, Consented, At
    <3>. QED
      BY <2>2, <3>1 DEF WriteOptions, Approved
  <2>3. CASE Flash
    BY <2>3 DEF Flash, CallInv, Places, At
  <2>4. CASE UNCHANGED device
    BY <2>4 DEF device
  <2>. QED
    BY <2>1, <2>2, <2>3, <2>4
       DEF ProgrammerNext, vars, Start, Route, Read, Irreversible, Gate, FindLoader, FindArguments,
           AlreadySigned, RefuseToSign, Sign, ClimbOn, GiveUp, SwoNext, SwoYield, SwoEof, SwoWaited,
           SwoClose, SwoTerminate, SwoExits, SessionOpens, SessionCloses, Rebuild, DeleteOutput, device
<1>. QED
  BY <1>1, Inductive, PTL DEF ProgrammerSpec, ConsentFirst

\* What flash_boot_and_app and its signed sibling report of a pair is what the
\* device holds, whichever run failed, was killed or was interrupted half-way.
THEOREM PairIsTold == ProgrammerSpec => []PairTold
<1>. Inv => PairTold
  BY DEF Inv
<1>. QED
  BY Inductive, PTL

\* A pair flashed with sign_unsigned holds signatures of the inputs the call was
\* made with, whatever earlier calls left beside them (_sign_if_unsigned).
THEOREM SignaturesAreSound == ProgrammerSpec => []SignedIsSound
<1>. Inv => SignedIsSound
  BY DEF Inv
<1>. QED
  BY Inductive, PTL

\* IMP-05: write_option_bytes tells a lock as done exactly if the run that wrote it
\* succeeded, and then the device is locked.  (A run that fails after the lock took is
\* told as a failure: of it nothing is claimed.)
THEOREM WrittenLockIsTold == ProgrammerSpec => []WrittenLockTold
<1>. Inv => WrittenLockTold
  BY DEF Inv
<1>. QED
  BY Inductive, PTL

\* However tail_swo ends, unless a Ctrl-C cuts its clean-up off before SIGKILL, no
\* child of it holds the probe; and a capture whose child broke down within two seconds
\* of the end of its output is not presented as one that ended.
THEOREM TailEnds == ProgrammerSpec => []SwoEnds
<1>. Inv => SwoEnds
  BY DEF Inv
<1>. QED
  BY Inductive, PTL

=============================================================================
