------------------------------ MODULE Programmer -----------------------------
(***************************************************************************)
(* CubeProgrammer (cubeprogrammer/client.py) and the signing tool: every   *)
(* method is a sequence of runs of a vendor tool that may fail, be killed  *)
(* at its deadline or be interrupted when it has done nothing, a part or   *)
(* all of its work.  The board, the probe, the tools, the files' owner and *)
(* a debug session in the slot are external.                               *)
(*                                                                         *)
(* One thread makes the calls, one at a time; a tail_swo generator may be  *)
(* suspended meanwhile, its child holding the probe.                       *)
(***************************************************************************)
EXTENDS Naturals

CONSTANTS
    MaxCalls,      \* bound: calls
    MaxBuilds,     \* bound: builds of each firmware
    Rungs          \* of the diagnose ladder: modes times frequencies
ASSUME ProgrammerAssumption == MaxCalls \in Nat /\ MaxBuilds \in Nat \ {0} /\ Rungs \in Nat \ {0}

Legs == {"boot", "app"}

\* What a file or a flash region holds: a build of its leg's firmware, as it
\* was compiled or signed; nothing whole; nothing.
Blank == [state |-> "blank", build |-> 0]
Torn  == [state |-> "torn", build |-> 0]
Whole == [state : {"plain", "signed"}, build : 1..MaxBuilds]
Image == {Blank, Torn} \cup Whole

VARIABLES
    call,          \* the call in progress, or the last one, with what it was told
    flash,         \* per leg: what the device holds
    rdp,           \* its read-out protection: "rdp2" locks the debug port for good
    input, output, \* per leg: the firmware file, and the "-trusted" file beside it
    session,       \* active_debug_session: "none", "active" (and holding the probe)
    swo,           \* [gen, child, end] of a tail_swo
    calls          \* how many so far

vars == <<call, flash, rdp, input, output, session, swo, calls>>
device == <<flash, rdp>>
files  == <<input, output>>

\* at: place in the method; consent: confirm_destructive or on_confirm; level:
\* what write_option_bytes asks for; bad: legs whose arguments (an
\* address, a bank, a file's type) are refused.
NoCall ==
    [verb |-> "none", at |-> "idle", leg |-> "boot", bad |-> {}, consent |-> "absent",
     level |-> "other", irreversible |-> FALSE, sign |-> FALSE, tries |-> 0,
     from |-> [l \in Legs |-> "input"], since |-> [l \in Legs |-> 1],
     touched |-> {}, wrote |-> FALSE, told |-> "none"]

ProgrammerInit ==
    /\ call = NoCall /\ calls = 0
    /\ flash = [l \in Legs |-> Blank] /\ rdp = "rdp0"
    /\ input = [l \in Legs |-> [state |-> "plain", build |-> 1]]
    /\ output = [l \in Legs |-> Blank]
    /\ session = "none" /\ swo = [gen |-> "none", child |-> "none", end |-> "none"]

At(place) == call.at = place
Go(place) == call' = [call EXCEPT !.at = place]
Return(outcome) == call' = [call EXCEPT !.at = "idle", !.told = outcome]

-----------------------------------------------------------------------------
(* Runs of STM32_Programmer_CLI: how they end, and how much they did.      *)

ProbeFree == session = "none" /\ swo.child # "alive"

Run == [ended : {"failed", "interrupted"}, did : {"none", "part", "all"}]
           \cup {[ended |-> "ok", did |-> "all"]}
Runs == IF ProbeFree /\ rdp # "rdp2" THEN Run ELSE [ended : {"failed", "interrupted"}, did : {"none"}]

Done(run, before, after) ==
    CASE run.did = "all" -> after [] run.did = "part" -> Torn [] run.did = "none" -> before

Told(run) == CASE run.ended = "ok" -> "ok" [] run.ended = "failed" -> "raised"
               [] run.ended = "interrupted" -> "interrupted"

-----------------------------------------------------------------------------
(* Calls.                                                                  *)

Consents == {"absent", "false", "true", "asks_yes", "asks_no"}
Call(verb, place) == [NoCall EXCEPT !.verb = verb, !.at = place]

PlainRequests == {Call("control", "route"), Call("read", "read"), Call("diagnose", "ladder"),
                  Call("external", "loader"), Call("dump", "arguments")}
EraseRequests == {[Call("erase", "gate") EXCEPT !.consent = x] : x \in Consents}
OptionRequests ==
    {[Call("options", "level") EXCEPT !.consent = x.consent, !.level = x.level, !.irreversible = x.twice] :
         x \in [consent : Consents, level : {"other", "rdp2"}, twice : BOOLEAN]}
FlashRequests ==
    {[Call("flash", "flash") EXCEPT !.leg = x.leg, !.bad = x.bad] : x \in [leg : Legs, bad : {{}, Legs}]}
InferredRequests ==
    {[Call("inferred", "gate") EXCEPT !.consent = x.consent, !.bad = x.bad] :
         x \in [consent : {"absent", "asks_yes", "asks_no"}, bad : {{}, Legs}]}
PairRequests ==
    {[Call("pair", "flash") EXCEPT !.bad = b] : b \in SUBSET Legs}
    \cup {[Call("signed_pair", "flash") EXCEPT !.bad = b] : b \in SUBSET Legs}
    \cup {[Call("signed_pair", "sign") EXCEPT !.sign = TRUE, !.bad = b] : b \in SUBSET Legs}
Requests == PlainRequests \cup EraseRequests \cup OptionRequests \cup FlashRequests
                \cup InferredRequests \cup PairRequests

Start ==
    /\ At("idle") /\ calls < MaxCalls /\ swo.gen \notin {"reading", "waiting", "closing", "killing"}
    /\ calls' = calls + 1
    /\ \E c \in Requests : call' = [c EXCEPT !.since = [l \in Legs |-> input[l].build]]
    /\ UNCHANGED <<device, files, session, swo>>

\* reset, halt and resume: through the session, which may refuse, or by a run.
Route ==
    /\ At("route")
    /\ IF session = "active" THEN \E outcome \in {"ok", "raised", "interrupted"} : Return(outcome)
                             ELSE \E run \in Runs : Return(Told(run))
    /\ UNCHANGED <<device, files, session, swo, calls>>

\* connect and its views, ping, reads, option bytes: nothing changes.  (Listing
\* the probes works while they are in use.)
Read ==
    /\ At("read")
    /\ \E run \in IF call.verb = "read" THEN Run ELSE Runs : Return(Told(run))
    /\ UNCHANGED <<device, files, session, swo, calls>>

\* RDP level 2 without confirm_irreversible: ProtocolError.
Irreversible ==
    /\ At("level")
    /\ IF call.level = "rdp2" /\ ~call.irreversible THEN Return("refused") ELSE Go("gate")
    /\ UNCHANGED <<device, files, session, swo, calls>>

ApprovedIfTruthy == call.consent \notin {"absent", "false"}   \* mutant: bool(callable)
Approved == call.consent \in {"true", "asks_yes"}

\* flash_bin_no_address asks only if it was given something to ask.
Gate ==
    /\ At("gate")
    /\ IF Approved \/ (call.verb = "inferred" /\ call.consent = "absent")
         THEN Go(IF call.verb = "inferred" THEN "flash" ELSE "run")
         ELSE Return("declined")
    /\ UNCHANGED <<device, files, session, swo, calls>>

Erase ==
    /\ At("run") /\ call.verb = "erase"
    /\ \E run \in Runs :
          /\ flash' = [l \in Legs |-> Done(run, flash[l], Blank)]
          /\ Return(Told(run))
    /\ UNCHANGED <<rdp, files, session, swo, calls>>

ReadsBackAlways == TRUE                         \* mutant: before IMP-05
ReadsBack == call.level # "rdp2"

WriteOptions ==
    /\ At("run") /\ call.verb = "options"
    /\ \E run \in Runs :
          /\ rdp' = IF run.did = "all" /\ call.level = "rdp2" THEN "rdp2" ELSE rdp
          /\ IF run.ended # "ok" THEN Return(Told(run))
             ELSE IF ReadsBack THEN call' = [call EXCEPT !.at = "read", !.wrote = TRUE]
             ELSE call' = [call EXCEPT !.at = "idle", !.wrote = TRUE, !.told = "ok"]
    /\ UNCHANGED <<flash, files, session, swo, calls>>

\* Arguments that were left out, or a loader to be found, take a connect first.
Prepare(next) ==
    \/ Go(next)
    \/ Return("refused")
    \/ \E run \in Runs : IF run.ended = "ok" THEN Go(next) ELSE Return(Told(run))

FindLoader ==
    /\ At("loader") /\ Prepare("flash")
    /\ UNCHANGED <<device, files, session, swo, calls>>

\* read_flash_to_file, read_memory.
FindArguments ==
    /\ At("arguments") /\ Prepare("read")
    /\ UNCHANGED <<device, files, session, swo, calls>>

-----------------------------------------------------------------------------
(* Flashing, alone and in pairs.                                           *)

Paired == call.verb \in {"pair", "signed_pair"}
File(l) == IF call.from[l] = "output" THEN output[l] ELSE input[l]

\* The first leg's failure is raised, the second's captured.
CaughtAnyLeg == Paired                          \* mutant: the try includes both legs
Caught == Paired /\ call.leg = "app"

Flashed(run) ==
    LET c == [call EXCEPT !.touched = IF run.did = "none" THEN @ ELSE @ \cup {call.leg}]
    IN  IF run.ended = "ok" /\ Paired /\ call.leg = "boot"
          THEN [c EXCEPT !.leg = "app"]
        ELSE [c EXCEPT !.at = "idle",
                       !.told = IF run.ended = "failed" /\ Caught THEN "partial" ELSE Told(run)]

\* A refused argument is a ValueError, on either leg.
Flash ==
    /\ At("flash")
    /\ IF call.leg \in call.bad THEN Return("refused") /\ UNCHANGED flash
       ELSE \E run \in Runs :
              /\ File(call.leg) = Blank => run.did = "none"
              /\ call' = Flashed(run)
              /\ flash' = [flash EXCEPT ![call.leg] = Done(run, @, File(call.leg))]
    /\ UNCHANGED <<rdp, files, session, swo, calls>>

-----------------------------------------------------------------------------
(* _sign_if_unsigned and sign_binary.                                      *)

NextLeg == IF call.leg = "boot" THEN [call EXCEPT !.leg = "app"]
                                ELSE [call EXCEPT !.leg = "boot", !.at = "flash"]

HasHeader == input[call.leg].state = "signed"

AlreadySigned ==
    /\ At("sign") /\ HasHeader
    /\ call' = NextLeg
    /\ UNCHANGED <<device, files, session, swo, calls>>

\* No header version, address or entry point, or a malformed one.
RefuseToSign ==
    /\ At("sign") /\ ~HasHeader
    /\ Return("refused")
    /\ UNCHANGED <<device, files, session, swo, calls>>

ExistingReused == call' = [NextLeg EXCEPT !.from[call.leg] = "output"]   \* mutant
ExistingRefused == Return("refused")

Sign ==
    /\ At("sign") /\ ~HasHeader /\ call.leg \notin call.bad
    /\ IF output[call.leg] # Blank THEN ExistingRefused /\ UNCHANGED output
       ELSE \E run \in Run :
              /\ output' = [output EXCEPT ![call.leg] =
                                Done(run, @, [state |-> "signed", build |-> input[call.leg].build])]
              /\ IF run.ended = "ok" THEN call' = [NextLeg EXCEPT !.from[call.leg] = "output"]
                                     ELSE Return(Told(run))
    /\ UNCHANGED <<device, input, session, swo, calls>>

-----------------------------------------------------------------------------
(* run_diagnose: returns on success, on a fatal code, at its deadline, or  *)
(* when every rung was tried.                                              *)

NeverExhausted == FALSE                         \* mutant
Exhausted == call.tries = Rungs

ClimbOn ==
    /\ At("ladder") /\ ~Exhausted
    /\ \E run \in Runs : \/ run.ended # "failed" /\ Return(Told(run))
                         \/ run.ended = "failed" /\ call' = [call EXCEPT !.tries = @ + 1]
    /\ UNCHANGED <<device, files, session, swo, calls>>

GiveUp ==
    /\ At("ladder")
    /\ Return("unresponsive")
    /\ UNCHANGED <<device, files, session, swo, calls>>

-----------------------------------------------------------------------------
(* tail_swo: a generator around a child.  One that runs keeps the thread.   *)
(* A KeyboardInterrupt may come while it reads, waits or cleans up.        *)

SwoNext ==
    /\ At("idle")
    /\ \/ swo.gen = "suspended" /\ swo' = [swo EXCEPT !.gen = "reading"]
       \/ swo.gen = "none" /\ \E c \in IF ProbeFree /\ rdp # "rdp2" THEN {"alive"} ELSE {"failed"} :
                                 swo' = [swo EXCEPT !.gen = "reading", !.child = c]
    /\ UNCHANGED <<call, device, files, session, calls>>

SwoYield ==
    /\ swo.gen = "reading" /\ swo' = [swo EXCEPT !.gen = "suspended"]
    /\ UNCHANGED <<call, device, files, session, calls>>

\* End of the stream: the child's exit is waited for, two seconds at most.
SwoEof ==
    /\ swo.gen = "reading" /\ swo' = [swo EXCEPT !.gen = "waiting"]
    /\ UNCHANGED <<call, device, files, session, calls>>

\* The finally clause, whatever made the generator end.
Finally(end) ==
    swo' = [swo EXCEPT !.gen = IF swo.child = "alive" THEN "closing" ELSE "over", !.end = end]

\* A child that outlives the wait has no exit code: the stream ends like a drained one.
ExitTold == CASE swo.child = "failed" -> "raised" [] swo.child = "zero" -> "drained"
              [] OTHER -> "outlived"

SwoWaited ==
    /\ swo.gen = "waiting" /\ (Finally(ExitTold) \/ Finally("stopped"))
    /\ UNCHANGED <<call, device, files, session, calls>>

\* close(), a break, the garbage collector; or an interrupt while reading.
SwoClose ==
    /\ At("idle") /\ swo.gen \in {"suspended", "reading"} /\ Finally("stopped")
    /\ UNCHANGED <<call, device, files, session, calls>>

KillSkipped == swo.child                        \* mutant: SIGTERM only
Killed == IF swo.child = "alive" THEN "killed" ELSE swo.child

\* An interrupt that is handled after SIGTERM was sent and before SIGKILL is: nobody
\* catches it, and the child is left to the first signal, or to none.
Abandoned == swo' = [swo EXCEPT !.gen = "abandoned", !.end = "stopped"]

\* closing: SIGTERM and half a second for it; killing: that is over, SIGKILL and half
\* a second for that, which an interrupt may cut short.
SwoTerminate ==
    /\ \/ /\ swo.gen = "closing"
          /\ \/ swo' = [swo EXCEPT !.gen = "over", !.child = IF @ = "alive" THEN "killed" ELSE @]
             \/ swo' = [swo EXCEPT !.gen = "killing"]
             \/ Abandoned
       \/ /\ swo.gen = "killing"
          /\ \/ \E end \in {swo.end, "stopped"} :
                    swo' = [swo EXCEPT !.gen = "over", !.child = Killed, !.end = end]
             \/ Abandoned
    /\ UNCHANGED <<call, device, files, session, calls>>

-----------------------------------------------------------------------------
(* External: the SWO child, the debug session, the owner of the files.     *)

SwoExits ==
    /\ swo.child = "alive" /\ \E c \in {"zero", "failed"} : swo' = [swo EXCEPT !.child = c]
    /\ UNCHANGED <<call, device, files, session, calls>>

\* bound: after the last call only a tail goes on
More == calls < MaxCalls

SessionOpens ==
    /\ At("idle") /\ More /\ ProbeFree /\ rdp # "rdp2" /\ session' = "active"
    /\ UNCHANGED <<call, device, files, swo, calls>>

SessionCloses ==
    /\ At("idle") /\ More /\ session = "active" /\ session' = "none"
    /\ UNCHANGED <<call, device, files, swo, calls>>

\* Nobody rewrites an input while a call reads it.
Rebuild ==
    /\ At("idle") /\ More
    /\ \E l \in Legs, s \in {"plain", "signed"} :
          /\ input[l].build < MaxBuilds
          /\ input' = [input EXCEPT ![l] = [state |-> s, build |-> @.build + 1]]
    /\ UNCHANGED <<call, device, output, session, swo, calls>>

DeleteOutput ==
    /\ At("idle") => More
    /\ \E l \in Legs : output[l] # Blank /\ output' = [output EXCEPT ![l] = Blank]
    /\ UNCHANGED <<call, device, input, session, swo, calls>>

-----------------------------------------------------------------------------
ProgrammerNext ==
    \/ Start \/ Route \/ Read \/ Irreversible \/ Gate \/ Erase \/ WriteOptions
    \/ FindLoader \/ FindArguments \/ Flash \/ AlreadySigned \/ RefuseToSign \/ Sign \/ ClimbOn \/ GiveUp
    \/ SwoNext \/ SwoYield \/ SwoEof \/ SwoWaited \/ SwoClose \/ SwoTerminate
    \/ SwoExits \/ SessionOpens \/ SessionCloses \/ Rebuild \/ DeleteOutput

ProgrammerSpec == ProgrammerInit /\ [][ProgrammerNext]_vars

-----------------------------------------------------------------------------
(* Properties.                                                             *)

Outcomes == {"ok", "partial", "raised", "interrupted", "declined", "refused", "unresponsive"}
CallRecords ==
    [verb : {"none", "control", "read", "diagnose", "external", "dump", "erase", "options", "flash",
             "inferred", "pair", "signed_pair"},
     at : {"idle", "route", "read", "ladder", "loader", "arguments", "gate", "level", "run", "flash", "sign"},
     leg : Legs, bad : SUBSET Legs, consent : Consents, level : {"other", "rdp2"},
     irreversible : BOOLEAN, sign : BOOLEAN, tries : 0..Rungs,
     from : [Legs -> {"input", "output"}], since : [Legs -> 1..MaxBuilds],
     touched : SUBSET Legs, wrote : BOOLEAN, told : Outcomes \cup {"none"}]

\* Types, with the length of the diagnose ladder.
ProgrammerTypeOK ==
    /\ call \in CallRecords
    /\ flash \in [Legs -> Image] /\ rdp \in {"rdp0", "rdp2"}
    /\ input \in [Legs -> Whole] /\ output \in [Legs -> Image]
    /\ session \in {"none", "active"} /\ calls \in 0..MaxCalls
    /\ swo \in [gen : {"none", "reading", "suspended", "waiting", "closing", "killing", "over", "abandoned"},
                child : {"none", "alive", "zero", "failed", "killed"},
                end : {"none", "drained", "outlived", "raised", "stopped"}]

ConsentGiven ==
    /\ call.verb \in {"erase", "options"} /\ device' # device => call.consent \in {"true", "asks_yes"}
    /\ rdp' = "rdp2" => rdp = "rdp2" \/ call.irreversible

\* HARD RULE 1: no erase and no option byte without consent given in this very
\* call, and no permanent lock without the second consent.
ConsentFirst == [][ConsentGiven]_vars

\* What a pair reports is what the device holds: both legs whole, or the first
\* whole and the second unknown; after an exception of the tool or of an
\* argument the second leg is as it was.
PairTold ==
    At("idle") /\ Paired =>
        /\ call.told = "ok" => \A l \in Legs : l \in call.touched /\ flash[l] \notin {Blank, Torn}
        /\ call.told = "partial" => "boot" \in call.touched /\ flash["boot"] \notin {Blank, Torn}
        /\ call.told \in {"raised", "refused"} => "app" \notin call.touched

\* A pair flashed with sign_unsigned is signed, whole, and of the inputs it was
\* called with: no leftover of a signing that failed, no signature of an older
\* build, whatever earlier calls left beside the inputs.
SignedIsSound ==
    At("idle") /\ call.sign /\ call.told = "ok" =>
        \A l \in Legs : flash[l] = [state |-> "signed", build |-> call.since[l]]

\* IMP-05: a lock is told as done exactly if the run that wrote it succeeded, and
\* then the device is locked: no read-back over the port it closed makes a failure of
\* it.  It is not that every lock that took is told as done: a run may lock the device
\* and fail, or be stopped, after that, and its failure is what is told.
WrittenLockTold ==
    At("idle") /\ call.verb = "options" /\ call.level = "rdp2" =>
        (call.told = "ok" <=> call.wrote) /\ (call.told = "ok" => rdp = "rdp2")

\* A tail that is over leaves no child holding the probe; and a capture that broke
\* down is not presented as one that ended (IMP-04), unless its child was still alive
\* two seconds after the end of its output.  "over" excludes a tail whose clean-up a
\* Ctrl-C cut off before SIGKILL ("abandoned"): that one may leave its child alive.
SwoEnds == swo.gen = "over" =>
    swo.child # "alive" /\ (swo.child = "failed" => swo.end # "drained")
=============================================================================
