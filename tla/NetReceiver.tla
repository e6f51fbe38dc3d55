----------------------------- MODULE NetReceiver ----------------------------
(***************************************************************************)
(* The network core of the receiver: the ESB event handler that queues     *)
(* packets, the loop of main.c that follows runs and reassembles frames,   *)
(* and the exchange of rx_ipc.c with the application core, which is told   *)
(* when runs start and end and answers an END with a status.               *)
(*                                                                         *)
(* The transmitter's packets come in the order it sends them and may be    *)
(* lost; one whose acknowledgement was lost is delivered all the same, so  *)
(* that control packets come more than once.  The application core is      *)
(* modelled by what it answers (AppPlayback has the rest of it).           *)
(***************************************************************************)
EXTENDS Integers, Sequences, FiniteSets, SequencesExt

CONSTANTS
  QueueSize,    \* capacity of rx_queue
  MailboxSize,  \* capacity of the application core's message_q
  Fragments,    \* packets of one frame
  Frames,       \* frames of a run
  MaxTries,     \* control packets are sent this often
  MaxRuns       \* bound: runs of the transmitter

ASSUME ReceiverAssumption ==
  /\ {QueueSize, MailboxSize, Fragments, Frames, MaxTries} \subseteq Nat \ {0}
  /\ MaxRuns \in Nat

VARIABLES
  tx,           \* the transmitter: run, phase, packets passed, tries
  rx_queue,     \* packets received and not yet taken
  run, active, good, bad,
  seq,          \* frame being reassembled; NoSeq when there is none
  have,         \* packets of it
  pc,           \* "loop", "end" being sent, "wait" for a status or "copy" it
  status_sem, last_status,
  app_q,        \* the application core's message_q
  app_run,      \* the run it is in, or 0
  answering,    \* the run it is about to report, or 0
  copied,       \* first part of the status being copied
  report,       \* the last RX_RESULT
  reported,     \* history: runs reported so far
  taken,        \* history: packets of the run that the loop took
  forwarded,    \* history: frames of the run sent to the application core
  late          \* history: runs whose status was still owed when it was reset

netVars  == <<run, active, good, bad, seq, have, taken, forwarded>>
appVars  == <<app_q, app_run, answering>>
waitVars == <<pc, status_sem, last_status, copied, report, reported, late>>
vars == <<tx, rx_queue, netVars, appVars, waitVars>>

NoSeq == -1
Packet == [type : {"START", "DATA", "END"}, run : Nat, seq : Nat, offset : Nat]
NoReport == [run |-> 0, good |-> 0, status |-> <<0, 0>>, late |-> {}]

Init ==
  /\ tx = [run |-> 0, phase |-> "idle", passed |-> 0, tries |-> 0]
  /\ rx_queue = <<>> /\ run = 0 /\ active = FALSE /\ good = 0 /\ bad = 0
  /\ seq = NoSeq /\ have = 0
  /\ pc = "loop" /\ status_sem = FALSE /\ last_status = 0
  /\ app_q = <<>> /\ app_run = 0 /\ answering = 0
  /\ copied = 0 /\ report = NoReport /\ reported = <<>>
  /\ taken = {} /\ forwarded = <<>> /\ late = {}

-----------------------------------------------------------------------------
(* The transmitter and the radio. *)

QueueHasRoom == Len(rx_queue) < QueueSize

(* event: a packet that finds no room in rx_queue is dropped. *)
Receive(p) == rx_queue' = IF QueueHasRoom THEN Append(rx_queue, p) ELSE rx_queue

TxBegin ==
  /\ tx.phase = "idle" /\ tx.run < MaxRuns
  /\ tx' = [run |-> tx.run + 1, phase |-> "START", passed |-> 0, tries |-> 0]
  /\ UNCHANGED <<rx_queue, netVars, appVars, waitVars>>

After(phase) == IF phase = "START" THEN "DATA" ELSE "idle"

(* control: once more unless acknowledged.  An acknowledged packet was     *)
(* received; another one may have been.                                    *)
TxControl(arrives, acked) ==
  /\ tx.phase \in {"START", "END"} /\ (acked => arrives)
  /\ IF arrives
       THEN Receive([type |-> tx.phase, run |-> tx.run, seq |-> 0, offset |-> 0])
       ELSE UNCHANGED rx_queue
  /\ tx' = IF acked \/ tx.tries + 1 = MaxTries
             THEN [tx EXCEPT !.phase = After(tx.phase), !.tries = 0]
             ELSE [tx EXCEPT !.tries = @ + 1]
  /\ UNCHANGED <<netVars, appVars, waitVars>>

(* Some later packet of the run arrives; those before it were lost, or     *)
(* send_frame gave their frame up.                                         *)
TxData(n) ==
  /\ tx.phase = "DATA" /\ n \in tx.passed .. Frames * Fragments - 1
  /\ Receive([type |-> "DATA", run |-> tx.run, seq |-> n \div Fragments,
              offset |-> n % Fragments])
  /\ tx' = [tx EXCEPT !.passed = n + 1]
  /\ UNCHANGED <<netVars, appVars, waitVars>>

(* The run ends, complete or not; without an END when the drain failed.    *)
TxEnds ==
  /\ tx.phase = "DATA" /\ \E next \in {"END", "idle"} : tx' = [tx EXCEPT !.phase = next]
  /\ UNCHANGED <<rx_queue, netVars, appVars, waitVars>>

-----------------------------------------------------------------------------
(* The application core. *)

(* send_message fails when the link has no buffer for 5 ms, and the        *)
(* mailbox drops what it has no room for.                                  *)
SendApp(m) ==
  \/ UNCHANGED app_q
  \/ Len(app_q) < MailboxSize /\ app_q' = Append(app_q, m)

AppTakes ==
  /\ answering = 0 /\ app_q # <<>>
  /\ app_q' = Tail(app_q)
  /\ IF Head(app_q).type = "START"
       THEN app_run' = Head(app_q).run /\ UNCHANGED answering
       ELSE /\ answering' = IF Head(app_q).run = app_run THEN app_run ELSE 0
            /\ UNCHANGED app_run
  /\ UNCHANGED <<tx, rx_queue, netVars, waitVars>>

(* The status arrives, and endpoint_received_cb keeps it. *)
StatusArrives ==
  /\ answering # 0
  /\ last_status' = answering /\ status_sem' = TRUE
  /\ answering' = 0 /\ app_run' = 0
  /\ UNCHANGED <<tx, rx_queue, netVars, app_q, pc, copied, report, reported, late>>

(* ipc_send_status fails, and nothing is done about it. *)
StatusLost ==
  /\ answering # 0 /\ answering' = 0 /\ app_run' = 0
  /\ UNCHANGED <<tx, rx_queue, netVars, app_q, waitVars>>

-----------------------------------------------------------------------------
(* The loop of the network core. *)

Takes(type) ==
  /\ pc = "loop" /\ rx_queue # <<>> /\ Head(rx_queue).type = type
  /\ rx_queue' = Tail(rx_queue)

\* Mutant: packets are taken whatever their run.
AnyRunMutant == active
OfThisRun == active /\ Head(rx_queue).run = run

\* Mutant: the frame of the run before is still being reassembled.
KeepFrameMutant == UNCHANGED <<seq, have>>
ForgetFrame == seq' = NoSeq /\ have' = 0

NewStart == ~OfThisRun

TakeStart ==
  /\ Takes("START") /\ NewStart
  /\ run' = Head(rx_queue).run /\ active' = TRUE
  /\ good' = 0 /\ bad' = 0 /\ ForgetFrame
  /\ SendApp([type |-> "START", run |-> Head(rx_queue).run])
  /\ taken' = {} /\ forwarded' = <<>>
  /\ UNCHANGED <<tx, app_run, answering, waitVars>>

HaveBefore(p) == IF p.seq = seq THEN have ELSE 0

(* A packet that does not continue the frame is bad; one that completes it *)
(* has it forwarded.                                                       *)
TakeData ==
  LET p == Head(rx_queue)
      continues == p.offset = HaveBefore(p)
      complete  == continues /\ p.offset + 1 = Fragments
  IN /\ Takes("DATA") /\ OfThisRun
     /\ seq' = p.seq
     /\ have' = HaveBefore(p) + (IF continues THEN 1 ELSE 0)
     /\ bad' = bad + (IF continues THEN 0 ELSE 1)
     /\ good' = good + (IF complete THEN 1 ELSE 0)
     /\ taken' = taken \cup {<<p.seq, p.offset>>}
     /\ forwarded' = IF complete THEN Append(forwarded, p.seq) ELSE forwarded
     /\ UNCHANGED <<tx, run, active, appVars, waitVars>>

Owed == {app_q[i].run : i \in {j \in DOMAIN app_q : app_q[j].type = "END"}}
          \cup ({answering} \ {0})

\* Mutants: a status that came too late is not discarded; END is repeated.
KeepStatusMutant == status_sem
AnyEndMutant == Head(rx_queue).run = run
DiscardedStatus == FALSE
EndsRun == OfThisRun

(* rx_ipc_send_end first discards a status that came too late.             *)
TakeEnd ==
  /\ Takes("END") /\ EndsRun
  /\ status_sem' = DiscardedStatus /\ late' = Owed /\ pc' = "end"
  /\ UNCHANGED <<tx, netVars, appVars, last_status, copied, report,
                 reported>>

SendEnd ==
  /\ pc = "end" /\ pc' = "wait"
  /\ SendApp([type |-> "END", run |-> run])
  /\ UNCHANGED <<tx, rx_queue, netVars, app_run, answering, status_sem, last_status,
                 copied, report, reported, late>>

(* A START repeated, or DATA or END of another run. *)
TakeOther ==
  /\ pc = "loop" /\ rx_queue # <<>> /\ rx_queue' = Tail(rx_queue)
  /\ Head(rx_queue).type = "START" => ~NewStart
  /\ Head(rx_queue).type = "DATA" => ~OfThisRun
  /\ Head(rx_queue).type = "END" => ~EndsRun
  /\ UNCHANGED <<tx, netVars, appVars, waitVars>>

(* rx_ipc_wait_status copies last_status without a lock: the callback may  *)
(* come in between.                                                        *)
WaitStatus ==
  /\ pc = "wait" /\ status_sem
  /\ status_sem' = FALSE /\ copied' = last_status /\ pc' = "copy"
  /\ UNCHANGED <<tx, rx_queue, netVars, appVars, last_status, report, reported,
                 late>>

Report(status) ==
  /\ report' = [run |-> run, good |-> good, status |-> status,
                late |-> late]
  /\ reported' = Append(reported, run)
  /\ active' = FALSE /\ pc' = "loop"
  /\ UNCHANGED <<tx, rx_queue, run, good, bad, seq, have, taken, forwarded,
                 appVars, last_status, late>>

CopyStatus ==
  /\ pc = "copy" /\ Report(<<copied, last_status>>)
  /\ UNCHANGED <<status_sem, copied>>

TimeIsUp == ~status_sem

(* No status for two seconds: the report has none. *)
WaitTimeout ==
  /\ pc = "wait" /\ TimeIsUp /\ Report(<<0, 0>>)
  /\ UNCHANGED <<status_sem, copied>>

-----------------------------------------------------------------------------
TxStep ==
  \/ TxBegin \/ TxEnds
  \/ \E arrives, acked \in BOOLEAN : TxControl(arrives, acked)
  \/ \E n \in 0 .. Frames * Fragments - 1 : TxData(n)

AppStep == AppTakes \/ StatusArrives \/ StatusLost

NetStep ==
  \/ TakeStart \/ TakeData \/ TakeEnd \/ SendEnd \/ TakeOther
  \/ WaitStatus \/ CopyStatus \/ WaitTimeout

Next == TxStep \/ AppStep \/ NetStep

Spec == Init /\ [][Next]_vars

-----------------------------------------------------------------------------
Whole(s) == \A k \in 0 .. Fragments - 1 : <<s, k>> \in taken

(* A frame all of whose packets reached the loop is forwarded, whatever was*)
(* lost around it, and no other frame is.                                  *)
WholeFramesForwarded == Range(forwarded) = {s \in 0 .. Frames - 1 : Whole(s)}

(* Frames are forwarded in order and once each: the missing frames of the  *)
(* report (expected - good) cannot wrap around.                            *)
ForwardedInOrder ==
  /\ \A i, j \in DOMAIN forwarded : i < j => forwarded[i] < forwarded[j]
  /\ good = Len(forwarded) /\ good <= Frames

(* A run is reported once, although its START and END come several times.  *)
OneReportPerRun == IsInjective(reported)

(* The status of a report is of the run it reports, in both its parts,     *)
(* unless the application core still owed the status of another run when it*)
(* was asked: what came too late before that is not taken for an answer.   *)
StatusIsOwn ==
  \A part \in {1, 2} : report.status[part] \in {0, report.run} \cup report.late
=============================================================================
