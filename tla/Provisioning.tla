---------------------------- MODULE Provisioning ----------------------------
(***************************************************************************)
(* The setup phase: a laptop runs setup_tool.py (or the app's Setup button,*)
(* which calls the same functions) against a set of boards over UDP        *)
(* broadcast.  A session discovers, provisions the devices of a plan one   *)
(* after the other with acknowledged messages and retries, and broadcasts  *)
(* START if every one of them was configured.  The user may run it again,  *)
(* with the same network or another, and may power-cycle boards.           *)
(***************************************************************************)
EXTENDS DevicePackets, FiniteSets

CONSTANTS
  Pool,         \* hardware_ids.json, a sequence of hardware ids
  Networks,     \* what a session may be run with, sequences of roles
  Dynamic,      \* TRUE: roles go to the boards that answered (--network)
  Retries,      \* --retries
  Timely,       \* TRUE: the timeout is long compared with delivery
  MaxSessions, MaxLoss, MaxLate, MaxReboot,   \* bounds
  Losable       \* the kinds of messages that may be lost

ASSUME ProvisioningAssumption ==
  /\ Retries \in Nat /\ MaxSessions \in Nat
  /\ {MaxLoss, MaxLate, MaxReboot} \subseteq Nat
  /\ Pool \in Seq(Hardware) /\ Networks \subseteq Seq(Role) \ {<< >>}

VARIABLES
  agent,     \* the boards
  saved,     \* what their stores hold
  down, up,  \* messages in flight to the boards and to the laptop
  tool,      \* the session
  faults     \* late: the timeouts that came before the answer; outage: a
             \* board has lost power while a session ran

vars == <<agent, saved, down, up, tool, faults>>

Tool == [phase : {"idle", "discover", "send", "await", "done", "failed"},
         session : 0..MaxSessions, roles : Seq(Role), seen : SUBSET Hardware,
         boards : Seq(Hardware), at : Nat, seq : Nat, try : 0..Retries,
         ok : SUBSET Hardware]

Faults == [loss : 0..MaxLoss, late : 0..MaxLate, reboot : 0..MaxReboot,
           outage : BOOLEAN]

Init ==
  /\ agent = [h \in Hardware |-> Blank]
  /\ saved = [h \in Hardware |-> Blank]
  /\ down = {} /\ up = {}
  /\ tool = [phase |-> "idle", session |-> 0, roles |-> << >>, seen |-> {},
             boards |-> << >>, at |-> 1, seq |-> 0, try |-> 0, ok |-> {}]
  /\ faults = [loss |-> 0, late |-> 0, reboot |-> 0, outage |-> FALSE]

-----------------------------------------------------------------------------
Board == tool.boards[tool.at]

Assigned == tool.roles[tool.at]

Current == Script(Assigned)[tool.seq + 1]

(* One byte on the wire.                                                   *)
SequenceNumber == tool.seq % 256

CurrentMessage ==
  [op |-> Current.op, hw |-> Board, seq |-> SequenceNumber, role |-> Assigned,
   chunk |-> Current.chunk, copy |-> <<tool.session, tool.try>>]

-----------------------------------------------------------------------------
(* The session.                                                            *)

Over == tool.phase \in {"idle", "done", "failed"}
Quiet == down = {} /\ up = {}

StartSession ==
  /\ Over /\ tool.session < MaxSessions
  /\ Timely => Quiet
  /\ \E net \in Networks :
       tool' = [phase |-> "discover", session |-> tool.session + 1,
                roles |-> net, seen |-> {}, boards |-> << >>, at |-> 1,
                seq |-> 0, try |-> 0, ok |-> {}]
  /\ UNCHANGED <<agent, saved, down, up, faults>>

(* A board that is UNCONFIGURED announces itself about once a second, and  *)
(* discover() listens (sendHello, discover).                               *)
Hello(h) ==
  /\ tool.phase = "discover" /\ agent[h].state = "UNCONFIGURED"
  /\ h \notin tool.seen
  /\ tool' = [tool EXCEPT !.seen = @ \cup {h}]
  /\ UNCHANGED <<agent, saved, down, up, faults>>

Announced == {h \in Hardware : agent[h].state = "UNCONFIGURED"}

(* The boards of the pool that answered, in pool order.                    *)
Available ==
  LET answered[n \in 0..Len(Pool)] ==
        IF n = 0 THEN << >>
        ELSE IF Pool[n] \in tool.seen THEN Append(answered[n - 1], Pool[n])
        ELSE answered[n - 1]
  IN answered[Len(Pool)]

Needed == Len(tool.roles)

(* Dynamic assignment takes as many boards as the layers of the network    *)
(* have nodes; build_devices then wants one for every role.                *)
Taken ==
  IF Dynamic THEN Cardinality({i \in 1..Needed : ~tool.roles[i].seed})
  ELSE Needed

(* The window is long enough for every announcement.                       *)
CloseWindow ==
  /\ tool.phase = "discover" /\ Announced \subseteq tool.seen
  /\ LET offered == IF Dynamic THEN Available ELSE Pool
     IN tool' = IF Len(offered) < Taken \/ Taken < Needed
                THEN [tool EXCEPT !.phase = "failed"]
                ELSE [tool EXCEPT !.phase = "send",
                                  !.boards = SubSeq(offered, 1, Needed)]
  /\ UNCHANGED <<agent, saved, down, up, faults>>

Send ==
  /\ tool.phase = "send"
  /\ down' = down \cup {CurrentMessage}
  /\ tool' = [tool EXCEPT !.phase = "await"]
  /\ UNCHANGED <<agent, saved, up, faults>>

(* Faulty variant: START is broadcast although a device has failed.        *)
NextDeviceStarts(t) ==
  IF t.at < Needed THEN [t EXCEPT !.phase = "send", !.at = t.at + 1,
                                  !.seq = 0, !.try = 0]
  ELSE [t EXCEPT !.phase = IF t.ok # {} THEN "done" ELSE "failed"]

(* provision_device returned: the next device, or the end of the session.  *)
NextDevice(t) ==
  IF t.at < Needed THEN [t EXCEPT !.phase = "send", !.at = t.at + 1,
                                  !.seq = 0, !.try = 0]
  ELSE [t EXCEPT !.phase =
                   IF \A i \in 1..Needed : t.boards[i] \in t.ok THEN "done"
                   ELSE "failed"]

(* START is broadcast three times when every device was configured.        *)
StartMessages ==
  {[op |-> "START", hw |-> h, seq |-> 0, role |-> Nobody, chunk |-> 0,
    copy |-> <<tool.session, c>>] : h \in Hardware, c \in 0..2}

Advance(t) ==
  /\ tool' = t
  /\ down' = IF t.phase = "done" THEN down \cup StartMessages ELSE down

Matches(p) ==
  /\ p.hw = Board
  /\ IF Current.op = "COMMIT_REQUEST"
     THEN p.op = "COMMIT_REPLY"       \* the sequence number is not compared
     ELSE p.op \in {"ACK", "NACK"} /\ p.about = Current.op /\ p.seq = SequenceNumber

Judged(p) ==
  CASE p.op = "ACK" -> [tool EXCEPT !.phase = "send", !.seq = @ + 1, !.try = 0]
    [] p.op = "NACK" -> NextDevice(tool)
    [] p.op = "COMMIT_REPLY" ->
         NextDevice(IF Verified(p, Assigned)
                    THEN [tool EXCEPT !.ok = @ \cup {Board}] ELSE tool)

LaptopReceive ==
  /\ \E p \in up :
       /\ up' = up \ {p}
       /\ IF tool.phase = "await" /\ Matches(p) THEN Advance(Judged(p))
          ELSE UNCHANGED <<tool, down>>
  /\ UNCHANGED <<agent, saved, faults>>

(* The timeout runs out: the answer is lost or, now and then, only late.   *)
TimedOut ==
  \/ (Timely => Quiet) /\ UNCHANGED faults
  \/ /\ Timely /\ ~Quiet /\ faults.late < MaxLate
     /\ faults' = [faults EXCEPT !.late = @ + 1]

(* Faulty variants: the first timeout gives the device up; the last one    *)
(* does not.                                                               *)
TimeoutGivesUp ==
  /\ tool.phase = "await" /\ TimedOut
  /\ Advance(NextDevice(tool))
  /\ UNCHANGED <<agent, saved, up>>
TimeoutWaitsOn ==
  /\ tool.phase = "await" /\ tool.try < Retries /\ TimedOut
  /\ Advance([tool EXCEPT !.phase = "send", !.try = @ + 1])
  /\ UNCHANGED <<agent, saved, up>>

(* No matching reply in time: the next attempt, or the device has failed.  *)
Timeout ==
  /\ tool.phase = "await" /\ TimedOut
  /\ Advance(IF tool.try < Retries
             THEN [tool EXCEPT !.phase = "send", !.try = @ + 1]
             ELSE NextDevice(tool))
  /\ UNCHANGED <<agent, saved, up>>

-----------------------------------------------------------------------------
(* The boards and the network.                                             *)

(* loop(): a running board drops all setup traffic.                        *)
Listening(h) == agent[h].state # "RUNNING"

Receive(h) ==
  /\ \E m \in {x \in down : x.hw = h} :
       /\ down' = down \ {m}
       /\ agent' = [agent EXCEPT ![h] =
                      IF Listening(h) THEN OnSetupPacket(@, m) ELSE @]
       /\ up' = IF Listening(h) THEN up \cup Replies(agent[h], m) ELSE up
  /\ saved' = IF Persistent /\ agent[h].state = "VERIFYING"
                 /\ agent'[h].state = "CONFIGURED"
              THEN [saved EXCEPT ![h] = Persisted(agent'[h])] ELSE saved
  /\ UNCHANGED <<tool, faults>>

Lose ==
  /\ faults.loss < MaxLoss
  /\ \/ \E m \in down : m.op \in Losable /\ down' = down \ {m} /\ UNCHANGED up
     \/ \E p \in up : p.op \in Losable /\ up' = up \ {p} /\ UNCHANGED down
  /\ faults' = [faults EXCEPT !.loss = @ + 1]
  /\ UNCHANGED <<agent, saved, tool>>

(* A board is power-cycled between two sessions or loses power in one.     *)
Reboot(h) ==
  /\ faults.reboot < MaxReboot
  /\ agent' = [agent EXCEPT ![h] = Booted(saved[h])]
  /\ faults' = [faults EXCEPT !.reboot = @ + 1, !.outage = @ \/ ~Over]
  /\ UNCHANGED <<saved, down, up, tool>>

Next ==
  \/ StartSession \/ CloseWindow \/ Send \/ LaptopReceive \/ Timeout \/ Lose
  \/ \E h \in Hardware : Hello(h) \/ Receive(h) \/ Reboot(h)

Spec == Init /\ [][Next]_vars

(* Boards and tool keep running and the network delivers what it does not  *)
(* lose; the user owes nothing: no fairness of StartSession or Reboot.     *)
Fairness ==
  /\ WF_vars(CloseWindow) /\ WF_vars(Send) /\ WF_vars(LaptopReceive)
  /\ WF_vars(Timeout)
  /\ \A h \in Hardware : WF_vars(Hello(h)) /\ WF_vars(Receive(h))

FairSpec == Spec /\ Fairness
=============================================================================
