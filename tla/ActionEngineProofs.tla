------------------------- MODULE ActionEngineProofs -------------------------
(***************************************************************************)
(* Proofs about the action engine for any calls, decisions, actions, keys  *)
(* and policies.                                                           *)
(*                                                                         *)
(* The properties are not inductive: that a row takes effect once depends  *)
(* on which phases its call and the decisions on it can be in together,    *)
(* and on what the row's status is meanwhile.  IInv states that, in one    *)
(* named part per kind of process:                                         *)
(*   CallInv         phase of a call, its row and its gate agree;          *)
(*   DecisionInv     a decision acts only for a gated row whose call has   *)
(*                   ended, and runs a handler only if it approved;        *)
(*   UncontestedInv  on a row without overlapping decisions the status     *)
(*                   follows the one decision in flight;                   *)
(*   KillInv         what an admission under an enabled switch can reach;  *)
(*   KeyInv          who can hold a key.                                   *)
(***************************************************************************)
EXTENDS ActionEngine, TLAPS

Handling == {"start", "run", "complete", "record", "fail"}

Ran == {"running", "completed", "failed"}

\* The status a row has while the only process handling it is in a phase.
Fits(phase, s) ==
    /\ phase \in {"run", "complete"} => s = "running"
    /\ phase = "record" => s = "completed"
    /\ phase = "fail" => s \in {"running", "completed"}

CallInv(c) ==
    /\ pc[c] \notin {"decide", "resume"}
    /\ pc[c] \in {"idle", "insert"} => status[c] = "absent"
    /\ pc[c] \in {"guard", "block", "request", "open", "await", "start"} => status[c] = "queued"
    /\ pc[c] \in {"idle", "insert", "guard", "block", "request", "open"} =>
            approval[c] = "none" /\ review[c] = "none"
    /\ pc[c] = "request" => Route(req[c]) = "request"
    /\ pc[c] = "open" => Route(req[c]) = "open"
    /\ pc[c] = "await" => Route(req[c]) # "start"
    /\ pc[c] \in Handling => Route(req[c]) = "start"
    /\ Fits(pc[c], status[c])
    /\ approval[c] # "none" => Route(req[c]) = "request"
    /\ review[c] # "none" => Route(req[c]) = "open"
    /\ status[c] = "awaiting_approval" => Route(req[c]) # "start" /\ pc[c] = "done"
    /\ pc[c] \in {"start", "run"} => c \notin applied
    /\ pc[c] \in {"complete", "record"} => c \in applied
    /\ c \in applied => Route(req[c]) = "start" /\ status[c] \in Ran

DecisionInv(d) ==
    /\ pc[d] \in {"idle", "decide", "resume", "done", "dead"} \cup Handling
    /\ pc[d] # "idle" \/ d \in granted =>
            /\ Route(req[target[d]]) # "start"
            /\ approval[target[d]] # "none" \/ review[target[d]] # "none"
    /\ pc[d] = "decide" => /\ vote[d] \in {"approved", "rejected"}
                           /\ approval[target[d]] # "none"
    /\ pc[d] \in {"idle", "decide"} => d \notin granted
    /\ pc[d] \in Handling \cup {"resume"} => d \in granted
    /\ d \in granted => vote[d] = "approved"
    /\ pc[d] = "start" => status[target[d]] \in Ran \cup {"awaiting_approval"}
    /\ pc[d] \in Handling \ {"start"} => status[target[d]] \in Ran
    /\ pc[d] \in Handling => pc[target[d]] = "done"
    /\ pc[d] \in {"idle", "decide", "resume", "start", "run"} => d \notin applied
    /\ pc[d] \in {"complete", "record"} => d \in applied
    /\ d \in applied => d \in granted /\ status[target[d]] \in Ran

UncontestedInv(d) ==
    target[d] \notin contested =>
        /\ \A e \in Decision : InFlight(d) /\ InFlight(e) /\ target[e] = target[d] => d = e
        /\ pc[d] = "decide" => approval[target[d]] = "pending"
        /\ approval[target[d]] \in {"pending", "rejected"} => d \notin granted
        /\ pc[d] = "start" => status[target[d]] = "awaiting_approval"
        /\ Fits(pc[d], status[target[d]])
        /\ pc[d] \in {"start", "run"} =>
                \A e \in Decision : e \in applied => target[e] # target[d]
        /\ \A e \in Decision : d \in applied /\ e \in applied /\ target[e] = target[d] => d = e

KillInv(p) ==
    p \in underKill =>
        /\ killed[req[Row(p)].action]
        /\ p \in Call =>
                /\ pc[p] \in {"insert", "guard", "block", "done", "dead"}
                /\ status[p] \in {"absent", "queued", "blocked"}
                /\ approval[p] = "none" /\ review[p] = "none"

\* Call c has its key: a live row, or the right to insert one.
Holds(c) ==
    \/ pc[c] = "insert"
    \/ status[c] \in {"queued", "running", "completed", "awaiting_approval"}

KeyInv(c, d) ==
    /\ c # d /\ req[c].key = req[d].key
    /\ ~req[c].force /\ ~req[d].force
    /\ Holds(c) /\ Holds(d)
    => req[c].key \in raced \/ c \in contested \/ d \in contested

IInv ==
    /\ TypeOK
    /\ \A c \in Call : CallInv(c)
    /\ \A d \in Decision : DecisionInv(d)
    /\ \A d \in Decision : UncontestedInv(d)
    /\ \A p \in Process : KillInv(p)
    /\ \A c, d \in Call : KeyInv(c, d)

-----------------------------------------------------------------------------

LEMMA RouteValues == \A r \in Requests : Route(r) \in {"request", "open", "start"}
BY DEF Route

LEMMA InitIInv == Init => IInv
<1> SUFFICES ASSUME Init PROVE IInv
  OBVIOUS
<1> USE DEF Init
<1>1. TypeOK
  BY DEF TypeOK, ExecStatus, Phase
<1>2. \A c \in Call : CallInv(c)
  BY DEF CallInv, Handling, Process, Fits
<1>3. \A d \in Decision : DecisionInv(d) /\ UncontestedInv(d)
  BY DEF DecisionInv, UncontestedInv, Handling, Process, InFlight, Fits
<1>4. \A p \in Process : KillInv(p)
  BY DEF KillInv
<1>5. \A c, d \in Call : KeyInv(c, d)
  BY DEF KeyInv, Holds, Process
<1> QED
  BY <1>1, <1>2, <1>3, <1>4, <1>5 DEF IInv

LEMMA DeduplicateIInv ==
  ASSUME IInv, NEW c \in Call, Deduplicate(c)
  PROVE  IInv'
<1> USE EngineAssumption DEF Deduplicate, NoteKill, Goto, Process, Row, inputs, rows, seen
<1>1. TypeOK'
  BY DEF IInv, TypeOK, ExecStatus, Phase
<1>2. ASSUME NEW x \in Call PROVE CallInv(x)'
  BY DEF IInv, TypeOK, CallInv, DecisionInv, Handling, Fits, Ran
<1>3. ASSUME NEW y \in Decision PROVE DecisionInv(y)'
  BY DEF IInv, TypeOK, CallInv, DecisionInv, Handling, Ran
<1>4. ASSUME NEW y \in Decision PROVE UncontestedInv(y)'
  BY DEF IInv, TypeOK, CallInv, DecisionInv, UncontestedInv, Handling, Ran, Fits, InFlight
<1>5. ASSUME NEW q \in Process PROVE KillInv(q)'
  BY DEF IInv, TypeOK, KillInv, CallInv, DecisionInv, Handling, Ran
<1>6. ASSUME NEW x \in Call, NEW y \in Call PROVE KeyInv(x, y)'
  BY DEF IInv, TypeOK, KeyInv, Holds, CallInv, DecisionInv, UncontestedInv, Handling, Fits, Ran
<1> QED
  BY <1>1, <1>2, <1>3, <1>4, <1>5, <1>6 DEF IInv

LEMMA PassLookupIInv ==
  ASSUME IInv, NEW c \in Call, PassLookup(c)
  PROVE  IInv'
<1> USE EngineAssumption DEF PassLookup, NoteKill, Prior, Live, Goto, Process, Row, inputs, rows, seen
<1>1. TypeOK'
  BY DEF IInv, TypeOK, ExecuteActionInput, ExecStatus, Phase
<1>2. ASSUME NEW x \in Call PROVE CallInv(x)'
  BY DEF IInv, TypeOK, CallInv, DecisionInv, Handling, Fits, Ran
<1>3. ASSUME NEW y \in Decision PROVE DecisionInv(y)'
  BY DEF IInv, TypeOK, CallInv, DecisionInv, Handling, Ran
<1>4. ASSUME NEW y \in Decision PROVE UncontestedInv(y)'
  BY DEF IInv, TypeOK, CallInv, DecisionInv, UncontestedInv, Handling, Ran, Fits, InFlight
<1>5. ASSUME NEW q \in Process PROVE KillInv(q)'
  BY DEF IInv, TypeOK, KillInv, CallInv, DecisionInv, Handling, Ran
<1>6. ASSUME NEW x \in Call, NEW y \in Call PROVE KeyInv(x, y)'
  BY DEF IInv, TypeOK, KeyInv, Holds, CallInv, DecisionInv, UncontestedInv, Handling, Fits, Ran
<1> QED
  BY <1>1, <1>2, <1>3, <1>4, <1>5, <1>6 DEF IInv

LEMMA InsertQueuedIInv ==
  ASSUME IInv, NEW c \in Call, InsertQueued(c)
  PROVE  IInv'
<1> USE EngineAssumption DEF InsertQueued, Goto, Process, Row, inputs, rows, seen
<1>1. TypeOK'
  BY DEF IInv, TypeOK, ExecStatus, Phase
<1>2. ASSUME NEW x \in Call PROVE CallInv(x)'
  BY DEF IInv, TypeOK, CallInv, DecisionInv, Handling, Fits, Ran
<1>3. ASSUME NEW y \in Decision PROVE DecisionInv(y)'
  BY DEF IInv, TypeOK, CallInv, DecisionInv, Handling, Ran
<1>4. ASSUME NEW y \in Decision PROVE UncontestedInv(y)'
  BY DEF IInv, TypeOK, CallInv, DecisionInv, UncontestedInv, Handling, Ran, Fits, InFlight
<1>5. ASSUME NEW q \in Process PROVE KillInv(q)'
  BY DEF IInv, TypeOK, KillInv, CallInv, DecisionInv, Handling, Ran
<1>6. ASSUME NEW x \in Call, NEW y \in Call PROVE KeyInv(x, y)'
  BY DEF IInv, TypeOK, KeyInv, Holds, CallInv, DecisionInv, UncontestedInv, Handling, Fits, Ran
<1> QED
  BY <1>1, <1>2, <1>3, <1>4, <1>5, <1>6 DEF IInv

LEMMA GuardIInv ==
  ASSUME IInv, NEW c \in Call, Guard(c)
  PROVE  IInv'
<1> USE RouteValues, EngineAssumption DEF Guard, isKilled, Goto, Process, Row, inputs, rows, seen
<1>1. TypeOK'
  BY DEF IInv, TypeOK, ExecStatus, Phase
<1>2. ASSUME NEW x \in Call PROVE CallInv(x)'
  BY DEF IInv, TypeOK, CallInv, DecisionInv, Handling, Fits, Ran
<1>3. ASSUME NEW y \in Decision PROVE DecisionInv(y)'
  BY DEF IInv, TypeOK, CallInv, DecisionInv, Handling, Ran
<1>4. ASSUME NEW y \in Decision PROVE UncontestedInv(y)'
  BY DEF IInv, TypeOK, CallInv, DecisionInv, UncontestedInv, Handling, Ran, Fits, InFlight
<1>5. ASSUME NEW q \in Process PROVE KillInv(q)'
  BY DEF IInv, TypeOK, KillInv, CallInv, DecisionInv, Handling, Ran
<1>6. ASSUME NEW x \in Call, NEW y \in Call PROVE KeyInv(x, y)'
  BY DEF IInv, TypeOK, KeyInv, Holds, CallInv, DecisionInv, UncontestedInv, Handling, Fits, Ran
<1> QED
  BY <1>1, <1>2, <1>3, <1>4, <1>5, <1>6 DEF IInv

LEMMA BlockIInv ==
  ASSUME IInv, NEW c \in Call, Block(c)
  PROVE  IInv'
<1> USE EngineAssumption DEF Block, Goto, Process, Row, inputs, rows, seen
<1>1. TypeOK'
  BY DEF IInv, TypeOK, ExecStatus, Phase
<1>2. ASSUME NEW x \in Call PROVE CallInv(x)'
  BY DEF IInv, TypeOK, CallInv, DecisionInv, Handling, Fits, Ran
<1>3. ASSUME NEW y \in Decision PROVE DecisionInv(y)'
  BY DEF IInv, TypeOK, CallInv, DecisionInv, Handling, Ran
<1>4. ASSUME NEW y \in Decision PROVE UncontestedInv(y)'
  BY DEF IInv, TypeOK, CallInv, DecisionInv, UncontestedInv, Handling, Ran, Fits, InFlight
<1>5. ASSUME NEW q \in Process PROVE KillInv(q)'
  BY DEF IInv, TypeOK, KillInv, CallInv, DecisionInv, Handling, Ran
<1>6. ASSUME NEW x \in Call, NEW y \in Call PROVE KeyInv(x, y)'
  BY DEF IInv, TypeOK, KeyInv, Holds, CallInv, DecisionInv, UncontestedInv, Handling, Fits, Ran
<1> QED
  BY <1>1, <1>2, <1>3, <1>4, <1>5, <1>6 DEF IInv

LEMMA RequestApprovalIInv ==
  ASSUME IInv, NEW c \in Call, RequestApproval(c)
  PROVE  IInv'
<1> USE EngineAssumption DEF RequestApproval, Goto, Process, Row, inputs, rows, seen
<1>1. TypeOK'
  BY DEF IInv, TypeOK, ExecStatus, Phase
<1>2. ASSUME NEW x \in Call PROVE CallInv(x)'
  BY DEF IInv, TypeOK, CallInv, DecisionInv, Handling, Fits, Ran
<1>3. ASSUME NEW y \in Decision PROVE DecisionInv(y)'
  BY DEF IInv, TypeOK, CallInv, DecisionInv, Handling, Ran
<1>4. ASSUME NEW y \in Decision PROVE UncontestedInv(y)'
  BY DEF IInv, TypeOK, CallInv, DecisionInv, UncontestedInv, Handling, Ran, Fits, InFlight
<1>5. ASSUME NEW q \in Process PROVE KillInv(q)'
  BY DEF IInv, TypeOK, KillInv, CallInv, DecisionInv, Handling, Ran
<1>6. ASSUME NEW x \in Call, NEW y \in Call PROVE KeyInv(x, y)'
  BY DEF IInv, TypeOK, KeyInv, Holds, CallInv, DecisionInv, UncontestedInv, Handling, Fits, Ran
<1> QED
  BY <1>1, <1>2, <1>3, <1>4, <1>5, <1>6 DEF IInv

LEMMA OpenReviewCaseIInv ==
  ASSUME IInv, NEW c \in Call, OpenReviewCase(c)
  PROVE  IInv'
<1> USE EngineAssumption DEF OpenReviewCase, Goto, Process, Row, inputs, rows, seen
<1>1. TypeOK'
  BY DEF IInv, TypeOK, ExecStatus, Phase
<1>2. ASSUME NEW x \in Call PROVE CallInv(x)'
  BY DEF IInv, TypeOK, CallInv, DecisionInv, Handling, Fits, Ran
<1>3. ASSUME NEW y \in Decision PROVE DecisionInv(y)'
  BY DEF IInv, TypeOK, CallInv, DecisionInv, Handling, Ran
<1>4. ASSUME NEW y \in Decision PROVE UncontestedInv(y)'
  BY DEF IInv, TypeOK, CallInv, DecisionInv, UncontestedInv, Handling, Ran, Fits, InFlight
<1>5. ASSUME NEW q \in Process PROVE KillInv(q)'
  BY DEF IInv, TypeOK, KillInv, CallInv, DecisionInv, Handling, Ran
<1>6. ASSUME NEW x \in Call, NEW y \in Call PROVE KeyInv(x, y)'
  BY DEF IInv, TypeOK, KeyInv, Holds, CallInv, DecisionInv, UncontestedInv, Handling, Fits, Ran
<1> QED
  BY <1>1, <1>2, <1>3, <1>4, <1>5, <1>6 DEF IInv

LEMMA AwaitApprovalIInv ==
  ASSUME IInv, NEW c \in Call, AwaitApproval(c)
  PROVE  IInv'
<1> USE EngineAssumption DEF AwaitApproval, Goto, Process, Row, inputs, rows, seen
<1>1. TypeOK'
  BY DEF IInv, TypeOK, ExecStatus, Phase
<1>2. ASSUME NEW x \in Call PROVE CallInv(x)'
  BY DEF IInv, TypeOK, CallInv, DecisionInv, Handling, Fits, Ran
<1>3. ASSUME NEW y \in Decision PROVE DecisionInv(y)'
  BY DEF IInv, TypeOK, CallInv, DecisionInv, Handling, Ran
<1>4. ASSUME NEW y \in Decision PROVE UncontestedInv(y)'
  BY DEF IInv, TypeOK, CallInv, DecisionInv, UncontestedInv, Handling, Ran, Fits, InFlight
<1>5. ASSUME NEW q \in Process PROVE KillInv(q)'
  BY DEF IInv, TypeOK, KillInv, CallInv, DecisionInv, Handling, Ran
<1>6. ASSUME NEW x \in Call, NEW y \in Call PROVE KeyInv(x, y)'
  BY DEF IInv, TypeOK, KeyInv, Holds, CallInv, DecisionInv, UncontestedInv, Handling, Fits, Ran
<1> QED
  BY <1>1, <1>2, <1>3, <1>4, <1>5, <1>6 DEF IInv

LEMMA StartHandlerIInv ==
  ASSUME IInv, NEW p \in Process, StartHandler(p)
  PROVE  IInv'
<1> USE EngineAssumption DEF StartHandler, Goto, Process, Row, inputs, rows, seen
<1>1. TypeOK'
  BY DEF IInv, TypeOK, ExecStatus, Phase
<1>2. ASSUME NEW x \in Call PROVE CallInv(x)'
  BY DEF IInv, TypeOK, CallInv, DecisionInv, Handling, Fits, Ran
<1>3. ASSUME NEW y \in Decision PROVE DecisionInv(y)'
  BY DEF IInv, TypeOK, CallInv, DecisionInv, Handling, Ran
<1>4. ASSUME NEW y \in Decision PROVE UncontestedInv(y)'
  BY DEF IInv, TypeOK, CallInv, DecisionInv, UncontestedInv, Handling, Ran, Fits, InFlight
<1>5. ASSUME NEW q \in Process PROVE KillInv(q)'
  BY DEF IInv, TypeOK, KillInv, CallInv, DecisionInv, Handling, Ran
<1>6. ASSUME NEW x \in Call, NEW y \in Call PROVE KeyInv(x, y)'
  BY DEF IInv, TypeOK, KeyInv, Holds, CallInv, DecisionInv, UncontestedInv, Handling, Fits, Ran
<1> QED
  BY <1>1, <1>2, <1>3, <1>4, <1>5, <1>6 DEF IInv

LEMMA HandlerReturnsIInv ==
  ASSUME IInv, NEW p \in Process, HandlerReturns(p)
  PROVE  IInv'
<1> USE EngineAssumption DEF HandlerReturns, Goto, Process, Row, inputs, rows, seen
<1>1. TypeOK'
  BY DEF IInv, TypeOK, ExecStatus, Phase
<1>2. ASSUME NEW x \in Call PROVE CallInv(x)'
  BY DEF IInv, TypeOK, CallInv, DecisionInv, Handling, Fits, Ran
<1>3. ASSUME NEW y \in Decision PROVE DecisionInv(y)'
  BY DEF IInv, TypeOK, CallInv, DecisionInv, Handling, Ran
<1>4. ASSUME NEW y \in Decision PROVE UncontestedInv(y)'
  BY DEF IInv, TypeOK, CallInv, DecisionInv, UncontestedInv, Handling, Ran, Fits, InFlight
<1>5. ASSUME NEW q \in Process PROVE KillInv(q)'
  BY DEF IInv, TypeOK, KillInv, CallInv, DecisionInv, Handling, Ran
<1>6. ASSUME NEW x \in Call, NEW y \in Call PROVE KeyInv(x, y)'
  BY DEF IInv, TypeOK, KeyInv, Holds, CallInv, DecisionInv, UncontestedInv, Handling, Fits, Ran
<1> QED
  BY <1>1, <1>2, <1>3, <1>4, <1>5, <1>6 DEF IInv

LEMMA HandlerThrowsIInv ==
  ASSUME IInv, NEW p \in Process, HandlerThrows(p)
  PROVE  IInv'
<1> USE EngineAssumption DEF HandlerThrows, Goto, Process, Row, inputs, rows, seen
<1>1. TypeOK'
  BY DEF IInv, TypeOK, ExecStatus, Phase
<1>2. ASSUME NEW x \in Call PROVE CallInv(x)'
  BY DEF IInv, TypeOK, CallInv, DecisionInv, Handling, Fits, Ran
<1>3. ASSUME NEW y \in Decision PROVE DecisionInv(y)'
  BY DEF IInv, TypeOK, CallInv, DecisionInv, Handling, Ran
<1>4. ASSUME NEW y \in Decision PROVE UncontestedInv(y)'
  BY DEF IInv, TypeOK, CallInv, DecisionInv, UncontestedInv, Handling, Ran, Fits, InFlight
<1>5. ASSUME NEW q \in Process PROVE KillInv(q)'
  BY DEF IInv, TypeOK, KillInv, CallInv, DecisionInv, Handling, Ran
<1>6. ASSUME NEW x \in Call, NEW y \in Call PROVE KeyInv(x, y)'
  BY DEF IInv, TypeOK, KeyInv, Holds, CallInv, DecisionInv, UncontestedInv, Handling, Fits, Ran
<1> QED
  BY <1>1, <1>2, <1>3, <1>4, <1>5, <1>6 DEF IInv

LEMMA CompleteIInv ==
  ASSUME IInv, NEW p \in Process, Complete(p)
  PROVE  IInv'
<1> USE EngineAssumption DEF Complete, Goto, Process, Row, inputs, rows, seen
<1>1. TypeOK'
  BY DEF IInv, TypeOK, ExecStatus, Phase
<1>2. ASSUME NEW x \in Call PROVE CallInv(x)'
  BY DEF IInv, TypeOK, CallInv, DecisionInv, Handling, Fits, Ran
<1>3. ASSUME NEW y \in Decision PROVE DecisionInv(y)'
  BY DEF IInv, TypeOK, CallInv, DecisionInv, Handling, Ran
<1>4. ASSUME NEW y \in Decision PROVE UncontestedInv(y)'
  BY DEF IInv, TypeOK, CallInv, DecisionInv, UncontestedInv, Handling, Ran, Fits, InFlight
<1>5. ASSUME NEW q \in Process PROVE KillInv(q)'
  BY DEF IInv, TypeOK, KillInv, CallInv, DecisionInv, Handling, Ran
<1>6. ASSUME NEW x \in Call, NEW y \in Call PROVE KeyInv(x, y)'
  BY DEF IInv, TypeOK, KeyInv, Holds, CallInv, DecisionInv, UncontestedInv, Handling, Fits, Ran
<1> QED
  BY <1>1, <1>2, <1>3, <1>4, <1>5, <1>6 DEF IInv

LEMMA RecordIInv ==
  ASSUME IInv, NEW p \in Process, Record(p)
  PROVE  IInv'
<1> USE EngineAssumption DEF Record, Goto, Process, Row, inputs, rows, seen
<1>1. TypeOK'
  BY DEF IInv, TypeOK, ExecStatus, Phase
<1>2. ASSUME NEW x \in Call PROVE CallInv(x)'
  BY DEF IInv, TypeOK, CallInv, DecisionInv, Handling, Fits, Ran
<1>3. ASSUME NEW y \in Decision PROVE DecisionInv(y)'
  BY DEF IInv, TypeOK, CallInv, DecisionInv, Handling, Ran
<1>4. ASSUME NEW y \in Decision PROVE UncontestedInv(y)'
  BY DEF IInv, TypeOK, CallInv, DecisionInv, UncontestedInv, Handling, Ran, Fits, InFlight
<1>5. ASSUME NEW q \in Process PROVE KillInv(q)'
  BY DEF IInv, TypeOK, KillInv, CallInv, DecisionInv, Handling, Ran
<1>6. ASSUME NEW x \in Call, NEW y \in Call PROVE KeyInv(x, y)'
  BY DEF IInv, TypeOK, KeyInv, Holds, CallInv, DecisionInv, UncontestedInv, Handling, Fits, Ran
<1> QED
  BY <1>1, <1>2, <1>3, <1>4, <1>5, <1>6 DEF IInv

LEMMA RecordThrowsIInv ==
  ASSUME IInv, NEW p \in Process, RecordThrows(p)
  PROVE  IInv'
<1> USE EngineAssumption DEF RecordThrows, Goto, Process, Row, inputs, rows, seen
<1>1. TypeOK'
  BY DEF IInv, TypeOK, ExecStatus, Phase
<1>2. ASSUME NEW x \in Call PROVE CallInv(x)'
  BY DEF IInv, TypeOK, CallInv, DecisionInv, Handling, Fits, Ran
<1>3. ASSUME NEW y \in Decision PROVE DecisionInv(y)'
  BY DEF IInv, TypeOK, CallInv, DecisionInv, Handling, Ran
<1>4. ASSUME NEW y \in Decision PROVE UncontestedInv(y)'
  BY DEF IInv, TypeOK, CallInv, DecisionInv, UncontestedInv, Handling, Ran, Fits, InFlight
<1>5. ASSUME NEW q \in Process PROVE KillInv(q)'
  BY DEF IInv, TypeOK, KillInv, CallInv, DecisionInv, Handling, Ran
<1>6. ASSUME NEW x \in Call, NEW y \in Call PROVE KeyInv(x, y)'
  BY DEF IInv, TypeOK, KeyInv, Holds, CallInv, DecisionInv, UncontestedInv, Handling, Fits, Ran
<1> QED
  BY <1>1, <1>2, <1>3, <1>4, <1>5, <1>6 DEF IInv

LEMMA FailIInv ==
  ASSUME IInv, NEW p \in Process, Fail(p)
  PROVE  IInv'
<1> USE EngineAssumption DEF Fail, Goto, Process, Row, inputs, rows, seen
<1>1. TypeOK'
  BY DEF IInv, TypeOK, ExecStatus, Phase
<1>2. ASSUME NEW x \in Call PROVE CallInv(x)'
  BY DEF IInv, TypeOK, CallInv, DecisionInv, Handling, Fits, Ran
<1>3. ASSUME NEW y \in Decision PROVE DecisionInv(y)'
  BY DEF IInv, TypeOK, CallInv, DecisionInv, Handling, Ran
<1>4. ASSUME NEW y \in Decision PROVE UncontestedInv(y)'
  BY DEF IInv, TypeOK, CallInv, DecisionInv, UncontestedInv, Handling, Ran, Fits, InFlight
<1>5. ASSUME NEW q \in Process PROVE KillInv(q)'
  BY DEF IInv, TypeOK, KillInv, CallInv, DecisionInv, Handling, Ran
<1>6. ASSUME NEW x \in Call, NEW y \in Call PROVE KeyInv(x, y)'
  BY DEF IInv, TypeOK, KeyInv, Holds, CallInv, DecisionInv, UncontestedInv, Handling, Fits, Ran
<1> QED
  BY <1>1, <1>2, <1>3, <1>4, <1>5, <1>6 DEF IInv

LEMMA CutOffIInv ==
  ASSUME IInv, NEW p \in Process, CutOff(p)
  PROVE  IInv'
<1> USE EngineAssumption DEF CutOff, InFlight, Goto, Process, Row, inputs, rows, seen
<1>1. TypeOK'
  BY DEF IInv, TypeOK, ExecStatus, Phase
<1>2. ASSUME NEW x \in Call PROVE CallInv(x)'
  BY DEF IInv, TypeOK, CallInv, DecisionInv, Handling, Fits, Ran
<1>3. ASSUME NEW y \in Decision PROVE DecisionInv(y)'
  BY DEF IInv, TypeOK, CallInv, DecisionInv, Handling, Ran
<1>4. ASSUME NEW y \in Decision PROVE UncontestedInv(y)'
  BY DEF IInv, TypeOK, CallInv, DecisionInv, UncontestedInv, Handling, Ran, Fits
<1>5. ASSUME NEW q \in Process PROVE KillInv(q)'
  BY DEF IInv, TypeOK, KillInv, CallInv, DecisionInv, Handling, Ran
<1>6. ASSUME NEW x \in Call, NEW y \in Call PROVE KeyInv(x, y)'
  BY DEF IInv, TypeOK, KeyInv, Holds, CallInv, DecisionInv, UncontestedInv, Handling, Fits, Ran
<1> QED
  BY <1>1, <1>2, <1>3, <1>4, <1>5, <1>6 DEF IInv

LEMMA BeginDecisionIInv ==
  ASSUME IInv, NEW d \in Decision, BeginDecision(d)
  PROVE  IInv'
<1> USE EngineAssumption DEF BeginDecision, NoteKill, NoteContest, Undecided, Goto, Process, Row, inputs, rows, seen
<1>1. TypeOK'
  BY DEF IInv, TypeOK, ExecStatus, Phase
<1>2. ASSUME NEW x \in Call PROVE CallInv(x)'
  BY DEF IInv, TypeOK, CallInv, DecisionInv, Handling, Fits, Ran
<1>3. ASSUME NEW y \in Decision PROVE DecisionInv(y)'
  BY DEF IInv, TypeOK, CallInv, DecisionInv, Handling, Ran
<1>4. ASSUME NEW y \in Decision PROVE UncontestedInv(y)'
  BY DEF IInv, TypeOK, CallInv, DecisionInv, UncontestedInv, Handling, Ran, Fits, InFlight
<1>5. ASSUME NEW q \in Process PROVE KillInv(q)'
  BY DEF IInv, TypeOK, KillInv, CallInv, DecisionInv, Handling, Ran
<1>6. ASSUME NEW x \in Call, NEW y \in Call PROVE KeyInv(x, y)'
  BY DEF IInv, TypeOK, KeyInv, Holds, CallInv, DecisionInv, UncontestedInv, Handling, Fits, Ran
<1> QED
  BY <1>1, <1>2, <1>3, <1>4, <1>5, <1>6 DEF IInv

LEMMA RefuseDecisionIInv ==
  ASSUME IInv, NEW d \in Decision, RefuseDecision(d)
  PROVE  IInv'
<1> USE EngineAssumption DEF RefuseDecision, Undecided, Goto, Process, Row, inputs, rows, seen
<1>1. TypeOK'
  BY DEF IInv, TypeOK, ExecStatus, Phase
<1>2. ASSUME NEW x \in Call PROVE CallInv(x)'
  BY DEF IInv, TypeOK, CallInv, DecisionInv, Handling, Fits, Ran
<1>3. ASSUME NEW y \in Decision PROVE DecisionInv(y)'
  BY DEF IInv, TypeOK, CallInv, DecisionInv, Handling, Ran
<1>4. ASSUME NEW y \in Decision PROVE UncontestedInv(y)'
  BY DEF IInv, TypeOK, CallInv, DecisionInv, UncontestedInv, Handling, Ran, Fits, InFlight
<1>5. ASSUME NEW q \in Process PROVE KillInv(q)'
  BY DEF IInv, TypeOK, KillInv, CallInv, DecisionInv, Handling, Ran
<1>6. ASSUME NEW x \in Call, NEW y \in Call PROVE KeyInv(x, y)'
  BY DEF IInv, TypeOK, KeyInv, Holds, CallInv, DecisionInv, UncontestedInv, Handling, Fits, Ran
<1> QED
  BY <1>1, <1>2, <1>3, <1>4, <1>5, <1>6 DEF IInv

LEMMA DecideIInv ==
  ASSUME IInv, NEW d \in Decision, Decide(d)
  PROVE  IInv'
<1> USE EngineAssumption DEF Decide, Verdict, Goto, Process, Row, inputs, rows, seen
<1>1. TypeOK'
  BY DEF IInv, TypeOK, DecisionInv, ExecStatus, Phase
<1>2. ASSUME NEW x \in Call PROVE CallInv(x)'
  BY DEF IInv, TypeOK, CallInv, DecisionInv, Handling, Fits, Ran
<1>3. ASSUME NEW y \in Decision PROVE DecisionInv(y)'
  BY DEF IInv, TypeOK, CallInv, DecisionInv, Handling, Ran
<1>4. ASSUME NEW y \in Decision PROVE UncontestedInv(y)'
  BY DEF IInv, TypeOK, CallInv, DecisionInv, UncontestedInv, Handling, Ran, Fits, InFlight
<1>5. ASSUME NEW q \in Process PROVE KillInv(q)'
  BY DEF IInv, TypeOK, KillInv, CallInv, DecisionInv, Handling, Ran
<1>6. ASSUME NEW x \in Call, NEW y \in Call PROVE KeyInv(x, y)'
  BY DEF IInv, TypeOK, KeyInv, Holds, CallInv, DecisionInv, UncontestedInv, Handling, Fits, Ran
<1> QED
  BY <1>1, <1>2, <1>3, <1>4, <1>5, <1>6 DEF IInv

LEMMA ResolveReviewCaseIInv ==
  ASSUME IInv, NEW d \in Decision, ResolveReviewCase(d)
  PROVE  IInv'
<1> USE EngineAssumption DEF ResolveReviewCase, Verdict, NoteKill, NoteContest, Goto, Process, Row, inputs, rows, seen
<1>1. TypeOK'
  BY DEF IInv, TypeOK, ExecStatus, Phase
<1>2. ASSUME NEW x \in Call PROVE CallInv(x)'
  BY DEF IInv, TypeOK, CallInv, DecisionInv, Handling, Fits, Ran
<1>3. ASSUME NEW y \in Decision PROVE DecisionInv(y)'
  BY DEF IInv, TypeOK, CallInv, DecisionInv, Handling, Ran
<1>4. ASSUME NEW y \in Decision PROVE UncontestedInv(y)'
  BY DEF IInv, TypeOK, CallInv, DecisionInv, UncontestedInv, Handling, Ran, Fits, InFlight
<1>5. ASSUME NEW q \in Process PROVE KillInv(q)'
  BY DEF IInv, TypeOK, KillInv, CallInv, DecisionInv, Handling, Ran
<1>6. ASSUME NEW x \in Call, NEW y \in Call PROVE KeyInv(x, y)'
  BY DEF IInv, TypeOK, KeyInv, Holds, CallInv, DecisionInv, UncontestedInv, Handling, Fits, Ran
<1> QED
  BY <1>1, <1>2, <1>3, <1>4, <1>5, <1>6 DEF IInv

LEMMA ResumeApprovedIInv ==
  ASSUME IInv, NEW d \in Decision, ResumeApproved(d)
  PROVE  IInv'
<1> USE EngineAssumption DEF ResumeApproved, Awaiting, Goto, Process, Row, inputs, rows, seen
<1>1. TypeOK'
  BY DEF IInv, TypeOK, ExecStatus, Phase
<1>2. ASSUME NEW x \in Call PROVE CallInv(x)'
  BY DEF IInv, TypeOK, CallInv, DecisionInv, Handling, Fits, Ran
<1>3. ASSUME NEW y \in Decision PROVE DecisionInv(y)'
  BY DEF IInv, TypeOK, CallInv, DecisionInv, Handling, Ran
<1>4. ASSUME NEW y \in Decision PROVE UncontestedInv(y)'
  BY DEF IInv, TypeOK, CallInv, DecisionInv, UncontestedInv, Handling, Ran, Fits, InFlight
<1>5. ASSUME NEW q \in Process PROVE KillInv(q)'
  BY DEF IInv, TypeOK, KillInv, CallInv, DecisionInv, Handling, Ran
<1>6. ASSUME NEW x \in Call, NEW y \in Call PROVE KeyInv(x, y)'
  BY DEF IInv, TypeOK, KeyInv, Holds, CallInv, DecisionInv, UncontestedInv, Handling, Fits, Ran
<1> QED
  BY <1>1, <1>2, <1>3, <1>4, <1>5, <1>6 DEF IInv

LEMMA ResumeNothingIInv ==
  ASSUME IInv, NEW d \in Decision, ResumeNothing(d)
  PROVE  IInv'
<1> USE EngineAssumption DEF ResumeNothing, Awaiting, Goto, Process, Row, inputs, rows, seen
<1>1. TypeOK'
  BY DEF IInv, TypeOK, ExecStatus, Phase
<1>2. ASSUME NEW x \in Call PROVE CallInv(x)'
  BY DEF IInv, TypeOK, CallInv, DecisionInv, Handling, Fits, Ran
<1>3. ASSUME NEW y \in Decision PROVE DecisionInv(y)'
  BY DEF IInv, TypeOK, CallInv, DecisionInv, Handling, Ran
<1>4. ASSUME NEW y \in Decision PROVE UncontestedInv(y)'
  BY DEF IInv, TypeOK, CallInv, DecisionInv, UncontestedInv, Handling, Ran, Fits, InFlight
<1>5. ASSUME NEW q \in Process PROVE KillInv(q)'
  BY DEF IInv, TypeOK, KillInv, CallInv, DecisionInv, Handling, Ran
<1>6. ASSUME NEW x \in Call, NEW y \in Call PROVE KeyInv(x, y)'
  BY DEF IInv, TypeOK, KeyInv, Holds, CallInv, DecisionInv, UncontestedInv, Handling, Fits, Ran
<1> QED
  BY <1>1, <1>2, <1>3, <1>4, <1>5, <1>6 DEF IInv

LEMMA EnableKillSwitchIInv ==
  ASSUME IInv, NEW a \in Action, EnableKillSwitch(a)
  PROVE  IInv'
<1> USE EngineAssumption DEF EnableKillSwitch, Goto, Process, Row, inputs, rows, seen
<1>1. TypeOK'
  BY DEF IInv, TypeOK, ExecStatus, Phase
<1>2. ASSUME NEW x \in Call PROVE CallInv(x)'
  BY DEF IInv, TypeOK, CallInv, DecisionInv, Handling, Fits, Ran
<1>3. ASSUME NEW y \in Decision PROVE DecisionInv(y)'
  BY DEF IInv, TypeOK, CallInv, DecisionInv, Handling, Ran
<1>4. ASSUME NEW y \in Decision PROVE UncontestedInv(y)'
  BY DEF IInv, TypeOK, CallInv, DecisionInv, UncontestedInv, Handling, Ran, Fits, InFlight
<1>5. ASSUME NEW q \in Process PROVE KillInv(q)'
  BY DEF IInv, TypeOK, KillInv, CallInv, DecisionInv, Handling, Ran
<1>6. ASSUME NEW x \in Call, NEW y \in Call PROVE KeyInv(x, y)'
  BY DEF IInv, TypeOK, KeyInv, Holds, CallInv, DecisionInv, UncontestedInv, Handling, Fits, Ran
<1> QED
  BY <1>1, <1>2, <1>3, <1>4, <1>5, <1>6 DEF IInv

LEMMA DisableKillSwitchIInv ==
  ASSUME IInv, NEW a \in Action, DisableKillSwitch(a)
  PROVE  IInv'
<1> USE EngineAssumption DEF DisableKillSwitch, Goto, Process, Row, inputs, rows, seen
<1>1. TypeOK'
  BY DEF IInv, TypeOK, ExecStatus, Phase
<1>2. ASSUME NEW x \in Call PROVE CallInv(x)'
  BY DEF IInv, TypeOK, CallInv, DecisionInv, Handling, Fits, Ran
<1>3. ASSUME NEW y \in Decision PROVE DecisionInv(y)'
  BY DEF IInv, TypeOK, CallInv, DecisionInv, Handling, Ran
<1>4. ASSUME NEW y \in Decision PROVE UncontestedInv(y)'
  BY DEF IInv, TypeOK, CallInv, DecisionInv, UncontestedInv, Handling, Ran, Fits, InFlight
<1>5. ASSUME NEW q \in Process PROVE KillInv(q)'
  BY DEF IInv, TypeOK, KillInv, CallInv, DecisionInv, Handling, Ran
<1>6. ASSUME NEW x \in Call, NEW y \in Call PROVE KeyInv(x, y)'
  BY DEF IInv, TypeOK, KeyInv, Holds, CallInv, DecisionInv, UncontestedInv, Handling, Fits, Ran
<1> QED
  BY <1>1, <1>2, <1>3, <1>4, <1>5, <1>6 DEF IInv

-----------------------------------------------------------------------------

LEMMA StutterIInv == IInv /\ UNCHANGED vars => IInv'
<1> SUFFICES ASSUME IInv, UNCHANGED vars PROVE IInv'
  OBVIOUS
<1> USE DEF vars, inputs, rows, seen, Row
<1>1. TypeOK'
  BY DEF IInv, TypeOK
<1>2. ASSUME NEW x \in Call PROVE CallInv(x)'
  BY DEF IInv, CallInv
<1>3. ASSUME NEW y \in Decision PROVE DecisionInv(y)' /\ UncontestedInv(y)'
  BY DEF IInv, DecisionInv, UncontestedInv, InFlight
<1>4. ASSUME NEW q \in Process PROVE KillInv(q)'
  BY DEF IInv, KillInv
<1>5. ASSUME NEW x \in Call, NEW y \in Call PROVE KeyInv(x, y)'
  BY DEF IInv, KeyInv, Holds
<1> QED
  BY <1>1, <1>2, <1>3, <1>4, <1>5 DEF IInv

LEMMA NextIInv == IInv /\ [Next]_vars => IInv'
<1> SUFFICES ASSUME IInv, [Next]_vars PROVE IInv'
  OBVIOUS
<1>1. ASSUME NEW c \in Call, CallStep(c) PROVE IInv'
  BY <1>1, DeduplicateIInv, PassLookupIInv, InsertQueuedIInv, GuardIInv, BlockIInv, RequestApprovalIInv, OpenReviewCaseIInv, AwaitApprovalIInv
     DEF CallStep
<1>2. ASSUME NEW p \in Process, HandlerStep(p) \/ CutOff(p) PROVE IInv'
  BY <1>2, StartHandlerIInv, HandlerReturnsIInv, HandlerThrowsIInv, CompleteIInv, RecordIInv, RecordThrowsIInv, FailIInv, CutOffIInv
     DEF HandlerStep
<1>3. ASSUME NEW d \in Decision, DecisionStep(d) PROVE IInv'
  BY <1>3, BeginDecisionIInv, RefuseDecisionIInv, DecideIInv, ResolveReviewCaseIInv, ResumeApprovedIInv, ResumeNothingIInv
     DEF DecisionStep
<1>4. ASSUME NEW a \in Action, EnableKillSwitch(a) \/ DisableKillSwitch(a) PROVE IInv'
  BY <1>4, EnableKillSwitchIInv, DisableKillSwitchIInv
<1>5. CASE UNCHANGED vars
  BY <1>5, StutterIInv
<1> QED
  BY <1>1, <1>2, <1>3, <1>4, <1>5 DEF Next

\* IInv holds in every reachable state of the engine.
THEOREM InductiveInvariant == Spec => []IInv
BY InitIInv, NextIInv, PTL DEF Spec

\* Type correctness, for any calls, decisions, actions, keys and policies.
THEOREM TypeCorrect == Spec => []TypeOK
<1>1. IInv => TypeOK
  BY DEF IInv
<1> QED
  BY <1>1, InductiveInvariant, PTL

\* The routing of executeAction sends a request to a gate exactly when its
\* handler and policy demand one: a missing policy row fails closed.
LEMMA RoutingIsFailClosed ==
  \A r \in Requests : Route(r) = "start" <=> ~MustBeApproved(r)
<1> SUFFICES ASSUME NEW r \in Requests
             PROVE  Route(r) = "start" <=> ~MustBeApproved(r)
  OBVIOUS
<1> DEFINE p == Policies[r.action]
<1>1. p \in ApprovalPolicy
  BY EngineAssumption DEF ExecuteActionInput
<1>2. ApprovalRequired(r.action) <=> ~p.present \/ p.requireApproval \/ p.ruleMatches
  <2>1. ~emergencyBypass(p, "action_execution", FALSE)
    BY DEF emergencyBypass
  <2>2. CASE ~p.present
    BY <2>2 DEF ApprovalRequired, evaluateApprovalPolicy
  <2>3. CASE p.present
    BY <2>1, <2>3 DEF ApprovalRequired, evaluateApprovalPolicy
  <2> QED
    BY <2>2, <2>3
<1> QED
  BY <1>2 DEF Route, MustBeApproved

\* No interleaving, and no request cut off, lets a gated action take effect
\* without an approval written for it.
THEOREM ApprovalGate == Spec => []GatedRunsOnlyWhenGranted
<1>1. IInv => GatedRunsOnlyWhenGranted
  BY RoutingIsFailClosed DEF IInv, TypeOK, Process, CallInv, DecisionInv, GatedRunsOnlyWhenGranted
<1> QED
  BY <1>1, InductiveInvariant, PTL

\* A row takes effect at most once unless two decisions on it overlapped.
THEOREM AtMostOnce == Spec => []AtMostOnceUnlessContested
<1>1. ASSUME IInv PROVE AtMostOnceUnlessContested
  <2> SUFFICES ASSUME NEW p \in applied, NEW q \in applied, Row(p) = Row(q),
                      Row(p) \notin contested
               PROVE  p = q
    BY DEF AtMostOnceUnlessContested
  <2>1. p \in Process /\ q \in Process
    BY <1>1 DEF IInv, TypeOK
  <2>2. \A d \in Decision : d \in applied => Route(req[target[d]]) # "start"
    BY <1>1 DEF IInv, DecisionInv
  <2>3. \A c \in Call : c \in applied => Route(req[c]) = "start"
    BY <1>1 DEF IInv, CallInv
  <2>4. CASE p \in Call \/ q \in Call
    BY <2>1, <2>2, <2>3, <2>4, EngineAssumption DEF Process, Row
  <2>5. CASE p \notin Call /\ q \notin Call
    BY <1>1, <2>1, <2>5 DEF IInv, UncontestedInv, Process, Row
  <2> QED
    BY <2>4, <2>5
<1> QED
  BY <1>1, InductiveInvariant, PTL

\* An action whose request stands rejected has not run and will not.
THEOREM RejectionHolds == Spec => []RejectedNeverRuns
<1>1. ASSUME IInv PROVE RejectedNeverRuns
  <2> SUFFICES ASSUME NEW c \in Call \ contested, approval[c] = "rejected"
               PROVE  /\ \A p \in applied : Row(p) # c
                      /\ \A p \in Process :
                            pc[p] \in {"resume", "start", "run"} => Row(p) # c
    BY DEF RejectedNeverRuns
  <2>1. Route(req[c]) = "request" /\ c \notin applied
        /\ pc[c] \notin {"resume", "start", "run"}
    BY <1>1 DEF IInv, CallInv, Handling
  <2>2. ASSUME NEW d \in Decision, target[d] = c
        PROVE  d \notin applied /\ pc[d] \notin {"resume", "start", "run"}
    BY <1>1, <2>2 DEF IInv, UncontestedInv, DecisionInv, Handling
  <2> QED
    BY <1>1, <2>1, <2>2 DEF IInv, TypeOK, Row, Process
<1> QED
  BY <1>1, InductiveInvariant, PTL

\* executeAction never passes its check of a switch enabled since before it.
THEOREM KillAtAdmission == Spec => []KillRespectedAtAdmission
<1>1. IInv => KillRespectedAtAdmission
  BY DEF IInv, KillInv, CallInv, Ran, Row, Process, KillRespectedAtAdmission
<1> QED
  BY <1>1, InductiveInvariant, PTL

\* Two unforced calls hold one key only if their lookups raced, or overlapping
\* decisions revived one of their rows.
THEOREM KeyIsExclusive == Spec => []OneLiveRowPerKey
<1>1. IInv => OneLiveRowPerKey
  BY DEF IInv, KeyInv, Holds, OneLiveRowPerKey
<1> QED
  BY <1>1, InductiveInvariant, PTL

-----------------------------------------------------------------------------
\* The engine implements the life cycle of ActionLifecycle, for any values of its
\* constants: the inductive invariant says what a row's status is when a process acts on
\* it, and for which rows that is known of undisturbed ones only.

\* The refinement mapping, by name.
gatedBar == [c \in Call |-> MustBeApproved(req[c])]
approvedBar == {target[d] : d \in granted}
effectBar == [c \in Call |-> {p \in applied : Row(p) = c}]

LEMMA BarsKept ==
  ASSUME UNCHANGED inputs
  PROVE  /\ UNCHANGED gatedBar
         /\ UNCHANGED granted => UNCHANGED approvedBar
         /\ UNCHANGED applied => UNCHANGED effectBar
BY DEF inputs, gatedBar, approvedBar, effectBar, Row

LEMMA LifecycleInit == Init => Lifecycle!Init
<1> SUFFICES ASSUME Init PROVE Lifecycle!Init
  OBVIOUS
<1>1. gatedBar \in [Call -> BOOLEAN]
  BY DEF gatedBar, MustBeApproved
<1>2. approvedBar = {} /\ effectBar = [c \in Call |-> {}]
  BY DEF Init, approvedBar, effectBar
<1> QED
  BY <1>1, <1>2 DEF Init, Lifecycle!Init, gatedBar, approvedBar, effectBar

\* Steps that no observer of the row sees.
LEMMA InvisibleStep ==
  ASSUME UNCHANGED <<inputs, status, granted, applied, contested>>
  PROVE  UNCHANGED Lifecycle!vars
BY BarsKept DEF Lifecycle!vars, gatedBar, approvedBar, effectBar

\* A step of one row that only moves its status or its effects.
LEMMA VisibleStep ==
  ASSUME NEW c \in Call, UNCHANGED <<inputs, granted, contested>>,
         \/ /\ UNCHANGED applied
            /\ \/ Lifecycle!Becomes(c, {"absent"}, "queued")
               \/ Lifecycle!Becomes(c, {"queued"}, "blocked")
               \/ gatedBar[c] /\ Lifecycle!Becomes(c, {"queued"}, "awaiting_approval")
               \/ ~gatedBar[c] /\ Lifecycle!Becomes(c, {"queued"}, "running")
               \/ c \in approvedBar /\ Lifecycle!Becomes(c, {"awaiting_approval"}, "running")
               \/ effectBar[c] # {} /\ Lifecycle!Becomes(c, {"running"}, "completed")
               \/ Lifecycle!Becomes(c, {"running", "completed"}, "failed")
         \/ /\ UNCHANGED status
            /\ status[c] = "running" /\ effectBar[c] = {}
            /\ \E p \in Process : effectBar' = [effectBar EXCEPT ![c] = {p}]
  PROVE  Lifecycle!Next
<1>1. UNCHANGED <<gatedBar, approvedBar, contested>>
  BY BarsKept
<1>2. UNCHANGED applied => UNCHANGED effectBar
  BY BarsKept
<1>3. Lifecycle!Advance(c)
  BY <1>1, <1>2
     DEF Lifecycle!Advance, Lifecycle!Open, Lifecycle!Refuse, Lifecycle!Hold, Lifecycle!Start,
         Lifecycle!TakeEffect, Lifecycle!Succeed, Lifecycle!GiveUp,
         gatedBar, approvedBar, effectBar
<1> QED
  BY <1>1, <1>3 DEF Lifecycle!Next, gatedBar

\* A step of a row whose decisions overlap.
LEMMA LapsedStep ==
  ASSUME NEW c \in Call, UNCHANGED <<inputs, granted, contested>>,
         c \in contested, c \in approvedBar,
         \/ UNCHANGED status
         \/ \E s \in Ran : Lifecycle!Becomes(c, Ran, s),
         \/ UNCHANGED applied
         \/ \E p \in Process : effectBar' = [effectBar EXCEPT ![c] = @ \cup {p}]
  PROVE  Lifecycle!Next
<1>1. UNCHANGED <<gatedBar, approvedBar, contested>>
  BY BarsKept
<1>2. UNCHANGED applied => UNCHANGED effectBar
  BY BarsKept
<1>3. Lifecycle!Lapse(c)
  BY <1>1, <1>2 DEF Lifecycle!Lapse, Lifecycle!Ran, Ran, gatedBar, approvedBar, effectBar
<1> QED
  BY <1>1, <1>3 DEF Lifecycle!Next, gatedBar

\* A reviewer's step: an approval, the discovery of an overlap, or both.
LEMMA DecidedStep ==
  ASSUME NEW c \in Call, UNCHANGED <<inputs, status, applied>>,
         approvedBar' = approvedBar \/ approvedBar' = approvedBar \cup {c},
         contested' = contested \/ contested' = contested \cup {c}
  PROVE  Lifecycle!Next
<1>1. UNCHANGED <<gatedBar, effectBar>>
  BY BarsKept
<1>2. Lifecycle!Decided(c)
  BY <1>1 DEF Lifecycle!Decided, Lifecycle!Approve, Lifecycle!Disturb,
              gatedBar, approvedBar, effectBar
<1> QED
  BY <1>1, <1>2 DEF Lifecycle!Next, gatedBar

LEMMA EffectAdded ==
  ASSUME TypeOK, UNCHANGED inputs, NEW p \in Process, applied' = applied \cup {p}
  PROVE  /\ Row(p) \in Call
         /\ effectBar' = [effectBar EXCEPT ![Row(p)] = @ \cup {p}]
<1>1. Row(p) \in Call
  BY DEF TypeOK, Row, Process
<1>2. \A q : Row(q)' = Row(q)
  BY DEF Row, inputs
<1> QED
  BY <1>1, <1>2 DEF effectBar

\* What the inductive invariant says of the row a handler step is about.
LEMMA HandledRow ==
  ASSUME IInv, NEW p \in Process, pc[p] \in Handling
  PROVE  /\ Row(p) \in Call
         /\ p \in Call =>
                /\ ~gatedBar[p] /\ Fits(pc[p], status[p])
                /\ pc[p] = "start" => status[p] = "queued"
         /\ p \notin Call =>
                /\ Row(p) \in approvedBar
                /\ status[Row(p)] \in Ran \cup {"awaiting_approval"}
                /\ pc[p] # "start" => status[Row(p)] \in Ran
                /\ Row(p) \notin contested => Fits(pc[p], status[Row(p)])
                /\ Row(p) \notin contested /\ pc[p] = "start" =>
                        status[Row(p)] = "awaiting_approval"
         /\ Row(p) \notin contested \/ p \in Call =>
                /\ pc[p] \in {"start", "run"} => effectBar[Row(p)] = {}
                /\ pc[p] = "complete" => effectBar[Row(p)] # {}
<1> USE DEF Row, Process
<1>1. CASE p \in Call
  <2>1. Route(req[p]) = "start"
    BY <1>1 DEF IInv, CallInv
  <2>2. ~gatedBar[p]
    BY <1>1, <2>1, RoutingIsFailClosed DEF IInv, TypeOK, gatedBar
  <2>3. \A d \in Decision : d \in applied => target[d] # p
    BY <2>1 DEF IInv, DecisionInv
  <2>4. \A q \in applied : Row(q) = p => q = p
    BY <2>3 DEF IInv, TypeOK
  <2>5. /\ pc[p] \in {"start", "run"} => effectBar[p] = {}
        /\ pc[p] = "complete" => effectBar[p] # {}
    BY <1>1, <2>4 DEF IInv, CallInv, effectBar
  <2>6. /\ Fits(pc[p], status[p])
        /\ pc[p] = "start" => status[p] = "queued"
    BY <1>1 DEF IInv, CallInv
  <2> QED
    BY <1>1, <2>2, <2>5, <2>6
<1>2. CASE p \notin Call
  <2>1. p \in Decision /\ target[p] \in Call
    BY <1>2 DEF IInv, TypeOK
  <2>2. /\ p \in granted /\ Route(req[target[p]]) # "start"
        /\ status[target[p]] \in Ran \cup {"awaiting_approval"}
        /\ pc[p] # "start" => status[target[p]] \in Ran
        /\ pc[p] = "complete" => p \in applied
    BY <2>1 DEF IInv, DecisionInv, Handling
  <2>3. target[p] \notin applied
    BY <2>1, <2>2 DEF IInv, CallInv
  <2>4. target[p] \notin contested =>
            /\ Fits(pc[p], status[target[p]])
            /\ pc[p] = "start" => status[target[p]] = "awaiting_approval"
            /\ pc[p] \in {"start", "run"} => \A e \in Decision : e \in applied => target[e] # target[p]
    BY <2>1 DEF IInv, UncontestedInv
  <2>5. target[p] \notin contested /\ pc[p] \in {"start", "run"} => effectBar[target[p]] = {}
    BY <2>1, <2>3, <2>4 DEF IInv, TypeOK, effectBar
  <2>6. pc[p] = "complete" => effectBar[target[p]] # {}
    BY <1>2, <2>1, <2>2 DEF effectBar
  <2> QED
    BY <1>2, <2>1, <2>2, <2>4, <2>5, <2>6 DEF approvedBar
<1> QED
  BY <1>1, <1>2

LEMMA HandlerSimulated ==
  ASSUME IInv, NEW p \in Process, HandlerStep(p)
  PROVE  Lifecycle!Next \/ UNCHANGED Lifecycle!vars
<1> DEFINE c == Row(p)
<1> USE DEF Lifecycle!Becomes, seen, rows
<1>0. TypeOK
  BY DEF IInv
<1>1. CASE StartHandler(p)
  <2>1. pc[p] \in Handling /\ pc[p] = "start" /\ status' = [status EXCEPT ![c] = "running"]
        /\ UNCHANGED <<inputs, granted, contested, applied>>
    BY <1>1 DEF StartHandler, Handling
  <2>2. CASE status[c] \in {"queued", "awaiting_approval"}
    BY <2>1, <2>2, HandledRow, VisibleStep DEF Ran, Row
  <2>3. CASE status[c] \notin {"queued", "awaiting_approval"}
    BY <2>1, <2>3, HandledRow, LapsedStep DEF Ran, Row
  <2> QED
    BY <2>2, <2>3
<1>2. CASE HandlerReturns(p)
  <2>1. pc[p] \in Handling /\ pc[p] = "run" /\ applied' = applied \cup {p}
        /\ UNCHANGED <<inputs, status, granted, contested>>
    BY <1>2 DEF HandlerReturns, Handling
  <2>2. c \in Call /\ effectBar' = [effectBar EXCEPT ![c] = @ \cup {p}]
    BY <1>0, <2>1, EffectAdded
  <2>3. CASE c \notin contested \/ p \in Call
    <3>1. status[c] = "running" /\ effectBar[c] = {}
      BY <2>1, <2>3, HandledRow DEF Fits, Row
    <3>2. effectBar' = [effectBar EXCEPT ![c] = {p}]
      BY <2>2, <3>1 DEF effectBar
    <3> QED
      BY <2>1, <2>2, <3>1, <3>2, VisibleStep
  <2>4. CASE c \in contested /\ p \notin Call
    BY <2>1, <2>2, <2>4, HandledRow, LapsedStep
  <2> QED
    BY <2>3, <2>4
<1>3. CASE Complete(p)
  <2>1. pc[p] \in Handling /\ pc[p] = "complete" /\ status' = [status EXCEPT ![c] = "completed"]
        /\ UNCHANGED <<inputs, granted, contested, applied>>
    BY <1>3 DEF Complete, Handling
  <2>2. CASE c \notin contested \/ p \in Call
    BY <2>1, <2>2, HandledRow, VisibleStep DEF Fits, Row
  <2>3. CASE c \in contested /\ p \notin Call
    BY <2>1, <2>3, HandledRow, LapsedStep DEF Ran
  <2> QED
    BY <2>2, <2>3
<1>4. CASE Fail(p)
  <2>1. pc[p] \in Handling /\ pc[p] = "fail" /\ status' = [status EXCEPT ![c] = "failed"]
        /\ UNCHANGED <<inputs, granted, contested, applied>>
    BY <1>4 DEF Fail, Handling
  <2>2. CASE c \notin contested \/ p \in Call
    BY <2>1, <2>2, HandledRow, VisibleStep DEF Fits, Row
  <2>3. CASE c \in contested /\ p \notin Call
    BY <2>1, <2>3, HandledRow, LapsedStep DEF Ran
  <2> QED
    BY <2>2, <2>3
<1>5. CASE HandlerThrows(p) \/ Record(p) \/ RecordThrows(p)
  BY <1>5, InvisibleStep DEF HandlerThrows, Record, RecordThrows
<1> QED
  BY <1>1, <1>2, <1>3, <1>4, <1>5 DEF HandlerStep

LEMMA CallSimulated ==
  ASSUME IInv, NEW c \in Call, CallStep(c)
  PROVE  Lifecycle!Next \/ UNCHANGED Lifecycle!vars
<1> USE DEF Lifecycle!Becomes, seen, rows
<1>1. CASE InsertQueued(c)
  BY <1>1, VisibleStep DEF InsertQueued, IInv, CallInv
<1>2. CASE Block(c)
  BY <1>2, VisibleStep DEF Block, IInv, CallInv
<1>3. CASE AwaitApproval(c)
  <2>1. gatedBar[c]
    BY <1>3, RoutingIsFailClosed DEF AwaitApproval, IInv, TypeOK, CallInv, gatedBar
  <2> QED
    BY <1>3, <2>1, VisibleStep DEF AwaitApproval, IInv, CallInv
<1>4. CASE Deduplicate(c) \/ PassLookup(c) \/ Guard(c) \/ RequestApproval(c) \/ OpenReviewCase(c)
  BY <1>4, InvisibleStep DEF Deduplicate, PassLookup, Guard, RequestApproval, OpenReviewCase
<1> QED
  BY <1>1, <1>2, <1>3, <1>4 DEF CallStep

LEMMA DecisionSimulated ==
  ASSUME IInv, NEW d \in Decision, DecisionStep(d)
  PROVE  Lifecycle!Next \/ UNCHANGED Lifecycle!vars
<1> USE DEF seen, rows
<1>1. target[d] \in Call
  BY DEF IInv, TypeOK
<1>2. ASSUME UNCHANGED inputs, Verdict(d)
      PROVE  approvedBar' = approvedBar \/ approvedBar' = approvedBar \cup {target[d]}
  BY <1>2 DEF Verdict, approvedBar, inputs
<1>3. CASE BeginDecision(d)
  BY <1>1, <1>3, BarsKept, DecidedStep DEF BeginDecision, NoteContest
<1>4. CASE Decide(d)
  BY <1>1, <1>2, <1>4, DecidedStep DEF Decide
<1>5. CASE ResolveReviewCase(d)
  BY <1>1, <1>2, <1>5, DecidedStep DEF ResolveReviewCase, NoteContest
<1>6. CASE RefuseDecision(d) \/ ResumeApproved(d) \/ ResumeNothing(d)
  BY <1>6, InvisibleStep DEF RefuseDecision, ResumeApproved, ResumeNothing
<1> QED
  BY <1>3, <1>4, <1>5, <1>6 DEF DecisionStep

\* The engine implements ActionLifecycle: every step of every request is one
\* step of one row's life cycle, or none.
THEOREM EngineImplementsLifecycle == Spec => ImplementsLifecycle
<1>1. ASSUME IInv, [Next]_vars PROVE [Lifecycle!Next]_(Lifecycle!vars)
  <2>1. ASSUME NEW a \in Action, EnableKillSwitch(a) \/ DisableKillSwitch(a)
        PROVE  UNCHANGED Lifecycle!vars
    BY <2>1, InvisibleStep DEF EnableKillSwitch, DisableKillSwitch, rows, seen
  <2>2. ASSUME NEW p \in Process, CutOff(p) PROVE UNCHANGED Lifecycle!vars
    BY <2>2, InvisibleStep DEF CutOff, rows, seen
  <2>3. CASE UNCHANGED vars
    BY <2>3, InvisibleStep DEF vars, rows, seen
  <2> QED
    BY <1>1, <2>1, <2>2, <2>3, CallSimulated, HandlerSimulated, DecisionSimulated DEF Next
<1> QED
  BY <1>1, LifecycleInit, InductiveInvariant, PTL DEF Spec, ImplementsLifecycle, Lifecycle!Spec

=============================================================================
