------------------------ MODULE ApplicationPageProofs ------------------------
(***************************************************************************)
(* Theorems about ApplicationPage, for any applications, any number of     *)
(* loads, changes of address, actions, reviews and failures: what the two  *)
(* request counters of ApplicationDetailPage.tsx guarantee.                *)
(***************************************************************************)
EXTENDS ApplicationPage, TLAPS

-----------------------------------------------------------------------------
(* The inductive invariant *)

(* The newest load() was sent from the address on screen; those beyond it  *)
(* were not sent, and an answer is of the application asked for.           *)
LoadInv ==
    /\ loads[loadRef].at = route
    /\ \A i \in Ids : i > loadRef => loads[i].state = "none"
    /\ \A i \in Ids :
         /\ loads[i].state \in {"none", "sent", "failed"} => loads[i].answer = Nothing
         /\ loads[i].state = "ok" => loads[i].answer.of = loads[i].of

(* Nobody is told of a version the server does not have, and the answer to *)
(* the newest load() has every version anybody was told of; a change under *)
(* way has room for its version.                                           *)
VersionInv ==
    /\ \A a \in Apps : acked[a] <= dossier[a].version
    /\ action.state = "sent" => dossier[action.of].version < MaxVersions
    /\ action.state = "ok" => action.version <= dossier[action.of].version
    /\ loads[loadRef].state = "ok" => loads[loadRef].answer.version >= acked[loads[loadRef].of]

(* An answer of the trail is the page asked for. *)
TrailInv ==
    \A i \in Ids : audits[i].state = "ok" =>
        audits[i].answer.of = audits[i].of /\ audits[i].answer.page = audits[i].page

IInv == TypeOK /\ LoadInv /\ VersionInv /\ TrailInv
        /\ ShownIsOfAddress /\ AcknowledgedIsShown /\ TrailIsNewestAsked

Assumptions == AppsAssumption /\ BoundAssumption

-----------------------------------------------------------------------------
(* Types *)

LEMMA Constants ==
    ASSUME Assumptions
    PROVE  /\ MaxDocuments \in Nat /\ MaxDocuments >= 1
           /\ MaxLoads \in Nat /\ MaxLoads >= 1
           /\ MaxVersions \in Nat /\ MaxVersions >= 1
           /\ MaxMoves \in Nat /\ MaxFaults \in Nat
           /\ AnyApp \in Apps
           /\ Nothing \in Shown /\ NoTrail \in Trail /\ Idle \in Action
           /\ NoLoad \in LoadCall /\ NoAudit \in AuditCall
  <1>1. /\ MaxDocuments \in Nat /\ MaxDocuments >= 1
        /\ MaxLoads \in Nat /\ MaxLoads >= 1
        /\ MaxVersions \in Nat /\ MaxVersions >= 1
        /\ MaxMoves \in Nat /\ MaxFaults \in Nat
    BY DEF Assumptions, BoundAssumption
  <1>2. AnyApp \in Apps
    BY DEF Assumptions, AppsAssumption, AnyApp
  <1> HIDE DEF AnyApp
  <1>3. Nothing \in Shown /\ NoTrail \in Trail
    BY <1>1 DEF Nothing, Shown, NoTrail, Trail, Statuses, Versions, AuditPages
  <1>4. Idle \in Action
    BY <1>1, <1>2 DEF Idle, Action, Kinds, AuditPages, Versions
  <1>5. NoLoad \in LoadCall
    BY <1>2, <1>3 DEF NoLoad, LoadCall, CallStates
  <1>6. NoAudit \in AuditCall
    BY <1>1, <1>2, <1>3 DEF NoAudit, AuditCall, CallStates, AuditPages
  <1> QED
    BY <1>1, <1>2, <1>3, <1>4, <1>5, <1>6

(* A call of load() adds one request, and it is the newest. *)
LEMMA LoadSends ==
    ASSUME Assumptions, TypeOK, NEW a \in Apps, NEW here \in Apps, Load(a, here)
    PROVE  /\ loads' \in [Ids -> LoadCall] /\ loadRef' \in Ids /\ loadRef' = loadRef + 1
           /\ loads'[loadRef'].state = "sent" /\ loads'[loadRef'].of = a
           /\ loads'[loadRef'].at = here /\ loads'[loadRef'].answer = Nothing
           /\ \A i \in Ids : i # loadRef' => loads'[i] = loads[i]
  <1> DEFINE call == [NoLoad EXCEPT !.state = "sent", !.of = a, !.at = here]
  <1>1. loadRef \in Ids /\ loads \in [Ids -> LoadCall] /\ MaxLoads \in Nat
    BY Constants DEF TypeOK
  <1>2. loadRef' = loadRef + 1 /\ loadRef' \in Ids
    BY <1>1 DEF Load, Ids
  <1>3. /\ call.state = "sent" /\ call.of = a /\ call.at = here /\ call.answer = Nothing
        /\ call \in [state : {"sent"}, of : {a}, at : {here}, answer : {Nothing}]
    BY DEF NoLoad
  <1>4. loads' = [loads EXCEPT ![loadRef + 1] = call]
    BY DEF Load
  <1> HIDE DEF call, Nothing
  <1>5. call \in LoadCall
    BY <1>3, Constants DEF LoadCall, CallStates
  <1> QED
    BY <1>1, <1>2, <1>3, <1>4, <1>5

LEMMA LoadAuditSends ==
    ASSUME Assumptions, TypeOK, NEW a \in Apps, NEW p \in AuditPages, LoadAudit(a, p)
    PROVE  /\ audits' \in [Ids -> AuditCall] /\ auditRef' \in Ids /\ auditRef' = auditRef + 1
           /\ audits'[auditRef'].state = "sent"
           /\ \A i \in Ids : i # auditRef' => audits'[i] = audits[i]
           /\ auditError' = FALSE
  <1> DEFINE call == [NoAudit EXCEPT !.state = "sent", !.of = a, !.page = p]
  <1>1. auditRef \in Ids /\ audits \in [Ids -> AuditCall] /\ MaxLoads \in Nat
    BY Constants DEF TypeOK
  <1>2. auditRef' = auditRef + 1 /\ auditRef' \in Ids
    BY <1>1 DEF LoadAudit, Ids
  <1>3. /\ call.state = "sent"
        /\ call \in [state : {"sent"}, of : {a}, page : {p}, answer : {NoTrail}]
    BY DEF NoAudit
  <1>4. audits' = [audits EXCEPT ![auditRef + 1] = call] /\ auditError' = FALSE
    BY DEF LoadAudit
  <1> HIDE DEF call, NoTrail
  <1>5. call \in AuditCall
    BY <1>3, Constants DEF AuditCall, CallStates
  <1> QED
    BY <1>1, <1>2, <1>3, <1>4, <1>5

(* An application with its change is one the server may have. *)
LEMMA AfterType ==
    ASSUME Assumptions, NEW d \in Dossier, NEW kind \in Kinds, Allowed(d, kind),
           d.version < MaxVersions
    PROVE  After(d, kind) \in Dossier /\ After(d, kind).version = d.version + 1
  <1>1. /\ d.status \in Statuses /\ d.documents \in 0..MaxDocuments /\ d.version \in Nat
        /\ d.version + 1 \in Versions /\ MaxDocuments \in Nat
    BY Constants DEF Dossier, Versions
  <1>2. /\ kind = "upload" => d.documents + 1 \in 0..MaxDocuments
        /\ kind = "remove" => d.documents - 1 \in 0..MaxDocuments
    BY <1>1 DEF Allowed
  <1>3. "submitted" \in Statuses
    BY DEF Statuses
  <1>4. CASE kind = "upload"
    BY <1>1, <1>2, <1>4 DEF After, Dossier
  <1>5. CASE kind = "remove"
    BY <1>1, <1>2, <1>5 DEF After, Dossier
  <1>6. CASE kind = "submit"
    BY <1>1, <1>3, <1>6 DEF After, Dossier
  <1> QED
    BY <1>4, <1>5, <1>6 DEF Kinds

(* What the server shows of an application. *)
LEMMA SnapshotType ==
    ASSUME TypeOK, NEW a \in Apps
    PROVE  Snapshot(a) \in Shown /\ Snapshot(a).of = a /\ Snapshot(a).version = dossier[a].version
  <1>1. dossier[a] \in Dossier
    BY DEF TypeOK
  <1> QED
    BY <1>1 DEF Snapshot, Shown, Dossier

LEMMA InitType ==
    ASSUME Assumptions, Init
    PROVE  TypeOK
  <1>1. 1 \in Ids /\ 1 \in AuditPages /\ 0 \in Versions
    BY Constants DEF Ids, AuditPages, Versions
  <1>2. dossier \in [Apps -> Dossier]
    BY DEF Init
  <1>3. /\ [NoLoad EXCEPT !.state = "sent", !.of = route, !.at = route] \in LoadCall
        /\ [NoAudit EXCEPT !.state = "sent", !.of = route] \in AuditCall
        /\ route \in Apps
    <2>1. route \in Apps
      BY DEF Init
    <2>2. /\ [NoLoad EXCEPT !.state = "sent", !.of = route, !.at = route]
               \in [state : {"sent"}, of : {route}, at : {route}, answer : {Nothing}]
          /\ [NoAudit EXCEPT !.state = "sent", !.of = route]
               \in [state : {"sent"}, of : {route}, page : {1}, answer : {NoTrail}]
      BY DEF NoLoad, NoAudit
    <2> HIDE DEF NoLoad, NoAudit, Nothing, NoTrail
    <2> QED
      BY <1>1, <2>1, <2>2, Constants DEF LoadCall, AuditCall, CallStates
  <1>4. loads \in [Ids -> LoadCall] /\ audits \in [Ids -> AuditCall]
    BY <1>3, Constants DEF Init
  <1>5. /\ app \in Shown /\ audit \in Trail /\ action \in Action
        /\ acked \in [Apps -> Versions] /\ moves \in 0..MaxMoves /\ faults \in 0..MaxFaults
    BY <1>1, Constants DEF Init
  <1>6. /\ error \in BOOLEAN /\ auditError \in BOOLEAN /\ busy \in BOOLEAN
        /\ actionError \in BOOLEAN /\ confirming \in BOOLEAN
        /\ notice \in Kinds \cup {"none"} /\ file \in Files
        /\ loadRef \in Ids /\ auditRef \in Ids /\ auditPage \in AuditPages
    BY <1>1 DEF Init, Files
  <1> QED
    BY <1>2, <1>3, <1>4, <1>5, <1>6 DEF TypeOK

LEMMA LoadTypes ==
    ASSUME Assumptions, TypeOK, NEW i \in Ids,
           ServeLoad(i) \/ FailLoad(i) \/ ReceiveLoad(i)
    PROVE  TypeOK'
  <1>1. /\ loads[i] \in LoadCall /\ loads \in [Ids -> LoadCall] /\ faults \in 0..MaxFaults
        /\ app \in Shown /\ error \in BOOLEAN /\ MaxFaults \in Nat
    BY Constants DEF TypeOK
  <1>2. ASSUME NEW y \in CallStates
        PROVE  /\ [loads EXCEPT ![i].state = y] \in [Ids -> LoadCall]
               /\ \A x \in Shown :
                    [loads EXCEPT ![i].state = y, ![i].answer = x] \in [Ids -> LoadCall]
    BY <1>1 DEF LoadCall
  <1>3. {"ok", "failed", "done"} \subseteq CallStates
    BY DEF CallStates
  <1>4. CASE ServeLoad(i)
    <2>1. Snapshot(loads[i].of) \in Shown
      BY <1>1, SnapshotType DEF LoadCall
    <2>2. loads' \in [Ids -> LoadCall]
      BY <1>2, <1>3, <1>4, <2>1 DEF ServeLoad
    <2> QED
      BY <1>4, <2>2 DEF ServeLoad, TypeOK, auditState, form, bounds
  <1>5. CASE FailLoad(i)
    <2>1. loads' \in [Ids -> LoadCall] /\ faults' \in 0..MaxFaults
      <3>1. loads' = [loads EXCEPT ![i].state = "failed"] /\ faults < MaxFaults /\ faults' = faults + 1
        BY <1>5 DEF FailLoad
      <3>2. loads' \in [Ids -> LoadCall]
        BY <1>2, <1>3, <3>1
      <3>3. faults' \in 0..MaxFaults
        BY <1>1, <3>1
      <3> QED
        BY <3>2, <3>3
    <2> QED
      BY <1>5, <2>1 DEF FailLoad, TypeOK, auditState, form
  <1>6. CASE ReceiveLoad(i)
    <2>1. loads' \in [Ids -> LoadCall]
      BY <1>1, <1>2, <1>3, <1>6 DEF ReceiveLoad
    <2>2. app' \in Shown
      BY <1>1, <1>6 DEF ReceiveLoad, LoadCall
    <2>3. error' \in BOOLEAN
      BY <1>1, <1>6 DEF ReceiveLoad
    <2> QED
      BY <1>6, <2>1, <2>2, <2>3 DEF ReceiveLoad, TypeOK, auditState, form, bounds
  <1> QED
    BY <1>4, <1>5, <1>6

(* What the view answers to a page of the trail. *)
LEMMA ServeAuditAnswers ==
    ASSUME Assumptions, TypeOK, NEW i \in Ids, ServeAudit(i)
    PROVE  /\ audits' \in [Ids -> AuditCall]
           /\ audits'[i].state \in {"ok", "failed"}
           /\ audits'[i].state = "ok" => audits'[i].answer.of = audits'[i].of
                                         /\ audits'[i].answer.page = audits'[i].page
           /\ \A j \in Ids : j # i => audits'[j] = audits[j]
           /\ audits[i].state = "sent"
  <1> DEFINE c == audits[i]
             n == dossier[c.of].version
             x == [of |-> c.of, page |-> c.page, next |-> c.page < n, prev |-> c.page > 1]
             d == IF c.page = 1 \/ c.page <= n
                  THEN [c EXCEPT !.state = "ok", !.answer = x] ELSE [c EXCEPT !.state = "failed"]
  <1>1. audits \in [Ids -> AuditCall] /\ c \in AuditCall
    BY DEF TypeOK
  <1>2. c.of \in Apps /\ c.page \in AuditPages /\ c.answer \in Trail
    BY <1>1 DEF AuditCall
  <1>3. x \in Trail /\ x.of = c.of /\ x.page = c.page
    BY <1>2 DEF Trail
  <1>4. audits' = [audits EXCEPT ![i] = d] /\ c.state = "sent"
    BY DEF ServeAudit
  <1> HIDE DEF x
  <1>5. /\ d \in AuditCall /\ d.state \in {"ok", "failed"}
        /\ d.state = "ok" => d.answer = x /\ d.of = c.of /\ d.page = c.page
    BY <1>1, <1>2, <1>3 DEF AuditCall, CallStates
  <1> HIDE DEF c, d
  <1> QED
    BY <1>1, <1>3, <1>4, <1>5 DEF c

LEMMA AuditTypes ==
    ASSUME Assumptions, TypeOK, NEW i \in Ids,
           ServeAudit(i) \/ FailAudit(i) \/ ReceiveAudit(i)
    PROVE  TypeOK'
  <1>1. /\ audits[i] \in AuditCall /\ audits \in [Ids -> AuditCall] /\ faults \in 0..MaxFaults
        /\ audit \in Trail /\ auditError \in BOOLEAN /\ MaxFaults \in Nat
    BY Constants DEF TypeOK
  <1>2. ASSUME NEW y \in CallStates
        PROVE  [audits EXCEPT ![i].state = y] \in [Ids -> AuditCall]
    BY <1>1 DEF AuditCall
  <1>3. {"ok", "failed", "done"} \subseteq CallStates
    BY DEF CallStates
  <1>4. CASE ServeAudit(i)
    <2>1. audits' \in [Ids -> AuditCall]
      BY <1>4, ServeAuditAnswers
    <2> QED
      BY <1>4, <2>1 DEF ServeAudit, TypeOK, form, bounds
  <1>5. CASE FailAudit(i)
    <2>1. audits' \in [Ids -> AuditCall] /\ faults' \in 0..MaxFaults
      <3>1. audits' = [audits EXCEPT ![i].state = "failed"] /\ faults < MaxFaults /\ faults' = faults + 1
        BY <1>5 DEF FailAudit
      <3>2. audits' \in [Ids -> AuditCall]
        BY <1>2, <1>3, <3>1
      <3>3. faults' \in 0..MaxFaults
        BY <1>1, <3>1
      <3> QED
        BY <3>2, <3>3
    <2> QED
      BY <1>5, <2>1 DEF FailAudit, TypeOK, form
  <1>6. CASE ReceiveAudit(i)
    <2>1. audits' \in [Ids -> AuditCall]
      BY <1>1, <1>2, <1>3, <1>6 DEF ReceiveAudit
    <2>2. audit' \in Trail
      BY <1>1, <1>6 DEF ReceiveAudit, AuditCall
    <2>3. auditError' \in BOOLEAN
      BY <1>1, <1>6 DEF ReceiveAudit
    <2> QED
      BY <1>6, <2>1, <2>2, <2>3 DEF ReceiveAudit, TypeOK, form, bounds
  <1> QED
    BY <1>4, <1>5, <1>6

LEMMA MoveType ==
    ASSUME Assumptions, TypeOK, NEW a \in Apps, Move(a)
    PROVE  TypeOK'
  <1>1. /\ a \in Apps /\ Load(a, a) /\ LoadAudit(a, 1) /\ moves < MaxMoves /\ moves' = moves + 1
        /\ app' = Nothing /\ route' = a /\ auditPage' = 1 /\ error' = FALSE
        /\ dossier' = dossier /\ audit' = audit /\ busy' = busy /\ action' = action
        /\ notice' = notice /\ actionError' = actionError /\ file' = file
        /\ confirming' = confirming /\ acked' = acked /\ faults' = faults
    BY DEF Move, form
  <1>2. 1 \in AuditPages
    BY Constants DEF AuditPages
  <1>3. moves' \in 0..MaxMoves
    BY <1>1, Constants DEF TypeOK
  <1>4. loads' \in [Ids -> LoadCall] /\ loadRef' \in Ids
    BY <1>1, LoadSends
  <1>5. audits' \in [Ids -> AuditCall] /\ auditRef' \in Ids /\ auditError' = FALSE
    BY <1>1, <1>2, LoadAuditSends
  <1> QED
    BY <1>1, <1>2, <1>3, <1>4, <1>5, Constants DEF TypeOK

LEMMA TurnType ==
    ASSUME Assumptions, TypeOK, TurnAudit
    PROVE  TypeOK'
  <1>1. auditPage \in AuditPages /\ route \in Apps /\ MaxVersions \in Nat
    BY Constants DEF TypeOK
  <1>2. auditPage' \in AuditPages
    BY <1>1 DEF TurnAudit, Previous, AuditPages
  <1>3. \/ UNCHANGED <<audits, auditRef, auditError>>
        \/ LoadAudit(route, auditPage')
    BY DEF TurnAudit
  <1>4. audits' \in [Ids -> AuditCall] /\ auditRef' \in Ids /\ auditError' \in BOOLEAN
    <2>1. CASE UNCHANGED <<audits, auditRef, auditError>>
      BY <2>1 DEF TypeOK
    <2>2. CASE LoadAudit(route, auditPage')
      BY <1>1, <1>2, <2>2, LoadAuditSends
    <2> QED
      BY <1>3, <2>1, <2>2
  <1>5. UNCHANGED <<dossier, route, app, error, audit, loads, loadRef, busy, action, form,
                  acked, bounds>>
    BY DEF TurnAudit
  <1> QED
    BY <1>2, <1>4, <1>5 DEF TypeOK, form, bounds

(* A click starts an action for the application of the address. *)
LEMMA RunStarts ==
    ASSUME Assumptions, TypeOK, NEW kind \in Kinds, Run(kind)
    PROVE  /\ action' \in Action /\ action'.state = "sent" /\ action'.of = route
           /\ dossier[route].version < MaxVersions
           /\ busy' \in BOOLEAN /\ notice' \in Kinds \cup {"none"} /\ actionError' \in BOOLEAN
           /\ UNCHANGED <<dossier, route, app, error, auditState, loads, loadRef, file, acked, bounds>>
  <1>1. /\ action' = [Idle EXCEPT !.state = "sent", !.kind = kind, !.of = route, !.page = auditPage]
        /\ dossier[route].version < MaxVersions
        /\ busy' \in BOOLEAN /\ notice' \in Kinds \cup {"none"} /\ actionError' \in BOOLEAN
        /\ UNCHANGED <<dossier, route, app, error, auditState, loads, loadRef, file, acked, bounds>>
    BY DEF Run
  <1>2. route \in Apps /\ auditPage \in AuditPages /\ Idle \in Action
    BY Constants DEF TypeOK
  <1> HIDE DEF Idle
  <1>3. action' \in Action /\ action'.state = "sent" /\ action'.of = route
    BY <1>1, <1>2 DEF Action
  <1> QED
    BY <1>1, <1>3

(* The user's other steps touch neither loads nor what the server has. *)
Click ==
    \/ \E f \in Files : ChooseFile(f)
    \/ Upload \/ Remove \/ OpenConfirm \/ CloseConfirm \/ Confirm

LEMMA ClickKeeps ==
    ASSUME Assumptions, TypeOK, Click
    PROVE  /\ TypeOK'
           /\ UNCHANGED <<dossier, route, app, error, auditState, loads, loadRef, acked, bounds>>
           /\ \/ UNCHANGED action
              \/ /\ action'.state = "sent" /\ action'.of = route
                 /\ dossier[route].version < MaxVersions
  <1>1. CASE \E f \in Files : ChooseFile(f)
    BY <1>1 DEF ChooseFile, TypeOK, auditState, bounds
  <1>2. CASE OpenConfirm \/ CloseConfirm
    BY <1>2 DEF OpenConfirm, CloseConfirm, TypeOK, auditState, bounds
  <1>3. CASE Upload \/ Remove \/ Confirm
    <2>1. PICK kind \in Kinds : Run(kind)
      BY <1>3 DEF Upload, Remove, Confirm, Kinds
    <2>2. confirming' = confirming
      BY <1>3 DEF Upload, Remove, Confirm
    <2>3. /\ action' \in Action /\ action'.state = "sent" /\ action'.of = route
          /\ dossier[route].version < MaxVersions
          /\ busy' \in BOOLEAN /\ notice' \in Kinds \cup {"none"} /\ actionError' \in BOOLEAN
          /\ UNCHANGED <<dossier, route, app, error, auditState, loads, loadRef, file, acked, bounds>>
      BY <2>1, RunStarts
    <2>4. TypeOK'
      BY <2>2, <2>3 DEF TypeOK, auditState, bounds
    <2> QED
      BY <2>3, <2>4
  <1> QED
    BY <1>1, <1>2, <1>3 DEF Click

LEMMA ActionTypes ==
    ASSUME Assumptions, TypeOK, VersionInv, ServeAction \/ FailAction
    PROVE  /\ TypeOK'
           /\ UNCHANGED <<route, app, error, auditState, loads, loadRef, acked>>
           /\ action.state = "sent" /\ action' \in Action
           /\ \A a \in Apps : dossier'[a].version >= dossier[a].version
           /\ action'.state = "failed"
              \/ (/\ action'.state = "ok" /\ action'.of = action.of
                  /\ action'.version = dossier'[action.of].version)
  <1>1. /\ action \in Action /\ action.of \in Apps /\ action.kind \in Kinds
        /\ dossier \in [Apps -> Dossier] /\ faults \in 0..MaxFaults /\ MaxFaults \in Nat
        /\ dossier[action.of] \in Dossier /\ MaxVersions \in Nat
    <2>1. action \in Action /\ dossier \in [Apps -> Dossier] /\ faults \in 0..MaxFaults
      BY DEF TypeOK
    <2>2. action.of \in Apps /\ action.kind \in Kinds
      BY <2>1 DEF Action
    <2> QED
      BY <2>1, <2>2, Constants
  <1>2. [action EXCEPT !.state = "failed"] \in Action
        /\ [action EXCEPT !.state = "failed"].state = "failed"
    BY <1>1 DEF Action
  <1>3. \A a \in Apps : dossier[a].version \in Versions /\ Versions \subseteq Nat
    BY <1>1 DEF Dossier, Versions
  <1>4. CASE FailAction
    <2>1. /\ action' = [action EXCEPT !.state = "failed"] /\ action.state = "sent"
          /\ faults < MaxFaults /\ faults' = faults + 1
          /\ UNCHANGED <<dossier, route, app, error, auditState, loads, loadRef, busy, form,
                   acked, moves>>
      BY <1>4 DEF FailAction
    <2>2. faults' \in 0..MaxFaults
      BY <1>1, <2>1
    <2>3. TypeOK'
      BY <1>2, <2>1, <2>2 DEF TypeOK, auditState, form
    <2> QED
      BY <1>2, <1>3, <2>1, <2>3
  <1>5. CASE ServeAction
    <2> DEFINE d == dossier[action.of]
    <2>1. /\ action.state = "sent"
          /\ UNCHANGED <<route, app, error, auditState, loads, loadRef, busy, form, acked, moves>>
      BY <1>5 DEF ServeAction
    <2>2. d.version < MaxVersions /\ d.version \in Nat
      BY <1>1, <1>3, <2>1 DEF VersionInv
    <2>3. CASE ~(action.of \in Mine /\ Allowed(d, action.kind))
      <3>1. action' = [action EXCEPT !.state = "failed"] /\ UNCHANGED <<dossier, faults>>
        BY <1>5, <2>3 DEF ServeAction
      <3>2. TypeOK'
        BY <1>2, <2>1, <3>1 DEF TypeOK, auditState, form
      <3> QED
        BY <1>2, <1>3, <2>1, <3>1, <3>2
    <2>4. CASE action.of \in Mine /\ Allowed(d, action.kind)
      <3>1. /\ dossier' = [dossier EXCEPT ![action.of] = After(d, action.kind)]
            /\ \/ /\ action' = [action EXCEPT !.state = "ok", !.version = d.version + 1]
                  /\ UNCHANGED faults
               \/ /\ faults < MaxFaults
                  /\ faults' = faults + 1
                  /\ action' = [action EXCEPT !.state = "failed"]
        BY <1>5, <2>4 DEF ServeAction
      <3>2. After(d, action.kind) \in Dossier /\ After(d, action.kind).version = d.version + 1
        BY <1>1, <2>2, <2>4, AfterType
      <3> HIDE DEF d
      <3>3. /\ dossier' \in [Apps -> Dossier] /\ dossier'[action.of].version = d.version + 1
            /\ \A a \in Apps : a # action.of => dossier'[a] = dossier[a]
        BY <1>1, <3>1, <3>2
      <3>4. \A a \in Apps : dossier'[a].version >= dossier[a].version
        BY <1>3, <2>2, <3>3 DEF d
      <3>5. d.version + 1 \in Versions
        BY <1>1, <2>2 DEF Versions
      <3>6. LET ok == [action EXCEPT !.state = "ok", !.version = d.version + 1]
            IN  ok \in Action /\ ok.state = "ok" /\ ok.of = action.of /\ ok.version = d.version + 1
        BY <1>1, <3>5 DEF Action
      <3>7. faults' \in 0..MaxFaults
        BY <1>1, <3>1
      <3>8. action' \in Action
            /\ (action'.state = "failed"
                \/ (/\ action'.state = "ok" /\ action'.of = action.of
                    /\ action'.version = d.version + 1))
        BY <1>2, <3>1, <3>6
      <3>9. TypeOK'
        BY <2>1, <3>3, <3>7, <3>8 DEF TypeOK, auditState, form
      <3> QED
        BY <2>1, <3>3, <3>4, <3>8, <3>9
    <2> QED
      BY <2>3, <2>4
  <1> QED
    BY <1>4, <1>5

LEMMA DoneType ==
    ASSUME Assumptions, TypeOK, ActionDone
    PROVE  /\ TypeOK'
           /\ action' \in Action /\ action'.state = "reloading"
           /\ action.of \in Apps /\ action.state = "ok"
           /\ acked' = [acked EXCEPT ![action.of] = action.version]
           /\ Load(action.of, route) /\ LoadAudit(action.of, action.page)
           /\ UNCHANGED <<dossier, route, app, error, audit>>
           /\ action.page \in AuditPages
  <1>1. /\ action.state = "ok" /\ notice' = action.kind
        /\ file' = IF action.kind = "upload" THEN "none" ELSE file
        /\ acked' = [acked EXCEPT ![action.of] = action.version]
        /\ Load(action.of, route) /\ LoadAudit(action.of, action.page)
        /\ action' = [action EXCEPT !.state = "reloading", !.load = loadRef + 1,
                                    !.audit = auditRef + 1]
        /\ UNCHANGED <<dossier, route, app, error, audit, auditPage, busy, actionError,
                       confirming, bounds>>
    BY DEF ActionDone
  <1>2. action \in Action /\ route \in Apps /\ acked \in [Apps -> Versions] /\ file \in Files
    BY DEF TypeOK
  <1>3. action.of \in Apps /\ action.kind \in Kinds /\ action.version \in Versions
        /\ action.page \in AuditPages
    BY <1>2 DEF Action
  <1>4. loads' \in [Ids -> LoadCall] /\ loadRef' \in Ids /\ loadRef' = loadRef + 1
    BY <1>1, <1>2, <1>3, LoadSends
  <1>5. audits' \in [Ids -> AuditCall] /\ auditRef' \in Ids /\ auditRef' = auditRef + 1
        /\ auditError' = FALSE
    BY <1>1, <1>2, <1>3, LoadAuditSends
  <1>6. loadRef + 1 \in 0..MaxLoads /\ auditRef + 1 \in 0..MaxLoads
    BY <1>4, <1>5, Constants DEF Ids
  <1>7. action' \in Action /\ action'.state = "reloading"
    BY <1>1, <1>2, <1>6 DEF Action
  <1>8. acked' \in [Apps -> Versions] /\ file' \in Files /\ notice' \in Kinds \cup {"none"}
    BY <1>1, <1>2, <1>3 DEF Files
  <1>9. TypeOK'
    BY <1>1, <1>4, <1>5, <1>7, <1>8 DEF TypeOK, bounds
  <1> QED
    BY <1>1, <1>3, <1>7, <1>9

LEMMA FinishType ==
    ASSUME Assumptions, TypeOK, ActionRefused \/ Reloaded
    PROVE  /\ TypeOK' /\ action' = Idle
           /\ UNCHANGED <<dossier, route, app, error, auditState, loads, loadRef, acked>>
  <1>1. PICK failed \in BOOLEAN : Finish(failed)
    BY DEF ActionRefused, Reloaded
  <1>2. /\ busy' = FALSE /\ action' = Idle
        /\ actionError' = (actionError \/ failed)
        /\ confirming' = (confirming /\ action.kind # "submit")
        /\ UNCHANGED <<dossier, route, app, error, auditState, loads, loadRef, notice, file, acked, bounds>>
    BY <1>1 DEF Finish
  <1>3. actionError' \in BOOLEAN /\ confirming' \in BOOLEAN
    BY <1>2 DEF TypeOK
  <1>4. Idle \in Action
    BY Constants
  <1> HIDE DEF Idle
  <1>5. TypeOK'
    BY <1>2, <1>3, <1>4 DEF TypeOK, auditState, bounds
  <1> QED
    BY <1>2, <1>5

LEMMA ReviewType ==
    ASSUME Assumptions, TypeOK, NEW a \in Apps, Review(a)
    PROVE  /\ TypeOK'
           /\ UNCHANGED <<route, app, error, auditState, loads, loadRef, action, acked>>
           /\ \A b \in Apps : dossier'[b].version >= dossier[b].version
           /\ action.state = "sent" /\ dossier[action.of].version < MaxVersions =>
                 dossier'[action.of].version < MaxVersions
  <1>1. /\ dossier \in [Apps -> Dossier] /\ dossier[a] \in Dossier /\ MaxVersions \in Nat
        /\ action \in Action
    BY Constants DEF TypeOK
  <1>2. \A b \in Apps : dossier[b].version \in Nat
    BY <1>1 DEF Dossier, Versions
  <1>3. PICK s \in {"resubmission_requested", "approved", "rejected"} :
         dossier' = [dossier EXCEPT ![a].status = s, ![a].version = @ + 1]
    BY DEF Review
  <1>4. UNCHANGED <<route, app, error, auditState, loads, loadRef, busy, action, form,
                   acked, bounds>>
    BY DEF Review
  <1>5. dossier[a].version + 1 \in Versions
        /\ (action.of = a /\ action.state = "sent" => dossier[a].version + 1 < MaxVersions)
    <2>1. dossier[a].version + (IF action.of = a THEN Reserved ELSE 0) < MaxVersions
      BY DEF Review
    <2>2. Reserved \in {0, 1} /\ (action.state = "sent" => Reserved = 1)
      BY DEF Reserved
    <2> QED
      BY <1>1, <1>2, <2>1, <2>2 DEF Versions
  <1>6. /\ dossier'[a].version = dossier[a].version + 1
        /\ \A b \in Apps : b # a => dossier'[b] = dossier[b]
        /\ dossier' \in [Apps -> Dossier]
    BY <1>1, <1>3, <1>5 DEF Dossier, Statuses
  <1>7. TypeOK'
    BY <1>4, <1>6 DEF TypeOK, auditState, form, bounds
  <1>8. action.of \in Apps
    BY <1>1 DEF Action
  <1> QED
    BY <1>2, <1>4, <1>5, <1>6, <1>7, <1>8

LEMMA NextType ==
    ASSUME Assumptions, TypeOK, VersionInv, [Next]_vars
    PROVE  TypeOK'
  <1>1. CASE UNCHANGED vars
    BY <1>1 DEF vars, auditState, form, bounds, TypeOK
  <1>2. CASE Next
    <2>1. CASE \E i \in Ids : ServeLoad(i) \/ FailLoad(i) \/ ReceiveLoad(i)
      BY <2>1, LoadTypes
    <2>2. CASE \E i \in Ids : ServeAudit(i) \/ FailAudit(i) \/ ReceiveAudit(i)
      BY <2>2, AuditTypes
    <2>3. CASE \E a \in Apps : Move(a) \/ Review(a)
      BY <2>3, MoveType, ReviewType
    <2>4. CASE TurnAudit
      BY <2>4, TurnType
    <2>5. CASE Click
      BY <2>5, ClickKeeps
    <2>6. CASE ServeAction \/ FailAction
      BY <2>6, ActionTypes
    <2>7. CASE ActionDone
      BY <2>7, DoneType
    <2>8. CASE ActionRefused \/ Reloaded
      BY <2>8, FinishType
    <2> QED
      BY <1>2, <2>1, <2>2, <2>3, <2>4, <2>5, <2>6, <2>7, <2>8 DEF Next, System, Click
  <1> QED
    BY <1>1, <1>2

-----------------------------------------------------------------------------
(* The address and the application shown *)

(* The steps that matter to load(): one of its own, a change of address,   *)
(* the reload after an action, and all the others.                         *)
LEMMA LoadSteps ==
    ASSUME Assumptions, TypeOK, VersionInv, [Next]_vars
    PROVE  \/ UNCHANGED <<route, app, error, loads, loadRef>>
           \/ \E i \in Ids : ServeLoad(i) \/ FailLoad(i) \/ ReceiveLoad(i)
           \/ \E a \in Apps : Move(a)
           \/ ActionDone
  <1>1. CASE UNCHANGED vars
    BY <1>1 DEF vars
  <1>2. CASE Next
    <2>1. CASE \E i \in Ids : ServeAudit(i) \/ FailAudit(i) \/ ReceiveAudit(i)
      BY <2>1 DEF ServeAudit, FailAudit, ReceiveAudit
    <2>2. CASE \E a \in Apps : Review(a)
      BY <2>2, ReviewType
    <2>3. CASE TurnAudit
      BY <2>3 DEF TurnAudit
    <2>4. CASE Click
      BY <2>4, ClickKeeps
    <2>5. CASE ServeAction \/ FailAction
      BY <2>5, ActionTypes
    <2>6. CASE ActionRefused \/ Reloaded
      BY <2>6, FinishType
    <2> QED
      BY <1>2, <2>1, <2>2, <2>3, <2>4, <2>5, <2>6 DEF Next, System, Click
  <1> QED
    BY <1>1, <1>2

(* What a step of load() does to its request. *)
LEMMA LoadAnswers ==
    ASSUME Assumptions, TypeOK, NEW i \in Ids,
           ServeLoad(i) \/ FailLoad(i) \/ ReceiveLoad(i)
    PROVE  /\ \A j \in Ids : j # i => loads'[j] = loads[j]
           /\ loads'[i].of = loads[i].of /\ loads'[i].at = loads[i].at
           /\ loadRef' = loadRef /\ route' = route
           /\ \/ /\ ServeLoad(i) /\ loads[i].state = "sent" /\ loads'[i].state = "ok"
                 /\ loads'[i].answer = Snapshot(loads[i].of) /\ app' = app /\ error' = error
              \/ /\ FailLoad(i) /\ loads[i].state = "sent" /\ loads'[i].state = "failed"
                 /\ loads'[i].answer = loads[i].answer /\ app' = app /\ error' = error
              \/ /\ ReceiveLoad(i) /\ loads[i].state \in {"ok", "failed"} /\ loads'[i].state = "done"
                 /\ loads'[i].answer = loads[i].answer
                 /\ app' = IF loads[i].state = "ok" /\ i = loadRef THEN loads[i].answer ELSE app
                 /\ error' = (error \/ (loads[i].state = "failed" /\ i = loadRef))
  <1>1. loads \in [Ids -> LoadCall] /\ loads[i] \in LoadCall
    BY DEF TypeOK
  <1>2. CASE ServeLoad(i)
    <2>1. /\ loads' = [loads EXCEPT ![i].state = "ok", ![i].answer = Snapshot(loads[i].of)]
          /\ loads[i].state = "sent" /\ loadRef' = loadRef /\ route' = route
          /\ app' = app /\ error' = error
      BY <1>2 DEF ServeLoad
    <2> QED
      BY <1>1, <1>2, <2>1 DEF LoadCall
  <1>3. CASE FailLoad(i)
    <2>1. /\ loads' = [loads EXCEPT ![i].state = "failed"]
          /\ loads[i].state = "sent" /\ loadRef' = loadRef /\ route' = route
          /\ app' = app /\ error' = error
      BY <1>3 DEF FailLoad
    <2> QED
      BY <1>1, <1>3, <2>1 DEF LoadCall
  <1>4. CASE ReceiveLoad(i)
    <2>1. /\ loads' = [loads EXCEPT ![i].state = "done"]
          /\ loads[i].state \in {"ok", "failed"} /\ loadRef' = loadRef /\ route' = route
          /\ app' = IF loads[i].state = "ok" /\ i = loadRef THEN loads[i].answer ELSE app
          /\ error' = (error \/ (loads[i].state = "failed" /\ i = loadRef))
      BY <1>4 DEF ReceiveLoad, NewestLoad
    <2>2. loads'[i] = [loads[i] EXCEPT !.state = "done"]
      BY <1>1, <2>1
    <2>3. /\ loads'[i].of = loads[i].of /\ loads'[i].at = loads[i].at
          /\ loads'[i].answer = loads[i].answer /\ loads'[i].state = "done"
      BY <1>1, <2>2 DEF LoadCall
    <2> QED
      BY <1>1, <1>4, <2>1, <2>3
  <1> QED
    BY <1>2, <1>3, <1>4

LEMMA LoadKept ==
    ASSUME Assumptions, TypeOK, VersionInv, LoadInv, [Next]_vars
    PROVE  LoadInv'
  <1>1. loadRef \in Ids /\ Ids \subseteq Nat /\ Ids' = Ids /\ route \in Apps
        /\ loads \in [Ids -> LoadCall]
    BY DEF Ids, TypeOK
  <1>2. CASE UNCHANGED <<route, app, error, loads, loadRef>>
    BY <1>1, <1>2 DEF LoadInv, Nothing
  <1>3. CASE \E i \in Ids : ServeLoad(i) \/ FailLoad(i) \/ ReceiveLoad(i)
    <2>1. PICK i \in Ids : ServeLoad(i) \/ FailLoad(i) \/ ReceiveLoad(i)
      BY <1>3
    <2>2. /\ \A j \in Ids : j # i => loads'[j] = loads[j]
          /\ loads'[i].of = loads[i].of /\ loads'[i].at = loads[i].at
          /\ loadRef' = loadRef /\ route' = route
          /\ \/ /\ loads[i].state = "sent" /\ loads'[i].state = "ok"
                /\ loads'[i].answer = Snapshot(loads[i].of)
             \/ /\ loads[i].state = "sent" /\ loads'[i].state = "failed"
                /\ loads'[i].answer = loads[i].answer
             \/ /\ loads[i].state \in {"ok", "failed"} /\ loads'[i].state = "done"
      BY <2>1, LoadAnswers
    <2>3. Snapshot(loads[i].of).of = loads[i].of
      BY DEF Snapshot
    <2> HIDE DEF Snapshot, Nothing
    <2>4. loads'[loadRef'].at = route'
      BY <1>1, <2>2 DEF LoadInv
    <2>5. \A j \in Ids : j > loadRef' => loads'[j].state = "none"
      BY <1>1, <2>2 DEF LoadInv
    <2>6. \A j \in Ids :
             /\ loads'[j].state \in {"none", "sent", "failed"} => loads'[j].answer = Nothing
             /\ loads'[j].state = "ok" => loads'[j].answer.of = loads'[j].of
      BY <2>2, <2>3 DEF LoadInv
    <2> QED
      BY <1>1, <2>4, <2>5, <2>6 DEF LoadInv, Nothing
  <1>4. ASSUME NEW a \in Apps, NEW here \in Apps, Load(a, here), route' = here PROVE LoadInv'
    <2>1. /\ loadRef' \in Ids /\ loadRef' = loadRef + 1
          /\ loads'[loadRef'].state = "sent" /\ loads'[loadRef'].at = here
          /\ loads'[loadRef'].answer = Nothing
          /\ \A i \in Ids : i # loadRef' => loads'[i] = loads[i]
      BY <1>4, LoadSends
    <2> HIDE DEF Nothing
    <2>2. \A j \in Ids : j > loadRef' => loads'[j].state = "none"
      BY <1>1, <2>1 DEF LoadInv
    <2>3. \A j \in Ids :
             /\ loads'[j].state \in {"none", "sent", "failed"} => loads'[j].answer = Nothing
             /\ loads'[j].state = "ok" => loads'[j].answer.of = loads'[j].of
      BY <2>1 DEF LoadInv
    <2> QED
      BY <1>1, <1>4, <2>1, <2>2, <2>3 DEF LoadInv, Nothing
  <1>5. CASE \E a \in Apps : Move(a)
    BY <1>4, <1>5 DEF Move
  <1>6. CASE ActionDone
    BY <1>1, <1>4, <1>6, DoneType
  <1> QED
    BY <1>2, <1>3, <1>5, <1>6, LoadSteps

(* A load that strayed is over, so that it keeps what it answered. *)
LEMMA StrayedStays ==
    ASSUME TypeOK, LoadInv, app # Nothing, NEW i \in Ids, Strayed(i)
    PROVE  loads[i].state \notin {"none", "sent", "failed"} /\ i <= loadRef
  <1>1. loads[i].answer = app
    BY DEF Strayed
  <1>2. loads[i].state \notin {"none", "sent", "failed"}
    BY <1>1 DEF LoadInv
  <1>3. loadRef \in Nat /\ i \in Nat
    BY DEF TypeOK, Ids
  <1> QED
    BY <1>2, <1>3 DEF LoadInv

LEMMA ShownKept ==
    ASSUME Assumptions, TypeOK, VersionInv, LoadInv, ShownIsOfAddress, [Next]_vars
    PROVE  ShownIsOfAddress'
  <1>1. loadRef \in Ids /\ Ids \subseteq Nat /\ loads \in [Ids -> LoadCall]
    BY DEF Ids, TypeOK
  <1> SUFFICES ASSUME app' # Nothing
               PROVE  app'.of = route' \/ \E i \in Ids : loads'[i].at # loads'[i].of /\ loads'[i].answer = app'
    BY DEF ShownIsOfAddress, Strayed, Ids, Nothing
  <1>2. app # Nothing => app.of = route \/ \E i \in Ids : Strayed(i)
    BY DEF ShownIsOfAddress
  <1> HIDE DEF Nothing
  <1>3. CASE UNCHANGED <<route, app, error, loads, loadRef>>
    BY <1>2, <1>3 DEF Strayed
  <1>4. CASE \E i \in Ids : ServeLoad(i) \/ FailLoad(i) \/ ReceiveLoad(i)
    <2>1. PICK i \in Ids : ServeLoad(i) \/ FailLoad(i) \/ ReceiveLoad(i)
      BY <1>4
    <2>2. /\ \A j \in Ids : j # i => loads'[j] = loads[j]
          /\ loads'[i].of = loads[i].of /\ loads'[i].at = loads[i].at
          /\ loadRef' = loadRef /\ route' = route
          /\ \/ loads[i].state = "sent" /\ app' = app
             \/ /\ loads[i].state \in {"ok", "failed"} /\ loads'[i].answer = loads[i].answer
                /\ app' = IF loads[i].state = "ok" /\ i = loadRef THEN loads[i].answer ELSE app
      BY <2>1, LoadAnswers
    <2>3. CASE app' = app
      <3>1. CASE app.of = route
        BY <2>2, <2>3, <3>1
      <3>2. CASE \E j \in Ids : Strayed(j)
        <4>1. PICK j \in Ids : Strayed(j)
          BY <3>2
        <4>2. loads[j].state \notin {"none", "sent", "failed"}
          BY <2>3, <4>1, StrayedStays
        <4>3. loads'[j].answer = loads[j].answer /\ loads'[j].at = loads[j].at /\ loads'[j].of = loads[j].of
          BY <2>2, <4>2
        <4> QED
          BY <2>3, <4>1, <4>3 DEF Strayed
      <3> QED
        BY <1>2, <2>3, <3>1, <3>2
    <2>4. CASE app' # app
      <3>1. /\ loads[i].state = "ok" /\ i = loadRef /\ app' = loads[i].answer
            /\ loads'[i].answer = loads[i].answer
        BY <2>2, <2>4
      <3>2. loads[i].answer.of = loads[i].of /\ loads[i].at = route
        BY <3>1 DEF LoadInv
      <3> QED
        BY <2>2, <3>1, <3>2
    <2> QED
      BY <2>3, <2>4
  <1>5. CASE \E a \in Apps : Move(a)
    BY <1>5 DEF Move
  <1>6. CASE ActionDone
    <2>1. /\ app' = app /\ route' = route /\ loadRef' = loadRef + 1
          /\ \A i \in Ids : i # loadRef' => loads'[i] = loads[i]
      BY <1>6, DoneType, LoadSends DEF TypeOK
    <2>2. CASE app.of = route
      BY <2>1, <2>2
    <2>3. CASE \E j \in Ids : Strayed(j)
      <3>1. PICK j \in Ids : Strayed(j)
        BY <2>3
      <3>2. j <= loadRef
        BY <2>1, <3>1, StrayedStays
      <3>3. loads'[j] = loads[j]
        BY <1>1, <2>1, <3>2
      <3> QED
        BY <2>1, <3>1, <3>3 DEF Strayed
    <2> QED
      BY <1>2, <2>1, <2>2, <2>3
  <1> QED
    BY <1>3, <1>4, <1>5, <1>6, LoadSteps

-----------------------------------------------------------------------------
(* Versions *)

LEMMA VersionKept ==
    ASSUME Assumptions, TypeOK, LoadInv, VersionInv, [Next]_vars
    PROVE  VersionInv'
  <1>1. /\ loadRef \in Ids /\ loads \in [Ids -> LoadCall] /\ route \in Apps
        /\ dossier \in [Apps -> Dossier] /\ acked \in [Apps -> Versions] /\ action \in Action
        /\ MaxVersions \in Nat
    BY Constants DEF TypeOK
  <1>2. /\ \A a \in Apps : dossier[a].version \in Nat /\ acked[a] \in Nat
        /\ action.version \in Nat /\ action.of \in Apps
        /\ \A i \in Ids : loads[i].of \in Apps /\ loads[i].answer.version \in Nat
        /\ \A a \in Apps : acked[a] <= dossier[a].version
    <2>1. Versions \subseteq Nat
      BY DEF Versions
    <2>2. \A i \in Ids : loads[i].of \in Apps /\ loads[i].answer \in Shown
      BY <1>1 DEF LoadCall
    <2>3. \A i \in Ids : loads[i].answer.version \in Versions
      BY <2>2 DEF Shown
    <2>4. action.version \in Versions /\ action.of \in Apps
      BY <1>1 DEF Action
    <2>5. \A a \in Apps : dossier[a].version \in Versions
      BY <1>1 DEF Dossier
    <2> QED
      BY <1>1, <2>1, <2>2, <2>3, <2>4, <2>5 DEF VersionInv
  (* A step that touches neither the loads nor who was told what, and no   *)
  (* change but one that has come to its end.                              *)
  <1>3. ASSUME UNCHANGED <<loads, loadRef, acked>>,
               \A a \in Apps : dossier'[a].version >= dossier[a].version,
               \A a \in Apps : dossier'[a].version \in Nat,
               action'.state = "sent" => dossier'[action'.of].version < MaxVersions,
               action'.state = "ok" => action'.version <= dossier'[action'.of].version
        PROVE  VersionInv'
    <2>1. \A a \in Apps : acked'[a] <= dossier'[a].version
      BY <1>2, <1>3
    <2>2. loads'[loadRef'].state = "ok" => loads'[loadRef'].answer.version >= acked'[loads'[loadRef'].of]
      BY <1>3 DEF VersionInv
    <2> QED
      BY <1>3, <2>1, <2>2 DEF VersionInv
  <1>4. TypeOK'
    BY NextType
  <1>5. \A a \in Apps : dossier'[a].version \in Nat
    BY <1>4 DEF TypeOK, Dossier, Versions
  <1>6. CASE UNCHANGED <<dossier, action, loads, loadRef, acked>>
    BY <1>2, <1>3, <1>6 DEF VersionInv
  <1>7. CASE Click
    <2>1. /\ UNCHANGED <<dossier, loads, loadRef, acked>>
          /\ \/ UNCHANGED action
             \/ /\ action'.state = "sent" /\ action'.of = route
                /\ dossier[route].version < MaxVersions
      BY <1>7, ClickKeeps
    <2> QED
      BY <1>2, <1>3, <2>1 DEF VersionInv
  <1>8. CASE ServeAction \/ FailAction
    <2>1. /\ UNCHANGED <<loads, loadRef, acked>>
          /\ \A a \in Apps : dossier'[a].version >= dossier[a].version
          /\ \/ action'.state = "failed"
             \/ (/\ action'.state = "ok" /\ action'.of = action.of
                 /\ action'.version = dossier'[action.of].version)
      BY <1>8, ActionTypes
    <2> QED
      BY <1>2, <1>3, <1>5, <2>1
  <1>9. CASE ActionRefused \/ Reloaded
    <2>1. /\ UNCHANGED <<dossier, loads, loadRef, acked>> /\ action'.state = "idle"
      BY <1>9, FinishType DEF Idle
    <2> QED
      BY <1>2, <1>3, <2>1
  <1>10. CASE \E a \in Apps : Review(a)
    <2>1. /\ UNCHANGED <<loads, loadRef, action, acked>>
          /\ \A b \in Apps : dossier'[b].version >= dossier[b].version
          /\ action.state = "sent" /\ dossier[action.of].version < MaxVersions =>
                 dossier'[action.of].version < MaxVersions
      BY <1>10, ReviewType
    <2>2. action.state = "ok" => action.version <= dossier'[action.of].version
      BY <1>2, <1>5, <2>1 DEF VersionInv
    <2> QED
      BY <1>3, <1>5, <2>1, <2>2 DEF VersionInv
  <1>11. CASE \E i \in Ids : ServeLoad(i) \/ FailLoad(i) \/ ReceiveLoad(i)
    <2>1. PICK i \in Ids : ServeLoad(i) \/ FailLoad(i) \/ ReceiveLoad(i)
      BY <1>11
    <2>2. /\ \A j \in Ids : j # i => loads'[j] = loads[j]
          /\ loads'[i].of = loads[i].of /\ loadRef' = loadRef
          /\ loads'[i].state = "ok" => loads'[i].answer = Snapshot(loads[i].of)
      BY <2>1, LoadAnswers
    <2>3. UNCHANGED <<dossier, action, acked>>
      BY <2>1 DEF ServeLoad, FailLoad, ReceiveLoad
    <2>4. Snapshot(loads[i].of).version = dossier[loads[i].of].version
      BY DEF Snapshot
    <2> HIDE DEF Snapshot
    <2>5. loads'[loadRef'].state = "ok" => loads'[loadRef'].answer.version >= acked'[loads'[loadRef'].of]
      <3>1. CASE i = loadRef
        BY <1>2, <2>2, <2>3, <2>4, <3>1
      <3>2. CASE i # loadRef
        BY <1>1, <2>2, <2>3, <3>2 DEF VersionInv
      <3> QED
        BY <3>1, <3>2
    <2> QED
      BY <2>3, <2>5 DEF VersionInv
  <1>12. CASE \E a \in Apps : Move(a)
    <2>1. PICK a \in Apps : Move(a)
      BY <1>12
    <2>2. Load(a, a) /\ UNCHANGED <<dossier, action, acked>>
      BY <2>1 DEF Move
    <2>3. loads'[loadRef'].state = "sent"
      BY <2>2, LoadSends
    <2> QED
      BY <2>2, <2>3 DEF VersionInv
  <1>13. CASE ActionDone
    <2>1. /\ action'.state = "reloading" /\ action.state = "ok"
          /\ acked' = [acked EXCEPT ![action.of] = action.version]
          /\ Load(action.of, route) /\ dossier' = dossier
      BY <1>13, DoneType
    <2>2. loads'[loadRef'].state = "sent"
      BY <1>1, <1>2, <2>1, LoadSends
    <2>3. action.version <= dossier[action.of].version
      BY <2>1 DEF VersionInv
    <2>4. \A a \in Apps : acked'[a] <= dossier'[a].version
      BY <1>1, <1>2, <2>1, <2>3
    <2> QED
      BY <2>1, <2>2, <2>4 DEF VersionInv
  <1>14. CASE \/ TurnAudit
              \/ \E i \in Ids : ServeAudit(i) \/ FailAudit(i) \/ ReceiveAudit(i)
    BY <1>6, <1>14 DEF TurnAudit, ServeAudit, FailAudit, ReceiveAudit
  <1>15. CASE UNCHANGED vars
    BY <1>6, <1>15 DEF vars
  <1> QED
    BY <1>7, <1>8, <1>9, <1>10, <1>11, <1>12, <1>13, <1>14, <1>15 DEF Next, System, Click

(* The newest answer stays on screen, and nobody is told of more. *)
LEMMA AcknowledgedKept ==
    ASSUME Assumptions, TypeOK, LoadInv, VersionInv, AcknowledgedIsShown, [Next]_vars
    PROVE  AcknowledgedIsShown'
  <1>1. loadRef \in Ids /\ loads \in [Ids -> LoadCall]
    BY DEF TypeOK
  <1>2. ~error /\ app # Nothing /\ loads[loadRef].state = "done" => app.version >= acked[app.of]
    BY DEF AcknowledgedIsShown, Visible
  <1> SUFFICES ASSUME ~error', app' # Nothing, loads'[loadRef'].state = "done"
               PROVE  app'.version >= acked'[app'.of]
    BY DEF AcknowledgedIsShown, Visible, Nothing
  <1> HIDE DEF Nothing
  <1>3. CASE UNCHANGED <<route, app, error, loads, loadRef>>
    <2>1. acked' = acked
      <3>1. ~ActionDone
        <4> SUFFICES ASSUME ActionDone PROVE FALSE
          OBVIOUS
        <4>1. loadRef' = loadRef + 1 /\ loadRef \in Nat
          BY <1>1, DoneType, LoadSends DEF TypeOK, Ids
        <4> QED
          BY <1>3, <4>1
      <3>2. CASE UNCHANGED vars
        BY <3>2 DEF vars
      <3>3. CASE Click
        BY <3>3, ClickKeeps
      <3>4. CASE ServeAction \/ FailAction
        BY <3>4, ActionTypes
      <3>5. CASE ActionRefused \/ Reloaded
        BY <3>5, FinishType
      <3>6. CASE \E a \in Apps : Move(a) \/ Review(a)
        BY <3>6 DEF Move, Review
      <3>7. CASE \E i \in Ids : \/ ServeLoad(i) \/ FailLoad(i) \/ ReceiveLoad(i)
                                \/ ServeAudit(i) \/ FailAudit(i) \/ ReceiveAudit(i)
        BY <3>7 DEF ServeLoad, FailLoad, ReceiveLoad, ServeAudit, FailAudit, ReceiveAudit
      <3>8. CASE TurnAudit
        BY <3>8 DEF TurnAudit
      <3> QED
        BY <3>1, <3>2, <3>3, <3>4, <3>5, <3>6, <3>7, <3>8 DEF Next, System, Click
    <2> QED
      BY <1>2, <1>3, <2>1
  <1>4. CASE \E i \in Ids : ServeLoad(i) \/ FailLoad(i) \/ ReceiveLoad(i)
    <2>1. PICK i \in Ids : ServeLoad(i) \/ FailLoad(i) \/ ReceiveLoad(i)
      BY <1>4
    <2>2. acked' = acked
      BY <2>1 DEF ServeLoad, FailLoad, ReceiveLoad
    <2>3. /\ \A j \in Ids : j # i => loads'[j] = loads[j]
          /\ loadRef' = loadRef
          /\ \/ loads'[i].state \in {"ok", "failed"} /\ app' = app /\ error' = error
             \/ /\ loads[i].state \in {"ok", "failed"}
                /\ app' = IF loads[i].state = "ok" /\ i = loadRef THEN loads[i].answer ELSE app
                /\ error' = (error \/ (loads[i].state = "failed" /\ i = loadRef))
      BY <2>1, LoadAnswers
    <2>4. CASE i = loadRef
      <3>1. loads[i].state = "ok" /\ app' = loads[i].answer
        BY <2>3, <2>4
      <3>2. app'.of = loads[i].of /\ app'.version >= acked[loads[i].of]
        BY <2>4, <3>1 DEF LoadInv, VersionInv
      <3> QED
        BY <2>2, <3>2
    <2>5. CASE i # loadRef
      <3>1. loads[loadRef].state = "done" /\ app' = app
        BY <1>1, <2>3, <2>5
      <3>2. ~error
        BY <2>3
      <3> QED
        BY <1>2, <2>2, <3>1, <3>2
    <2> QED
      BY <2>4, <2>5
  <1>5. CASE \E a \in Apps : Move(a)
    BY <1>5 DEF Move
  <1>6. CASE ActionDone
    BY <1>6, DoneType, LoadSends DEF TypeOK
  <1> QED
    BY <1>3, <1>4, <1>5, <1>6, LoadSteps

-----------------------------------------------------------------------------
(* The trail *)

(* What a step of loadAudit() does to its request. *)
LEMMA AuditAnswers ==
    ASSUME Assumptions, TypeOK, NEW i \in Ids,
           ServeAudit(i) \/ FailAudit(i) \/ ReceiveAudit(i)
    PROVE  /\ \A j \in Ids : j # i => audits'[j] = audits[j]
           /\ auditRef' = auditRef
           /\ audits'[i].state = "ok" => audits'[i].answer.of = audits'[i].of
                                         /\ audits'[i].answer.page = audits'[i].page
           /\ \/ /\ audits[i].state = "sent" /\ audits'[i].state \in {"ok", "failed"}
                 /\ audit' = audit /\ auditError' = auditError
              \/ /\ audits[i].state \in {"ok", "failed"} /\ audits'[i].state = "done"
                 /\ audits'[i].of = audits[i].of /\ audits'[i].page = audits[i].page
                 /\ audit' = IF audits[i].state = "ok" /\ i = auditRef
                             THEN audits[i].answer ELSE audit
                 /\ auditError' = (auditError \/ (audits[i].state = "failed" /\ i = auditRef))
  <1>1. audits \in [Ids -> AuditCall] /\ audits[i] \in AuditCall
    BY DEF TypeOK
  <1>2. CASE ServeAudit(i)
    <2>1. auditRef' = auditRef /\ audit' = audit /\ auditError' = auditError
      BY <1>2 DEF ServeAudit
    <2> QED
      BY <1>2, <2>1, ServeAuditAnswers
  <1>3. CASE FailAudit(i)
    <2>1. /\ audits' = [audits EXCEPT ![i].state = "failed"] /\ audits[i].state = "sent"
          /\ auditRef' = auditRef /\ audit' = audit /\ auditError' = auditError
      BY <1>3 DEF FailAudit
    <2>2. audits'[i] = [audits[i] EXCEPT !.state = "failed"]
      BY <1>1, <2>1
    <2>3. audits'[i].state = "failed"
      BY <1>1, <2>2 DEF AuditCall
    <2> QED
      BY <1>1, <2>1, <2>3
  <1>4. CASE ReceiveAudit(i)
    <2>1. /\ audits' = [audits EXCEPT ![i].state = "done"]
          /\ audits[i].state \in {"ok", "failed"} /\ auditRef' = auditRef
          /\ audit' = IF audits[i].state = "ok" /\ i = auditRef THEN audits[i].answer ELSE audit
          /\ auditError' = (auditError \/ (audits[i].state = "failed" /\ i = auditRef))
      BY <1>4 DEF ReceiveAudit, NewestAudit
    <2>2. audits'[i] = [audits[i] EXCEPT !.state = "done"]
      BY <1>1, <2>1
    <2>3. /\ audits'[i].of = audits[i].of /\ audits'[i].page = audits[i].page
          /\ audits'[i].state = "done"
      BY <1>1, <2>2 DEF AuditCall
    <2> QED
      BY <1>1, <2>1, <2>3
  <1> QED
    BY <1>2, <1>3, <1>4

(* The steps that matter to loadAudit(). *)
LEMMA AuditSteps ==
    ASSUME Assumptions, TypeOK, VersionInv, [Next]_vars
    PROVE  \/ UNCHANGED <<audit, auditError, audits, auditRef>>
           \/ \E i \in Ids : ServeAudit(i) \/ FailAudit(i) \/ ReceiveAudit(i)
           \/ \E a \in Apps, p \in AuditPages : LoadAudit(a, p) /\ audit' = audit
  <1>1. route \in Apps /\ 1 \in AuditPages
    BY Constants DEF TypeOK, AuditPages
  <1>2. CASE UNCHANGED vars
    BY <1>2 DEF vars, auditState
  <1>3. CASE \E i \in Ids : ServeLoad(i) \/ FailLoad(i) \/ ReceiveLoad(i)
    BY <1>3 DEF ServeLoad, FailLoad, ReceiveLoad, auditState
  <1>4. CASE \E a \in Apps : Review(a)
    BY <1>4 DEF Review, auditState
  <1>5. CASE \E a \in Apps : Move(a)
    BY <1>1, <1>5 DEF Move
  <1>6. CASE TurnAudit
    <2>1. auditPage' \in AuditPages
      BY <1>6, TurnType DEF TypeOK, AuditPages
    <2>2. audit' = audit
      BY <1>6 DEF TurnAudit
    <2>3. UNCHANGED <<audits, auditRef, auditError>> \/ LoadAudit(route, auditPage')
      BY <1>6 DEF TurnAudit
    <2> QED
      BY <1>1, <2>1, <2>2, <2>3
  <1>7. CASE Click
    BY <1>7, ClickKeeps DEF auditState
  <1>8. CASE ServeAction \/ FailAction
    BY <1>8, ActionTypes DEF auditState
  <1>9. CASE ActionDone
    BY <1>9, DoneType
  <1>10. CASE ActionRefused \/ Reloaded
    BY <1>10, FinishType DEF auditState
  <1> QED
    BY <1>2, <1>3, <1>4, <1>5, <1>6, <1>7, <1>8, <1>9, <1>10 DEF Next, System, Click

LEMMA TrailKept ==
    ASSUME Assumptions, TypeOK, VersionInv, TrailInv, TrailIsNewestAsked, [Next]_vars
    PROVE  TrailInv' /\ TrailIsNewestAsked'
  <1>1. auditRef \in Ids /\ Ids \subseteq Nat /\ Ids' = Ids
    BY DEF Ids, TypeOK
  <1>2. CASE UNCHANGED <<audit, auditError, audits, auditRef>>
    BY <1>1, <1>2 DEF TrailInv, TrailIsNewestAsked
  <1>3. CASE \E i \in Ids : ServeAudit(i) \/ FailAudit(i) \/ ReceiveAudit(i)
    <2>1. PICK i \in Ids : ServeAudit(i) \/ FailAudit(i) \/ ReceiveAudit(i)
      BY <1>3
    <2>2. /\ \A j \in Ids : j # i => audits'[j] = audits[j]
          /\ auditRef' = auditRef
          /\ audits'[i].state = "ok" => audits'[i].answer.of = audits'[i].of
                                        /\ audits'[i].answer.page = audits'[i].page
      BY <2>1, AuditAnswers
    <2>3. \/ /\ audits[i].state = "sent" /\ audits'[i].state \in {"ok", "failed"}
             /\ audit' = audit /\ auditError' = auditError
          \/ /\ audits[i].state \in {"ok", "failed"} /\ audits'[i].state = "done"
             /\ audits'[i].of = audits[i].of /\ audits'[i].page = audits[i].page
             /\ audit' = IF audits[i].state = "ok" /\ i = auditRef
                         THEN audits[i].answer ELSE audit
             /\ auditError' = (auditError \/ (audits[i].state = "failed" /\ i = auditRef))
      BY <2>1, AuditAnswers
    <2>4. TrailInv'
      BY <1>1, <2>2 DEF TrailInv
    <2>5. ASSUME audits'[auditRef'].state = "done", ~auditError'
          PROVE  audit'.of = audits'[auditRef'].of /\ audit'.page = audits'[auditRef'].page
      <3>1. CASE i = auditRef
        <4>1. /\ audits[i].state = "ok" /\ audit' = audits[i].answer
              /\ audits'[i].of = audits[i].of /\ audits'[i].page = audits[i].page
          BY <2>2, <2>3, <2>5, <3>1
        <4> QED
          BY <2>2, <3>1, <4>1 DEF TrailInv
      <3>2. CASE i # auditRef
        <4>1. audit' = audit /\ audits'[auditRef] = audits[auditRef]
          BY <1>1, <2>2, <2>3, <3>2
        <4>2. ~auditError
          BY <2>3, <2>5
        <4> QED
          BY <2>2, <2>5, <4>1, <4>2 DEF TrailIsNewestAsked
      <3> QED
        BY <3>1, <3>2
    <2> QED
      BY <2>4, <2>5 DEF TrailIsNewestAsked
  <1>4. CASE \E a \in Apps, p \in AuditPages : LoadAudit(a, p) /\ audit' = audit
    <2>1. /\ auditRef' \in Ids /\ audits'[auditRef'].state = "sent"
          /\ \A i \in Ids : i # auditRef' => audits'[i] = audits[i]
      BY <1>4, LoadAuditSends
    <2> QED
      BY <1>1, <2>1 DEF TrailInv, TrailIsNewestAsked
  <1> QED
    BY <1>2, <1>3, <1>4, AuditSteps

-----------------------------------------------------------------------------
(* Theorems *)

LEMMA InitHolds ==
    ASSUME Assumptions, Init
    PROVE  IInv
  <1>1. TypeOK /\ 1 \in Ids
    BY InitType, Constants DEF Ids
  <1>2. /\ loadRef = 1 /\ auditRef = 1 /\ app = Nothing /\ action = Idle
        /\ loads = [i \in Ids |-> IF i = 1 THEN [NoLoad EXCEPT !.state = "sent", !.of = route, !.at = route]
                                  ELSE NoLoad]
        /\ audits = [i \in Ids |-> IF i = 1 THEN [NoAudit EXCEPT !.state = "sent", !.of = route]
                                   ELSE NoAudit]
        /\ \A a \in Apps : acked[a] = 0
    BY DEF Init
  <1>3. /\ [NoLoad EXCEPT !.state = "sent", !.of = route, !.at = route]
             \in [state : {"sent"}, of : {route}, at : {route}, answer : {Nothing}]
        /\ [NoAudit EXCEPT !.state = "sent", !.of = route].state = "sent"
        /\ NoLoad.state = "none" /\ NoLoad.answer = Nothing
        /\ NoAudit.state = "none" /\ Idle.state = "idle"
    BY DEF NoLoad, NoAudit, Idle
  <1> HIDE DEF NoLoad, NoAudit, Idle, Nothing
  <1>4. /\ loads[1].state = "sent" /\ loads[1].at = route /\ loads[1].answer = Nothing
        /\ \A i \in Ids : i # 1 => loads[i] = NoLoad
        /\ audits[1].state = "sent"
        /\ \A i \in Ids : i # 1 => audits[i] = NoAudit
    BY <1>1, <1>2, <1>3
  <1>5. LoadInv
    BY <1>2, <1>3, <1>4 DEF LoadInv
  <1>6. VersionInv
    <2>1. \A a \in Apps : dossier[a].version \in Nat
      BY <1>1 DEF TypeOK, Dossier, Versions
    <2> QED
      BY <1>2, <1>3, <1>4, <2>1 DEF VersionInv
  <1>7. TrailInv /\ TrailIsNewestAsked
    BY <1>2, <1>3, <1>4 DEF TrailInv, TrailIsNewestAsked
  <1>8. ShownIsOfAddress /\ AcknowledgedIsShown
    BY <1>2 DEF ShownIsOfAddress, AcknowledgedIsShown, Visible
  <1> QED
    BY <1>1, <1>5, <1>6, <1>7, <1>8 DEF IInv

LEMMA NextHolds == ASSUME Assumptions, IInv, [Next]_vars PROVE IInv'
  BY NextType, LoadKept, VersionKept, TrailKept, ShownKept, AcknowledgedKept DEF IInv

(* The inductive invariant holds in every reachable state. *)
THEOREM PageInvariance ==
    ASSUME Assumptions PROVE Spec => []IInv
  <1>1. Init => IInv
    BY InitHolds
  <1>2. IInv /\ [Next]_vars => IInv'
    BY NextHolds
  <1> QED
    BY <1>1, <1>2, PTL DEF Spec

(* The page's state, its requests and the applications keep their types;   *)
(* the pager never leaves the pages there may be.                          *)
THEOREM PageTypes ==
    ASSUME Assumptions PROVE Spec => []TypeOK
  <1>1. IInv => TypeOK
    BY DEF IInv
  <1> QED
    BY <1>1, PageInvariance, PTL

(* loadRequestRef: whatever order answers come in, the page shows the      *)
(* application of its address, or one that runAction() of an earlier       *)
(* address has asked for.                                                  *)
THEOREM AddressIsShown ==
    ASSUME Assumptions PROVE Spec => []ShownIsOfAddress
  <1>1. IInv => ShownIsOfAddress
    BY DEF IInv
  <1> QED
    BY <1>1, PageInvariance, PTL

(* Once the newest load() is answered, the page shows every change its     *)
(* user was told of.                                                       *)
THEOREM AcknowledgedChangesAreShown ==
    ASSUME Assumptions PROVE Spec => []AcknowledgedIsShown
  <1>1. IInv => AcknowledgedIsShown
    BY DEF IInv
  <1> QED
    BY <1>1, PageInvariance, PTL

(* auditRequestRef: the entries shown are those asked for last, however    *)
(* fast pages are turned and whatever is reloaded meanwhile.               *)
THEOREM NewestTrailIsShown ==
    ASSUME Assumptions PROVE Spec => []TrailIsNewestAsked
  <1>1. IInv => TrailIsNewestAsked
    BY DEF IInv
  <1> QED
    BY <1>1, PageInvariance, PTL

=============================================================================
