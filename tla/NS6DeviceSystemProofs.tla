------------------------ MODULE NS6DeviceSystemProofs ------------------------
(***************************************************************************)
(* Proofs about the earlier driver's device service and its clients, for   *)
(* every number of helpers, handles, leases and queued requests.           *)
(*                                                                         *)
(* The leases of helper processes, at a service that stays up: a living    *)
(* helper's id is its own, hello takes a fresh one, so a request under     *)
(* that id came from this helper, even one it no longer waits for.  At     *)
(* most one request of a helper is still waited for, and it is the         *)
(* operation the helper is in: a late answer cannot be taken for the       *)
(* answer to a later request.                                              *)
(*                                                                         *)
(* The memory an I/O callback uses belongs to the handle that is           *)
(* published, or, between the replacement of a handle and the next         *)
(* publication, to the one that was: the monitor's wait for the readers    *)
(* is what ends that interval.                                             *)
(*                                                                         *)
(* The lease of the plug-in follows its running clients: the last part has *)
(* the invariant and the steps that need no counting; NS6HALProofs         *)
(* completes it.                                                           *)
(***************************************************************************)
EXTENDS NS6DeviceSystem, TLAPS

-----------------------------------------------------------------------------
(* The leases of helpers: the invariant and the service's steps            *)

Pids == Processes \union {0}
ClientValue == [id : Nat, session : Nat]
LeaseValue == [id : Nat, process : Pids, active : BOOLEAN]
RequestValue ==
  [kind : {"none", "hello", "state", "active", "buffer", "release"}, from : Pids, id : Nat,
   session : Nat, value : Nat \union Buffers, expected : BOOLEAN]
AnswerValue ==
  [state : {"idle", "waiting", "failed", "replied"}, status : {"none", "ok", "full", "badId", "failed"},
   session : Nat]
Places ==
  {"down", "receive", "handle", "reapCheck", "check", "reapStore", "store", "reply", "restart",
   "starting"}
ServiceValue ==
  [up : BOOLEAN, session : Nat, leases : SUBSET LeaseValue, audioActive : BOOLEAN,
   buffer : Nat \union Buffers, at : Places,
   request : RequestValue, stopping : BOOLEAN]

LeaseTypeOK ==
  /\ client \in [Handles -> ClientValue] /\ service \in ServiceValue
  /\ port \in Seq(RequestValue) /\ answer \in [Processes -> AnswerValue]
  /\ call \in [Helpers -> {"none", "hello", "active", "buffer", "release"}]

Own(p) == client[HandleOf(p)]
Living == alive \intersect Helpers
HoldsLease(p) == Own(p).id # 0 /\ \E l \in service.leases : l.id = Own(p).id /\ l.process = p

\* A request that somebody waits for is the one its helper is in.
Current(r) ==
  r.expected =>
    /\ r.from \in Living /\ r.kind # "none" /\ r.kind = call[r.from] /\ r.id = Own(r.from).id
    /\ r.id # 0 /\ answer[r.from].state = "waiting"

\* It is the only one of that helper.
OneEach ==
  /\ \A i, j \in 1..Len(port) :
       port[i].expected /\ port[j].expected /\ port[i].from = port[j].from => i = j
  /\ \A i \in 1..Len(port) :
       ~(service.request.expected /\ port[i].expected /\ service.request.from = port[i].from)

\* A request under the id of a living helper is that helper's own, and releases the
\* lease only if the helper is in its disconnect.
Faithful(r) ==
  \A p \in Living : r.id = Own(p).id /\ r.id # 0
                    => r.from = p /\ (r.kind = "release" => call[p] = "release")

\* The lease is there from the good answer to hello until the disconnect.
LeaseHeld(p) ==
  /\ Own(p).session # 0 => service.up /\ (call[p] # "release" => HoldsLease(p))
  /\ call[p] = "hello" => Own(p).session = 0
  /\ call[p] = "hello" /\ Succeeded(p) => service.up /\ HoldsLease(p)

\* The service leaves handle_hello with its answer: what it does later is for others.
PastHello ==
  service.at \in {"check", "store", "reply", "restart", "starting"} => service.request.kind # "hello"

LeaseInv ==
  /\ LeaseTypeOK /\ PastHello
  /\ \A r \in Requests : Current(r) /\ Faithful(r)
  /\ OneEach
  /\ \A p, q \in Living : Own(p).id = Own(q).id /\ Own(p).id # 0 => p = q
  /\ \A p \in Living : LeaseHeld(p)
  /\ \A p \in Helpers \ alive : Own(p) = NoClient /\ call[p] = "none"
  /\ service.up => service.session # 0
  /\ ~service.up => service.at = "down"

\* Each helper has a handle of its own.
LEMMA OwnHandle ==
  /\ \A p \in Helpers : HandleOf(p) \in Handles /\ Owner[HandleOf(p)] = p /\ p \in Processes
  /\ \A p, q \in Helpers : HandleOf(p) = HandleOf(q) => p = q
BY Zenon, HelpersAssumption DEF HandleOf

LEMMA RequestsTyped ==
  ASSUME LeaseTypeOK
  PROVE  /\ service.request \in RequestValue /\ Requests \subseteq RequestValue
         /\ \A i \in 1..Len(port) : port[i] \in RequestValue /\ port[i] \in Requests
         /\ service.request \in Requests
BY DEF LeaseTypeOK, ServiceValue, Requests

LEMMA QueueUnchanged ==
  ASSUME LeaseInv, UNCHANGED <<port, service>>
  PROVE  PastHello' /\ OneEach' /\ Requests' = Requests
<1>1. PastHello /\ OneEach
  BY Zenon DEF LeaseInv
<1>2. PastHello'
  BY Zenon, <1>1 DEF PastHello
<1>3. OneEach'
  BY Zenon, <1>1 DEF OneEach
<1>4. Requests' = Requests
  BY Zenon DEF Requests
<1> QED BY Zenon, <1>2, <1>3, <1>4

\* The service thread's steps: what it may do to requests, answers and leases.
LEMMA ServiceSideInv ==
  ASSUME LeaseInv, service.up, UNCHANGED <<alive, client, call>>, LeaseTypeOK', PastHello', OneEach',
         service'.up, service'.session = service.session,
         \A r \in Requests' : r \in Requests \/ (~r.expected /\ r.id = 0),
         \A r \in Requests' : r.expected => answer'[r.from].state = "waiting",
         \A p \in Living : HoldsLease(p) /\ call[p] # "release" => HoldsLease(p)',
         \A p \in Living : call[p] = "hello" /\ Succeeded(p)' => Succeeded(p) \/ HoldsLease(p)'
  PROVE  LeaseInv'
<1>1. Living' = Living /\ \A p : Own(p)' = Own(p)
  BY Zenon DEF Living, Own, HandleOf
<1>2. ASSUME NEW r \in Requests' PROVE Current(r)' /\ Faithful(r)'
  BY <1>1 DEF LeaseInv, Current, Faithful
<1>3. \A p \in Living : LeaseHeld(p)'
  BY Zenon, <1>1 DEF LeaseInv, LeaseHeld
<1> QED BY Zenon, <1>1, <1>2, <1>3 DEF LeaseInv

\* Steps that neither take a request nor answer one.
LEMMA LeasesOnlyInv ==
  ASSUME LeaseInv, service.up, UNCHANGED <<alive, client, call, port, answer>>, PastHello',
         service' \in ServiceValue, service'.up, service'.session = service.session,
         service'.request = service.request,
         \A p \in Living : HoldsLease(p) /\ call[p] # "release" => HoldsLease(p)'
  PROVE  LeaseInv'
<1>1. LeaseTypeOK'
  BY Zenon DEF LeaseInv, LeaseTypeOK
<1>2. OneEach' /\ Requests' = Requests /\ \A p : Succeeded(p)' = Succeeded(p)
  BY DEF LeaseInv, OneEach, Requests, Succeeded
<1>3. \A r \in Requests' : r.expected => answer'[r.from].state = "waiting"
  BY Zenon, <1>2 DEF LeaseInv, Current
<1> QED BY Zenon, <1>1, <1>2, <1>3, ServiceSideInv

\* Steps that answer the request being handled.
LEMMA AnsweredInv ==
  ASSUME LeaseInv, service.up, UNCHANGED <<alive, client, call, port>>,
         service' \in ServiceValue, service'.up, service'.session = service.session,
         service'.request = NoRequest,
         NEW status \in {"ok", "full", "badId", "failed"},
         Answer(service.request, status, service.session),
         \A p \in Living : HoldsLease(p) => HoldsLease(p)',
         \A p \in Living :
           service.request.expected /\ service.request.from = p /\ service.request.kind = "hello"
             /\ service.request.id = Own(p).id /\ service.request.id # 0 /\ status = "ok"
           => HoldsLease(p)'
  PROVE  LeaseInv'
<1> DEFINE r == service.request
<1>1. /\ r \in RequestValue /\ r \in Requests /\ answer \in [Processes -> AnswerValue]
      /\ \A i \in 1..Len(port) : port[i] \in RequestValue /\ port[i] \in Requests
  BY Zenon, RequestsTyped DEF LeaseInv, LeaseTypeOK
<1>2. Current(r) /\ r.expected \in BOOLEAN
  BY Zenon, <1>1 DEF LeaseInv, RequestValue
<1>3. Replied(status, service.session) \in AnswerValue
  BY Zenon DEF Replied, AnswerValue, LeaseInv, LeaseTypeOK, ServiceValue
<1>4. /\ answer' \in [Processes -> AnswerValue]
      /\ \A q \in Processes : answer'[q] # answer[q] => r.expected /\ q = r.from
      /\ r.expected /\ r.from \in Processes => answer'[r.from] = Replied(status, service.session)
  BY Zenon, <1>1, <1>3 DEF Answer
<1>5. LeaseTypeOK'
  BY Zenon, <1>4 DEF LeaseInv, LeaseTypeOK
<1>6. OneEach' /\ PastHello'
  BY DEF LeaseInv, OneEach, PastHello, NoRequest
<1>7. \A q \in Requests' : q = NoRequest \/ \E i \in 1..Len(port) : q = port[i]
  BY Zenon DEF Requests
<1>8. \A q \in Requests' : q \in Requests \/ (~q.expected /\ q.id = 0)
  BY <1>1, <1>7 DEF NoRequest
<1>9. ASSUME NEW q \in Requests', q.expected PROVE answer'[q.from].state = "waiting"
  <2>1. PICK i \in 1..Len(port) : q = port[i]
    BY <1>7, <1>9 DEF NoRequest
  <2>2. q.from \in Living /\ answer[q.from].state = "waiting"
    BY Zenon, <1>1, <1>9, <2>1 DEF LeaseInv, Current
  <2>3. ~(r.expected /\ q.from = r.from)
    BY Zenon, <1>9, <2>1 DEF LeaseInv, OneEach
  <2>4. q.from \in Processes
    BY Zenon, <2>2, OwnHandle DEF Living
  <2> QED BY Zenon, <1>4, <2>2, <2>3, <2>4
<1>10. ASSUME NEW p \in Living, call[p] = "hello", Succeeded(p)' PROVE Succeeded(p) \/ HoldsLease(p)'
  <2>1. p \in Processes
    BY Zenon, OwnHandle DEF Living
  <2>2. CASE answer'[p] = answer[p]
    BY Zenon, <1>10, <2>2 DEF Succeeded
  <2>3. CASE answer'[p] # answer[p]
    <3>1. r.expected /\ p = r.from /\ answer'[p] = Replied(status, service.session)
      BY Zenon, <1>4, <2>1, <2>3
    <3>2. status = "ok"
      BY <1>10, <3>1 DEF Succeeded, Replied
    <3>3. r.kind = "hello" /\ r.id = Own(p).id /\ r.id # 0
      BY Zenon, <1>2, <1>10, <3>1 DEF Current
    <3> QED BY Zenon, <3>1, <3>2, <3>3
  <2> QED BY Zenon, <2>2, <2>3
<1> QED BY Zenon, <1>5, <1>6, <1>8, <1>9, <1>10, ServiceSideInv

\* update_audio_active_from_clients changes the registry, audio_active and the place.
LEMMA WithLeasesType ==
  ASSUME service \in ServiceValue
  PROVE  \A leases \in SUBSET LeaseValue, a, b \in Places :
           /\ WithLeases(leases, a, b) \in ServiceValue
           /\ WithLeases(leases, a, b).leases = leases
           /\ WithLeases(leases, a, b).up = service.up
           /\ WithLeases(leases, a, b).session = service.session
           /\ WithLeases(leases, a, b).request = service.request
<1> SUFFICES ASSUME NEW leases \in SUBSET LeaseValue, NEW a \in Places, NEW b \in Places
             PROVE  /\ WithLeases(leases, a, b) \in ServiceValue
                    /\ WithLeases(leases, a, b).leases = leases
                    /\ WithLeases(leases, a, b).up = service.up
                    /\ WithLeases(leases, a, b).session = service.session
                    /\ WithLeases(leases, a, b).request = service.request
  BY Zenon
<1> DEFINE at == IF AnyAudioActive(leases) # service.audioActive THEN a ELSE b
<1>1. at \in Places
  BY Zenon
<1>2. CASE AnyAudioActive(leases)
  <2>1. WithLeases(leases, a, b) = [service EXCEPT !.leases = leases, !.audioActive = TRUE, !.at = at]
    BY Zenon, <1>2 DEF WithLeases, AnyAudioActive
  <2> HIDE DEF at
  <2> QED BY ZenonT(90), <1>1, <2>1 DEF ServiceValue
<1>3. CASE ~AnyAudioActive(leases)
  <2>1. WithLeases(leases, a, b) = [service EXCEPT !.leases = leases, !.audioActive = FALSE, !.at = at]
    BY Zenon, <1>3 DEF WithLeases, AnyAudioActive
  <2> HIDE DEF at
  <2> QED BY ZenonT(90), <1>1, <2>1 DEF ServiceValue
<1> QED BY Zenon, <1>2, <1>3

LEMMA WithLeasesAt ==
  ASSUME service \in ServiceValue
  PROVE  \A leases, a, b : WithLeases(leases, a, b).at = a \/ WithLeases(leases, a, b).at = b
BY Zenon DEF WithLeases, ServiceValue, AnyAudioActive

LEMMA ServiceReceiveInv ==
  ASSUME LeaseInv, service.up, UNCHANGED <<client, call>>, ServiceReceive
  PROVE  LeaseInv'
<1> DEFINE request == IF port = <<>> THEN NoRequest ELSE Head(port)
           next == IF port = <<>> THEN "receive" ELSE "handle"
           reaped == Reap(service.leases)
           base == IF reaped = service.leases THEN [service EXCEPT !.at = next]
                   ELSE WithLeases(reaped, "reapCheck", next)
<1>1. /\ port' = IF port = <<>> THEN port ELSE Tail(port)
      /\ service' = [base EXCEPT !.request = request]
      /\ UNCHANGED <<alive, answer>>
  BY Zenon DEF ServiceReceive
<1>2. service \in ServiceValue /\ port \in Seq(RequestValue) /\ answer \in [Processes -> AnswerValue]
  BY Zenon DEF LeaseInv, LeaseTypeOK
<1>3. reaped \in SUBSET LeaseValue /\ next \in Places /\ "reapCheck" \in Places
  BY Zenon, <1>2 DEF Reap, ServiceValue, Places
<1>4. NoRequest \in RequestValue
  BY Zenon DEF NoRequest, RequestValue, Pids
<1>5. request \in RequestValue
  BY <1>2, <1>4
<1>6. base \in ServiceValue /\ base.leases = reaped /\ base.up = service.up
      /\ base.session = service.session /\ base.at \in {"receive", "handle", "reapCheck"}
  <2>1. CASE reaped = service.leases
    BY Zenon, <1>2, <1>3, <2>1 DEF ServiceValue
  <2>2. CASE reaped # service.leases
    <3>1. base = WithLeases(reaped, "reapCheck", next) /\ next \in {"receive", "handle"}
      BY Zenon, <2>2
    <3> HIDE DEF reaped, next, base
    <3>2. base \in ServiceValue /\ base.leases = reaped /\ base.up = service.up
          /\ base.session = service.session
      BY ZenonT(90), <1>2, <1>3, <3>1, WithLeasesType
    <3>3. base.at = "reapCheck" \/ base.at = next
      BY <1>2, <3>1, WithLeasesAt
    <3> QED BY Zenon, <3>1, <3>2, <3>3
  <2> QED BY Zenon, <2>1, <2>2
<1>7. service' \in ServiceValue /\ service'.leases = reaped /\ service'.up
      /\ service'.session = service.session /\ service'.request = request
      /\ service'.at \in {"receive", "handle", "reapCheck"}
  <2> HIDE DEF base, reaped, request
  <2> QED BY Zenon, <1>1, <1>5, <1>6 DEF ServiceValue
<1>8. ASSUME NEW p \in Living, HoldsLease(p) PROVE HoldsLease(p)'
  BY Zenon, <1>7, <1>8 DEF HoldsLease, Living, Reap, Own, HandleOf
<1>9. /\ port' \in Seq(RequestValue)
      /\ port = <<>> => port' = <<>> /\ Len(port') = 0 /\ service'.request = NoRequest
      /\ port # <<>> => /\ Len(port) \in Nat /\ Len(port') = Len(port) - 1 /\ Len(port) >= 1
                        /\ \A i \in 1..Len(port') : port'[i] = port[i + 1] /\ i + 1 \in 1..Len(port)
                        /\ service'.request = port[1] /\ 1 \in 1..Len(port)
  BY <1>1, <1>2, <1>7
<1>10. LeaseTypeOK' /\ PastHello'
  BY Zenon, <1>1, <1>7, <1>9 DEF LeaseInv, LeaseTypeOK, PastHello
<1> HIDE DEF request, next, reaped, base
<1>11. \A r \in Requests' : r = NoRequest \/ \E i \in 1..Len(port) : r = port[i]
  BY Zenon, <1>9 DEF Requests
<1>12. \A r \in Requests' : r \in Requests \/ (~r.expected /\ r.id = 0)
  BY <1>11 DEF Requests, NoRequest
<1>13. OneEach'
  <2>1. CASE port = <<>>
    BY <1>9, <2>1 DEF OneEach
  <2>2. CASE port # <<>>
    <3>1. ASSUME NEW i \in 1..Len(port'), NEW j \in 1..Len(port'), port'[i].expected,
                 port'[j].expected, port'[i].from = port'[j].from
          PROVE  i = j
      <4>1. /\ port'[i] = port[i + 1] /\ i + 1 \in 1..Len(port)
            /\ port'[j] = port[j + 1] /\ j + 1 \in 1..Len(port)
        BY Zenon, <1>9, <2>2
      <4>2. \A a, b \in 1..Len(port) :
              port[a].expected /\ port[b].expected /\ port[a].from = port[b].from => a = b
        BY Zenon DEF LeaseInv, OneEach
      <4>3. i + 1 = j + 1
        BY Zenon, <3>1, <4>1, <4>2
      <4> QED BY <4>3
    <3>2. ASSUME NEW i \in 1..Len(port'), service'.request.expected, port'[i].expected,
                 service'.request.from = port'[i].from
          PROVE  FALSE
      <4>1. i + 1 = 1
        BY <1>9, <2>2, <3>2 DEF LeaseInv, OneEach
      <4> QED BY <4>1
    <3> QED BY Zenon, <3>1, <3>2 DEF OneEach
  <2> QED BY Zenon, <2>1, <2>2
<1>14. \A r \in Requests' : r.expected => answer'[r.from].state = "waiting"
  BY Zenon, <1>1, <1>12, RequestsTyped DEF LeaseInv, Current, NoRequest
<1> QED BY Zenon, <1>1, <1>7, <1>8, <1>10, <1>12, <1>13, <1>14, ServiceSideInv DEF LeaseInv, Succeeded

\* What handling a request leaves of the service record.
LEMMA HandledType ==
  ASSUME service \in ServiceValue
  PROVE  /\ Handled \in ServiceValue /\ Handled.leases = service.leases /\ Handled.up = service.up
         /\ Handled.session = service.session /\ Handled.request = NoRequest
<1>1. NoRequest \in RequestValue
  BY Zenon DEF NoRequest, RequestValue, Pids
<1> QED BY Zenon, <1>1 DEF Handled, ServiceValue, Places

LEMMA ServiceStepInv ==
  ASSUME LeaseInv, UNCHANGED <<client, call>>, ServiceStep
  PROVE  LeaseInv'
<1>1. service.up /\ service \in ServiceValue /\ alive' = alive
  BY Zenon DEF LeaseInv, LeaseTypeOK, ServiceValue, ServiceStep, ServiceReceive, ServiceCheckPause,
     ServiceStorePause, ServiceReply, HandleHello, HandleState, HandleUnknown, HandleAudioActive,
     HandleRelease, HandleStartupBuffer, ServiceRestart, ServiceStarted, Handling
<1> DEFINE r == service.request
<1>2. r \in RequestValue /\ r \in Requests /\ Current(r) /\ Faithful(r)
  BY Zenon, RequestsTyped DEF LeaseInv
<1>3. CASE ServiceReceive
  BY Zenon, <1>1, <1>3, ServiceReceiveInv
<1>4. ASSUME NEW at \in Places, service' = [service EXCEPT !.at = at], UNCHANGED <<port, answer>>,
             at \in {"receive", "handle", "reapStore"} \/ r.kind # "hello"
      PROVE  LeaseInv'
  <2>1. service' \in ServiceValue /\ service'.leases = service.leases /\ service'.up
        /\ service'.session = service.session /\ service'.request = service.request /\ PastHello'
    BY Zenon, <1>1, <1>4 DEF ServiceValue, PastHello
  <2> QED BY Zenon, <1>1, <1>4, <2>1, LeasesOnlyInv DEF HoldsLease, Own, HandleOf
<1>5. CASE ServiceCheckPause
  BY Zenon, <1>4, <1>5 DEF ServiceCheckPause, Places, LeaseInv, PastHello
<1>6. CASE ServiceStorePause
  BY Zenon, <1>4, <1>6 DEF ServiceStorePause, Places, LeaseInv, PastHello
<1>7. CASE ServiceRestart
  BY Zenon, <1>4, <1>7 DEF ServiceRestart, Places, LeaseInv, PastHello
<1>8. CASE HandleStartupBuffer
  <2>1. PICK at \in Places : service' = [service EXCEPT !.buffer = r.value, !.at = at]
    BY Zenon, <1>8 DEF HandleStartupBuffer, Places
  <2>2. service' \in ServiceValue /\ service'.leases = service.leases /\ service'.up
        /\ service'.session = service.session /\ service'.request = service.request
    BY Zenon, <1>1, <1>2, <2>1 DEF ServiceValue, RequestValue
  <2>3. PastHello'
    BY Zenon, <1>8, <2>2 DEF HandleStartupBuffer, Handling, PastHello
  <2> QED BY Zenon, <1>1, <1>8, <2>2, <2>3, LeasesOnlyInv DEF HandleStartupBuffer, HoldsLease, Own, HandleOf
<1>9. CASE HandleAudioActive
  <2> DEFINE leases == SetActive(service.leases, r.id, r.value # 0)
  <2>1. leases \in SUBSET LeaseValue
        /\ \A l \in service.leases : \E m \in leases : m.id = l.id /\ m.process = l.process
    <3>1. service.leases \in SUBSET LeaseValue
      BY Zenon, <1>1 DEF ServiceValue
    <3>2. CASE r.value # 0
      <4>1. leases = {IF l.id = r.id THEN [l EXCEPT !.active = TRUE] ELSE l : l \in service.leases}
        BY Zenon, <3>2 DEF SetActive
      <4> HIDE DEF leases
      <4>2. \A l \in service.leases :
              /\ [l EXCEPT !.active = TRUE] \in LeaseValue /\ l \in LeaseValue
              /\ [l EXCEPT !.active = TRUE].id = l.id /\ [l EXCEPT !.active = TRUE].process = l.process
        BY Zenon, <3>1 DEF LeaseValue
      <4>3. leases \in SUBSET LeaseValue
        BY Zenon, <4>1, <4>2
      <4>4. \A l \in service.leases : l \in leases \/ [l EXCEPT !.active = TRUE] \in leases
        BY Zenon, <4>1
      <4> QED BY Zenon, <4>2, <4>3, <4>4
    <3>3. CASE r.value = 0
      <4>1. leases = {IF l.id = r.id THEN [l EXCEPT !.active = FALSE] ELSE l : l \in service.leases}
        BY Zenon, <3>3 DEF SetActive
      <4> HIDE DEF leases
      <4>2. \A l \in service.leases :
              /\ [l EXCEPT !.active = FALSE] \in LeaseValue /\ l \in LeaseValue
              /\ [l EXCEPT !.active = FALSE].id = l.id /\ [l EXCEPT !.active = FALSE].process = l.process
        BY Zenon, <3>1 DEF LeaseValue
      <4>3. leases \in SUBSET LeaseValue
        BY Zenon, <4>1, <4>2
      <4>4. \A l \in service.leases : l \in leases \/ [l EXCEPT !.active = FALSE] \in leases
        BY Zenon, <4>1
      <4> QED BY Zenon, <4>2, <4>3, <4>4
    <3> QED BY Zenon, <3>2, <3>3
  <2>2. service' = WithLeases(leases, "check", "reply") /\ UNCHANGED <<port, answer>>
        /\ r.kind = "active"
    BY Zenon, <1>9 DEF HandleAudioActive, Handling
  <2> HIDE DEF leases
  <2>3. service' \in ServiceValue /\ service'.leases = leases /\ service'.up
        /\ service'.session = service.session /\ service'.request = service.request /\ PastHello'
    <3>1. "check" \in Places /\ "reply" \in Places
      BY Zenon DEF Places
    <3>2. service' \in ServiceValue /\ service'.leases = leases /\ service'.up = service.up
          /\ service'.session = service.session /\ service'.request = service.request
      BY ZenonT(90), <1>1, <2>1, <2>2, <3>1, WithLeasesType
    <3> QED BY Zenon, <1>1, <2>2, <3>2 DEF PastHello
  <2> QED BY <1>1, <2>1, <2>2, <2>3, LeasesOnlyInv DEF HoldsLease, Own, HandleOf
<1>10. CASE HandleRelease
  <2> DEFINE leases == Detach(service.leases, r.id)
  <2>1. leases \in SUBSET LeaseValue
        /\ \A l \in service.leases : l.id # r.id => l \in leases
    BY Zenon, <1>1 DEF ServiceValue, Detach
  <2>2. service' = WithLeases(leases, "check", "reply") /\ UNCHANGED <<port, answer>>
        /\ r.kind = "release"
    BY Zenon, <1>10 DEF HandleRelease, Handling
  <2> HIDE DEF leases
  <2>3. service' \in ServiceValue /\ service'.leases = leases /\ service'.up
        /\ service'.session = service.session /\ service'.request = service.request /\ PastHello'
    <3>1. "check" \in Places /\ "reply" \in Places
      BY Zenon DEF Places
    <3>2. service' \in ServiceValue /\ service'.leases = leases /\ service'.up = service.up
          /\ service'.session = service.session /\ service'.request = service.request
      BY ZenonT(90), <1>1, <2>1, <2>2, <3>1, WithLeasesType
    <3> QED BY Zenon, <1>1, <2>2, <3>2 DEF PastHello
  <2>4. ASSUME NEW p \in Living, HoldsLease(p), call[p] # "release" PROVE HoldsLease(p)'
    <3>1. Own(p).id # r.id
      BY Zenon, <1>2, <2>2, <2>4 DEF Faithful, HoldsLease
    <3> QED BY Zenon, <2>1, <2>3, <2>4, <3>1 DEF HoldsLease, Own, HandleOf
  <2> QED BY Zenon, <1>1, <2>2, <2>3, <2>4, LeasesOnlyInv
<1>11. ASSUME service' = Handled, UNCHANGED port, r.kind # "hello",
              NEW status \in {"ok", "full", "badId", "failed"}, Answer(r, status, service.session)
       PROVE  LeaseInv'
  <2>1. service' \in ServiceValue /\ service'.leases = service.leases /\ service'.up
        /\ service'.session = service.session /\ service'.request = NoRequest
    BY Zenon, <1>1, <1>11, HandledType
  <2> QED BY Zenon, <1>1, <1>11, <2>1, AnsweredInv DEF HoldsLease, Own, HandleOf
<1>12. CASE ServiceReply
  BY Zenon, <1>11, <1>12 DEF ServiceReply, LeaseInv, PastHello
<1>13. CASE HandleState
  BY Zenon, <1>11, <1>13 DEF HandleState, Handling
<1>14. CASE HandleUnknown
  BY Zenon, <1>11, <1>14 DEF HandleUnknown, Handling
<1>15. CASE ServiceStarted
  BY Zenon, <1>11, <1>15 DEF ServiceStarted, LeaseInv, PastHello
<1>16. CASE HandleHello
  <2> DEFINE fits == CanAttach(service.leases, r.id)
             leases == IF fits THEN Attach(service.leases, r.id, r.from) ELSE service.leases
             status == IF fits THEN "ok" ELSE "full"
  <2>1. service' = [Handled EXCEPT !.leases = leases] /\ Answer(r, status, service.session)
        /\ UNCHANGED port
    BY Zenon, <1>16, <1>1, HandledType DEF HandleHello
  <2>2. leases \in SUBSET LeaseValue
    <3>1. service.leases \in SUBSET LeaseValue /\ r.id \in Nat /\ r.from \in Pids
      BY Zenon, <1>1, <1>2 DEF ServiceValue, RequestValue
    <3>2. [id |-> r.id, process |-> r.from, active |-> FALSE] \in LeaseValue
          /\ \A l \in service.leases : [l EXCEPT !.process = r.from] \in LeaseValue
      BY Zenon, <3>1 DEF LeaseValue
    <3> QED BY Zenon, <3>1, <3>2 DEF Attach
  <2>3. ASSUME NEW p \in Living, HoldsLease(p)
        PROVE  \E l \in leases : l.id = Own(p).id /\ l.process = p
    <3>1. r.id = Own(p).id => r.from = p
      BY Zenon, <1>2, <2>3 DEF Faithful, HoldsLease
    <3>2. service.leases \in SUBSET LeaseValue
      BY Zenon, <1>1 DEF ServiceValue
    <3>3. PICK l \in service.leases : l.id = Own(p).id /\ l.process = p
      BY Zenon, <2>3 DEF HoldsLease
    <3>4. CASE ~fits \/ l.id # r.id \/ ~Contains(service.leases, r.id)
      <4>1. l \in leases
        BY Zenon, <3>3, <3>4 DEF Attach
      <4> QED BY Zenon, <3>3, <4>1
    <3>5. CASE fits /\ l.id = r.id /\ Contains(service.leases, r.id)
      <4>1. [l EXCEPT !.process = r.from] \in leases
        BY Zenon, <3>3, <3>5 DEF Attach
      <4>2. [l EXCEPT !.process = r.from].id = l.id /\ [l EXCEPT !.process = r.from].process = p
        BY Zenon, <3>1, <3>2, <3>3, <3>5 DEF LeaseValue
      <4> QED BY Zenon, <3>3, <4>1, <4>2
    <3> QED BY Zenon, <3>4, <3>5
  <2>4. ASSUME fits PROVE \E l \in leases : l.id = r.id /\ l.process = r.from
    <3>1. service.leases \in SUBSET LeaseValue
      BY Zenon, <1>1 DEF ServiceValue
    <3>2. CASE Contains(service.leases, r.id)
      <4>1. PICK l \in service.leases : l.id = r.id
        BY Zenon, <3>2 DEF Contains
      <4>2. [l EXCEPT !.process = r.from] \in leases
        BY Zenon, <2>4, <3>2, <4>1 DEF Attach
      <4>3. [l EXCEPT !.process = r.from].id = l.id /\ [l EXCEPT !.process = r.from].process = r.from
        BY Zenon, <3>1, <4>1 DEF LeaseValue
      <4> QED BY Zenon, <4>1, <4>2, <4>3
    <3>3. CASE ~Contains(service.leases, r.id)
      <4>1. [id |-> r.id, process |-> r.from, active |-> FALSE] \in leases
        BY Zenon, <2>4, <3>3 DEF Attach
      <4> HIDE DEF leases
      <4> QED BY Zenon, <4>1
    <3> QED BY Zenon, <3>2, <3>3
  <2>5. status \in {"ok", "full", "badId", "failed"} /\ (status = "ok" => fits)
    BY Zenon
  <2> HIDE DEF leases, status, fits
  <2>6. service' \in ServiceValue /\ service'.leases = leases /\ service'.up
        /\ service'.session = service.session /\ service'.request = NoRequest
    BY Zenon, <1>1, <2>1, <2>2, HandledType DEF ServiceValue
  <2>7. \A p \in Living : HoldsLease(p) => HoldsLease(p)'
    BY Zenon, <2>3, <2>6 DEF HoldsLease, Own, HandleOf
  <2>8. \A p \in Living : r.from = p /\ r.id = Own(p).id /\ r.id # 0 /\ status = "ok" => HoldsLease(p)'
    BY Zenon, <2>4, <2>5, <2>6 DEF HoldsLease, Own, HandleOf
  <2>9. PICK st \in {"ok", "full", "badId", "failed"} : st = status
    BY Zenon, <2>5
  <2>10. Answer(r, st, service.session)
    BY Zenon, <2>1, <2>9
  <2> QED BY Zenon, <1>1, <2>1, <2>6, <2>7, <2>8, <2>9, <2>10, AnsweredInv
<1> QED BY Zenon, <1>3, <1>5, <1>6, <1>7, <1>8, <1>9, <1>10, <1>12, <1>13, <1>14, <1>15, <1>16 DEF ServiceStep

\* A step of one helper: the others and their leases are as they were.
LEMMA OneHelperInv ==
  ASSUME LeaseInv, NEW p \in Helpers, LeaseTypeOK', PastHello', OneEach',
         service'.leases = service.leases, service'.up = service.up,
         service'.session = service.session, service'.at = service.at,
         \A q \in Helpers \ {p} : /\ Own(q)' = Own(q) /\ call'[q] = call[q] /\ answer'[q] = answer[q]
                                  /\ q \in alive' <=> q \in alive,
         \A r \in Requests' : Current(r)' /\ Faithful(r)',
         p \in alive' => LeaseHeld(p)',
         \A q \in Living \ {p} : p \in alive' /\ Own(p)'.id # 0 => Own(p)'.id # Own(q).id,
         p \notin alive' => Own(p)' = NoClient /\ call'[p] = "none"
  PROVE  LeaseInv'
<1>1. \A q \in Helpers \ {p} : q \in Living' <=> q \in Living
  BY Zenon DEF Living
<1>2. ASSUME NEW q \in Living' PROVE LeaseHeld(q)'
  <2>1. CASE q = p
    BY Zenon, <1>2, <2>1 DEF Living
  <2>2. CASE q # p
    <3>1. q \in Living /\ q \in Helpers \ {p} /\ LeaseHeld(q)
      BY Zenon, <1>1, <1>2, <2>2 DEF Living, LeaseInv
    <3>2. Own(q)' = Own(q) /\ call'[q] = call[q] /\ answer'[q] = answer[q]
      BY Zenon, <3>1
    <3>3. (HoldsLease(q)' <=> HoldsLease(q)) /\ (Succeeded(q)' <=> Succeeded(q))
      BY Zenon, <3>2 DEF HoldsLease, Succeeded
    <3> QED BY Zenon, <3>1, <3>2, <3>3 DEF LeaseHeld
  <2> QED BY Zenon, <2>1, <2>2
<1>3. ASSUME NEW q \in Living', NEW s \in Living', Own(q)'.id = Own(s)'.id, Own(q)'.id # 0 PROVE q = s
  BY <1>1, <1>3 DEF LeaseInv, Living
<1>4. \A q \in Helpers \ alive' : Own(q)' = NoClient /\ call'[q] = "none"
  BY Zenon DEF LeaseInv
<1> QED BY Zenon, <1>2, <1>3, <1>4 DEF LeaseInv

\* exchange_message by a helper that is in no operation.
LEMMA SendInv ==
  ASSUME LeaseInv, NEW p \in Living, call[p] = "none", UNCHANGED <<alive, service>>,
         NEW new \in RequestValue, new.from = p, new.expected, new.id # 0,
         new.kind \in {"hello", "active", "buffer", "release"}, Send(new),
         call' = [call EXCEPT ![p] = new.kind],
         client' \in [Handles -> ClientValue], Own(p)'.id = new.id,
         \A q \in Helpers \ {p} : Own(q)' = Own(q),
         \A q \in Living \ {p} : Own(q).id # new.id,
         \A r \in Requests : r.id = new.id => r.from = p /\ r.kind # "release",
         new.kind = "hello" => Own(p)'.session = 0,
         Own(p)'.session # 0 => service.up /\ HoldsLease(p)'
  PROVE  LeaseInv'
<1>1. /\ p \in Processes /\ p \in Helpers /\ answer \in [Processes -> AnswerValue]
      /\ port \in Seq(RequestValue) /\ service \in ServiceValue
      /\ call \in [Helpers -> {"none", "hello", "active", "buffer", "release"}]
  BY Zenon, OwnHandle DEF LeaseInv, LeaseTypeOK, Living
<1>2. new.kind # "none"
  BY Zenon
<1>3. Awaiting \in AnswerValue /\ Failed \in AnswerValue /\ Awaiting.state = "waiting"
      /\ Failed.state = "failed"
  BY Zenon DEF Awaiting, Failed, Quiet, AnswerValue
<1>4. \/ port' = Append(port, new) /\ answer' = [answer EXCEPT ![p] = Awaiting]
      \/ port' = port /\ answer' = [answer EXCEPT ![p] = Failed]
  BY Zenon, <1>2 DEF Send
<1>5. LeaseTypeOK' /\ PastHello'
  <2>1. port' \in Seq(RequestValue)
    <3>1. Append(port, new) \in Seq(RequestValue)
      BY <1>1, <1>2
    <3> QED BY Zenon, <1>1, <1>4, <3>1
  <2>2. answer' \in [Processes -> AnswerValue]
    BY SMTT(60), <1>1, <1>3, <1>4
  <2>3. call' \in [Helpers -> {"none", "hello", "active", "buffer", "release"}]
    BY Zenon, <1>1
  <2> QED BY Zenon, <1>1, <2>1, <2>2, <2>3 DEF LeaseInv, LeaseTypeOK, PastHello
<1>6. /\ call'[p] = new.kind /\ \A q \in Helpers \ {p} : call'[q] = call[q] /\ answer'[q] = answer[q]
      /\ answer'[p].state \in {"waiting", "failed"}
  BY <1>1, <1>3, <1>4, OwnHandle
<1>7. \A r \in Requests : r.expected => r.from # p
  BY SMTT(30), RequestsTyped DEF LeaseInv, Current
<1>8. ASSUME NEW r \in Requests PROVE Current(r)' /\ Faithful(r)'
  <2>1. Current(r)'
    BY <1>6, <1>7, <1>8 DEF LeaseInv, Current, Living
  <2>2. ASSUME NEW q \in Living', r.id = Own(q)'.id, r.id # 0
        PROVE  r.from = q /\ (r.kind = "release" => call'[q] = "release")
    <3>1. CASE q = p
      BY Zenon, <1>8, <2>2, <3>1
    <3>2. CASE q # p
      BY SMTT(60), <1>6, <1>8, <2>2, <3>2 DEF LeaseInv, Faithful, Living
    <3> QED BY Zenon, <3>1, <3>2
  <2> QED BY Zenon, <2>1, <2>2 DEF Faithful
<1>9. CASE port' = port /\ answer' = [answer EXCEPT ![p] = Failed]
  <2>1. Requests' = Requests /\ OneEach'
    BY Zenon, <1>9, QueueUnchanged
  <2>2. LeaseHeld(p)'
    BY Zenon, <1>1, <1>3, <1>6, <1>9 DEF LeaseHeld, Succeeded
  <2>3. \A r \in Requests' : Current(r)' /\ Faithful(r)'
    BY Zenon, <1>8, <2>1
  <2> QED BY SMTT(30), <1>1, <1>5, <1>6, <2>1, <2>2, <2>3, OneHelperInv DEF Living
<1>10. CASE port' = Append(port, new) /\ answer' = [answer EXCEPT ![p] = Awaiting]
  <2>1. /\ Len(port) \in Nat /\ Len(port') = Len(port) + 1 /\ port'[Len(port) + 1] = new
        /\ \A i \in 1..Len(port) : port'[i] = port[i] /\ port[i] \in Requests
    BY <1>1, <1>2, <1>10 DEF Requests
  <2>2. \A i \in 1..Len(port') : i = Len(port) + 1 \/ i \in 1..Len(port)
    BY <2>1
  <2>3. \A r \in Requests' : r = new \/ r \in Requests
    BY <2>1, <2>2 DEF Requests
  <2>4. ASSUME NEW i \in 1..Len(port'), NEW j \in 1..Len(port'), port'[i].expected, port'[j].expected,
               port'[i].from = port'[j].from
        PROVE  i = j
    <3>1. \A m \in 1..Len(port) : port'[m].expected => port'[m].from # new.from
      BY Zenon, <1>2, <1>7, <2>1
    <3>2. CASE i \in 1..Len(port) /\ j \in 1..Len(port)
      BY <2>1, <2>4, <3>2 DEF LeaseInv, OneEach
    <3> QED BY <2>1, <2>2, <2>4, <3>1, <3>2
  <2>5. \A i \in 1..Len(port') :
          ~(service'.request.expected /\ port'[i].expected /\ service'.request.from = port'[i].from)
    <3>1. service.request.expected => service.request.from # new.from
      BY Zenon, <1>2, <1>7, RequestsTyped DEF LeaseInv
    <3> QED BY SMTT(30), <2>1, <2>2, <3>1 DEF LeaseInv, OneEach
  <2>6. OneEach'
    BY Zenon, <2>4, <2>5 DEF OneEach
  <2>7. Current(new)'
    BY Zenon, <1>1, <1>2, <1>3, <1>6, <1>10 DEF Current, Living
  <2>8. Faithful(new)'
    BY SMTT(30), <1>2, <1>6 DEF Faithful, Living
  <2>9. LeaseHeld(p)'
    BY Zenon, <1>1, <1>3, <1>6, <1>10 DEF LeaseHeld, Succeeded
  <2>10. \A r \in Requests' : Current(r)' /\ Faithful(r)'
    BY Zenon, <1>8, <2>3, <2>7, <2>8
  <2> QED BY SMTT(30), <1>1, <1>5, <1>6, <2>6, <2>9, <2>10, OneHelperInv DEF Living
<1> QED BY Zenon, <1>4, <1>9, <1>10

\* A request nobody waits for any more is otherwise the same.
LEMMA Abandoned ==
  ASSUME LeaseInv, NEW p, AbandonAll(p)
  PROVE  /\ port' \in Seq(RequestValue) /\ service' \in ServiceValue /\ OneEach' /\ PastHello'
         /\ service'.leases = service.leases /\ service'.up = service.up
         /\ service'.session = service.session /\ service'.at = service.at
         /\ \A r \in Requests' : \E q \in Requests :
              /\ r.kind = q.kind /\ r.from = q.from /\ r.id = q.id
              /\ r.expected => q.expected /\ r.from # p
<1>1. service \in ServiceValue /\ port \in Seq(RequestValue) /\ service.request \in RequestValue
  BY Zenon DEF LeaseInv, LeaseTypeOK, ServiceValue
<1>2. ASSUME NEW q \in RequestValue
      PROVE  /\ Abandon(q, p) \in RequestValue /\ Abandon(q, p).kind = q.kind
             /\ Abandon(q, p).from = q.from /\ Abandon(q, p).id = q.id
             /\ Abandon(q, p).expected => q.expected /\ q.from # p
  BY Zenon DEF Abandon, RequestValue
<1>3. port' = [i \in 1..Len(port) |-> Abandon(port[i], p)] /\ Len(port) \in Nat
      /\ \A i \in 1..Len(port) : port[i] \in RequestValue
  BY <1>1 DEF AbandonAll
<1>4. /\ port' \in Seq(RequestValue) /\ Len(port') = Len(port)
      /\ \A i \in 1..Len(port) : port'[i] = Abandon(port[i], p)
  <2>1. \A i \in 1..Len(port) : Abandon(port[i], p) \in RequestValue
    BY Zenon, <1>2, <1>3
  <2> QED BY <1>3, <2>1
<1>5. /\ service' \in ServiceValue /\ service'.request = Abandon(service.request, p)
      /\ service'.leases = service.leases /\ service'.up = service.up
      /\ service'.session = service.session /\ service'.at = service.at
  <2>1. Abandon(service.request, p) \in RequestValue
    BY Zenon, <1>1, <1>2
  <2>2. service' = [service EXCEPT !.request = Abandon(service.request, p)]
    BY Zenon DEF AbandonAll
  <2> QED BY Zenon, <1>1, <2>1, <2>2 DEF ServiceValue
<1>6. ASSUME NEW r \in Requests' PROVE \E q \in Requests : q \in RequestValue /\ r = Abandon(q, p)
  BY Zenon, <1>1, <1>3, <1>4, <1>5 DEF Requests
<1>7. \A r \in Requests' : \E q \in Requests :
        /\ r.kind = q.kind /\ r.from = q.from /\ r.id = q.id
        /\ r.expected => q.expected /\ r.from # p
  BY <1>2, <1>6
<1>8. OneEach'
  <2>1. \A i \in 1..Len(port) : port'[i].from = port[i].from /\ (port'[i].expected => port[i].expected)
    BY Zenon, <1>2, <1>3, <1>4
  <2>2. service'.request.from = service.request.from
        /\ (service'.request.expected => service.request.expected)
    BY <1>1, <1>2, <1>5
  <2>3. ASSUME NEW i \in 1..Len(port'), NEW j \in 1..Len(port'), port'[i].expected, port'[j].expected,
               port'[i].from = port'[j].from
        PROVE  i = j
    BY <1>4, <2>1, <2>3 DEF LeaseInv, OneEach
  <2>4. ASSUME NEW i \in 1..Len(port'), service'.request.expected, port'[i].expected,
               service'.request.from = port'[i].from
        PROVE  FALSE
    BY <1>4, <2>1, <2>2, <2>4 DEF LeaseInv, OneEach
  <2> QED BY Zenon, <2>3, <2>4 DEF OneEach
<1>9. PastHello'
  BY Zenon, <1>1, <1>2, <1>5 DEF LeaseInv, PastHello
<1> QED BY Zenon, <1>4, <1>5, <1>7, <1>8, <1>9

-----------------------------------------------------------------------------
(* The helpers' steps: connecting, controlling, an exchange that ends in   *)
(* an answer, a timeout or a death, a new helper; and the theorem          *)

\* A helper connects under a fresh id: no request or other handle has it.
LEMMA HelperConnectInv ==
  ASSUME LeaseInv, NEW p \in Living, HelperConnect(p)
  PROVE  LeaseInv'
<1>1. HandleOf(p) \in Handles /\ Owner[HandleOf(p)] = p /\ p \in Helpers
  BY Zenon, OwnHandle DEF Living
<1>2. FreshIds \in SUBSET Nat /\ FreshIds # {} /\ 0 \notin FreshIds
  BY Zenon, ServiceAssumption DEF FreshIds, HelperConnect, SendHello
<1>3. PICK id \in FreshIds : id = CHOOSE i \in FreshIds : TRUE
  BY Zenon, <1>2
<1>4. id \in Nat \ {0} /\ (\A r \in Requests : r.id # id) /\ (\A h \in Handles : client[h].id # id)
  BY Zenon, <1>2 DEF FreshIds
<1>5. /\ call[p] = "none" /\ UNCHANGED <<alive, service>> /\ call' = [call EXCEPT ![p] = "hello"]
      /\ Send(Request("hello", p, id, 0, 0))
      /\ client' = [client EXCEPT ![HandleOf(p)] = [id |-> id, session |-> 0]]
  BY Zenon, <1>1, <1>3 DEF HelperConnect, SendHello
<1>6. client \in [Handles -> ClientValue] /\ [id |-> id, session |-> 0] \in ClientValue
  BY Zenon, <1>4 DEF LeaseInv, LeaseTypeOK, ClientValue
<1>7. client' \in [Handles -> ClientValue] /\ Own(p)' = [id |-> id, session |-> 0]
  BY Zenon, <1>1, <1>5, <1>6 DEF Own, HandleOf
<1>8. \A q \in Helpers \ {p} : Own(q)' = Own(q)
  <2>1. \A h \in Handles \ {HandleOf(p)} : client'[h] = client[h]
    BY Zenon, <1>5, <1>6
  <2> QED BY <1>1, <2>1, OwnHandle DEF Own, HandleOf
<1>9. \A q \in Living \ {p} : Own(q).id # id
  BY Zenon, <1>4, OwnHandle DEF Own, Living
<1>10. PICK new : new = Request("hello", p, id, 0, 0)
  BY Zenon
<1>11. /\ new \in RequestValue /\ new.kind = "hello" /\ new.from = p /\ new.id = id /\ new.expected
       /\ Send(new)
  BY Zenon, <1>4, <1>5, <1>10, OwnHandle DEF Request, RequestValue, Pids, Living
<1>12. Own(p)'.id = new.id /\ Own(p)'.session = 0 /\ new.id # 0
  BY <1>4, <1>7, <1>11
<1>13. \A q \in Living \ {p} : Own(q).id # new.id
  BY Zenon, <1>9, <1>11
<1>14. \A r \in Requests : r.id = new.id => r.from = p /\ r.kind # "release"
  BY Zenon, <1>4, <1>11
<1>15. call' = [call EXCEPT ![p] = new.kind] /\ new.kind \in {"hello", "active", "buffer", "release"}
  BY Zenon, <1>5, <1>11
<1> QED BY Zenon, <1>5, <1>7, <1>8, <1>11, <1>12, <1>13, <1>14, <1>15, SendInv

LEMMA HelperControlInv ==
  ASSUME LeaseInv, NEW p \in Living, NEW kind \in {"active", "buffer", "release"},
         NEW value \in Nat \union Buffers, HelperControl(p, kind, value)
  PROVE  LeaseInv'
<1>1. HandleOf(p) \in Handles /\ Owner[HandleOf(p)] = p /\ p \in Helpers
  BY Zenon, OwnHandle DEF Living
<1>2. /\ call[p] = "none" /\ UNCHANGED <<alive, service, client>> /\ call' = [call EXCEPT ![p] = kind]
      /\ Send(Request(kind, p, Own(p).id, Own(p).session, value)) /\ Own(p).session # 0
  BY Zenon, <1>1 DEF HelperControl, SendControl, Own, Connected
<1>3. Own(p) \in ClientValue /\ client' \in [Handles -> ClientValue] /\ \A q : Own(q)' = Own(q)
  BY Zenon, <1>1, <1>2 DEF LeaseInv, LeaseTypeOK, Own, HandleOf
<1>4. service.up /\ HoldsLease(p)
  BY Zenon, <1>2 DEF LeaseInv, LeaseHeld
<1>5. Own(p).id # 0 /\ HoldsLease(p)'
  BY Zenon, <1>2, <1>3, <1>4 DEF HoldsLease
<1>6. PICK new : new = Request(kind, p, Own(p).id, Own(p).session, value)
  BY Zenon
<1>7. /\ new \in RequestValue /\ new.kind = kind /\ new.from = p /\ new.id = Own(p).id /\ new.expected
      /\ Send(new)
  BY Zenon, <1>2, <1>3, <1>6, OwnHandle DEF Request, RequestValue, Pids, Living, ClientValue
<1>8. \A q \in Living \ {p} : Own(q).id # new.id
  BY Zenon, <1>5, <1>7 DEF LeaseInv
<1>9. \A r \in Requests : r.id = new.id => r.from = p /\ r.kind # "release"
  BY ZenonT(90), <1>2, <1>5, <1>7 DEF LeaseInv, Faithful
<1>10. Own(p)'.id = new.id /\ new.kind # "hello" /\ new.kind \in {"hello", "active", "buffer", "release"}
  BY Zenon, <1>3, <1>7
<1>11. \A q \in Helpers \ {p} : Own(q)' = Own(q)
  BY Zenon, <1>3
<1> QED BY ZenonT(90), <1>2, <1>3, <1>4, <1>5, <1>7, <1>8, <1>9, <1>10, <1>11, SendInv

\* A helper's exchange ends: it returns, is given up or dies with its helper.
LEMMA ExchangeEndsInv ==
  ASSUME LeaseInv, NEW p \in Living, LeaseTypeOK', PastHello', OneEach',
         service'.leases = service.leases, service'.up = service.up,
         service'.session = service.session, service'.at = service.at,
         \A q \in Helpers \ {p} : /\ Own(q)' = Own(q) /\ call'[q] = call[q] /\ answer'[q] = answer[q]
                                  /\ q \in alive' <=> q \in alive,
         \A r \in Requests' : \E q \in Requests :
           /\ r.kind = q.kind /\ r.from = q.from /\ r.id = q.id
           /\ r.expected => q.expected /\ r.from # p,
         Own(p)'.id = 0 \/ (Own(p)'.id = Own(p).id /\ (call[p] # "release" \/ call'[p] = "release")),
         p \in alive' => LeaseHeld(p)',
         p \notin alive' => Own(p)' = NoClient /\ call'[p] = "none"
  PROVE  LeaseInv'
<1>1. p \in Helpers /\ \A q \in Living' \ {p} : q \in Living /\ q \in Helpers \ {p}
  BY Zenon DEF Living
<1>2. ASSUME NEW r \in Requests' PROVE Current(r)' /\ Faithful(r)'
  <2>1. PICK o \in Requests : /\ r.kind = o.kind /\ r.from = o.from /\ r.id = o.id
                              /\ r.expected => o.expected /\ r.from # p
    BY Zenon, <1>2
  <2>2. Current(o) /\ Faithful(o)
    BY Zenon DEF LeaseInv
  <2>3. ASSUME r.expected
        PROVE  /\ r.from \in Living' /\ r.kind # "none" /\ r.kind = call'[r.from]
               /\ r.id = Own(r.from)'.id /\ r.id # 0 /\ answer'[r.from].state = "waiting"
    <3>1. r.from \in Living /\ r.from \in Helpers \ {p} /\ r.from \in Living'
      BY Zenon, <2>1, <2>2, <2>3 DEF Current, Living
    <3>2. Own(r.from)' = Own(r.from) /\ call'[r.from] = call[r.from] /\ answer'[r.from] = answer[r.from]
      BY Zenon, <3>1
    <3>3. /\ o.kind # "none" /\ o.kind = call[o.from] /\ o.id = Own(o.from).id
          /\ o.id # 0 /\ answer[o.from].state = "waiting"
      BY Zenon, <2>1, <2>2, <2>3 DEF Current
    <3> QED BY <2>1, <2>3, <3>1, <3>2, <3>3
  <2>4. ASSUME NEW q \in Living', r.id = Own(q)'.id, r.id # 0
        PROVE  r.from = q /\ (r.kind = "release" => call'[q] = "release")
    <3>1. CASE q = p
      BY SMTT(30), <2>1, <2>2, <2>4, <3>1 DEF Faithful
    <3>2. CASE q # p
      BY SMTT(30), <1>1, <2>1, <2>2, <2>4, <3>2 DEF Faithful
    <3> QED BY Zenon, <3>1, <3>2
  <2> QED BY Zenon, <2>3, <2>4 DEF Current, Faithful
<1>3. \A q \in Living \ {p} : p \in alive' /\ Own(p)'.id # 0 => Own(p)'.id # Own(q).id
  BY DEF LeaseInv
<1> QED BY ZenonT(40), <1>1, <1>2, <1>3, OneHelperInv

\* Only p's handle, operation and exchange change.
LEMMA OthersUntouched ==
  ASSUME LeaseInv, NEW p \in Living,
         client' = client \/ \E v : client' = [client EXCEPT ![HandleOf(p)] = v],
         call' = call \/ \E v : call' = [call EXCEPT ![p] = v],
         answer' = answer \/ \E v : answer' = [answer EXCEPT ![p] = v]
  PROVE  \A q \in Helpers \ {p} : Own(q)' = Own(q) /\ call'[q] = call[q] /\ answer'[q] = answer[q]
<1> SUFFICES ASSUME NEW q \in Helpers \ {p}
             PROVE  Own(q)' = Own(q) /\ call'[q] = call[q] /\ answer'[q] = answer[q]
  BY Zenon
<1>1. /\ client \in [Handles -> ClientValue] /\ answer \in [Processes -> AnswerValue]
      /\ call \in [Helpers -> {"none", "hello", "active", "buffer", "release"}]
  BY Zenon DEF LeaseInv, LeaseTypeOK
<1>2. HandleOf(q) \in Handles /\ HandleOf(q) # HandleOf(p) /\ q \in Processes
  BY Zenon, OwnHandle DEF Living
<1>3. client'[HandleOf(q)] = client[HandleOf(q)]
  BY Zenon, <1>1, <1>2
<1>4. Own(q)' = Own(q)
  BY Zenon, <1>3 DEF Own, HandleOf
<1>5. call'[q] = call[q]
  BY Zenon, <1>1
<1>6. answer'[q] = answer[q]
  BY ZenonT(90), <1>1, <1>2
<1> QED BY Zenon, <1>4, <1>5, <1>6

LEMMA HelperTimesOutInv ==
  ASSUME LeaseInv, NEW p \in Living, HelperTimesOut(p)
  PROVE  LeaseInv'
<1>1. /\ answer' = [answer EXCEPT ![p] = Failed] /\ AbandonAll(p)
      /\ UNCHANGED <<alive, client, call>>
  BY Zenon DEF HelperTimesOut, ExchangeTimesOut
<1>2. answer \in [Processes -> AnswerValue] /\ p \in Processes /\ p \in Helpers /\ p \in alive
  BY Zenon, OwnHandle DEF LeaseInv, LeaseTypeOK, Living
<1>3. Failed \in AnswerValue /\ Failed.state = "failed"
  BY Zenon DEF Failed, Quiet, AnswerValue
<1>4. answer' \in [Processes -> AnswerValue] /\ answer'[p] = Failed
  BY Zenon, <1>1, <1>2, <1>3
<1>5. LeaseTypeOK'
  BY Zenon, <1>1, <1>4, Abandoned DEF LeaseInv, LeaseTypeOK
<1>6. Own(p)' = Own(p) /\ call'[p] = call[p]
  BY Zenon, <1>1 DEF Own, HandleOf
<1>7. LeaseHeld(p)'
  <2>1. LeaseHeld(p) /\ service'.leases = service.leases /\ service'.up = service.up
    <3>1. LeaseHeld(p)
      BY Zenon DEF LeaseInv
    <3>2. service'.leases = service.leases /\ service'.up = service.up
      BY Zenon, <1>1, Abandoned
    <3> QED BY Zenon, <3>1, <3>2
  <2>2. ~Succeeded(p)' /\ (HoldsLease(p)' <=> HoldsLease(p))
    BY Zenon, <1>3, <1>4, <1>6, <2>1 DEF Succeeded, HoldsLease
  <2> QED BY Zenon, <1>6, <2>1, <2>2 DEF LeaseHeld
<1>8. \A q \in Helpers \ {p} : Own(q)' = Own(q) /\ call'[q] = call[q] /\ answer'[q] = answer[q]
  BY ZenonT(90), <1>1, OthersUntouched
<1> QED BY <1>1, <1>2, <1>5, <1>6, <1>7, <1>8, Abandoned, ExchangeEndsInv

LEMMA HelperDiesInv ==
  ASSUME LeaseInv, NEW p \in Living, HelperDies(p)
  PROVE  LeaseInv'
<1>1. /\ answer' = [answer EXCEPT ![p] = Quiet] /\ AbandonAll(p) /\ alive' = alive \ {p}
      /\ client' = [client EXCEPT ![HandleOf(p)] = NoClient] /\ call' = [call EXCEPT ![p] = "none"]
  BY Zenon DEF HelperDies, Forget
<1>2. /\ answer \in [Processes -> AnswerValue] /\ p \in Processes /\ p \in Helpers
      /\ client \in [Handles -> ClientValue] /\ HandleOf(p) \in Handles
      /\ call \in [Helpers -> {"none", "hello", "active", "buffer", "release"}]
  BY Zenon, OwnHandle DEF LeaseInv, LeaseTypeOK, Living
<1>3. Quiet \in AnswerValue /\ NoClient \in ClientValue /\ NoClient.id = 0
  BY Zenon DEF Quiet, AnswerValue, NoClient, ClientValue
<1>4. /\ answer' \in [Processes -> AnswerValue] /\ client' \in [Handles -> ClientValue]
      /\ call' \in [Helpers -> {"none", "hello", "active", "buffer", "release"}]
      /\ client'[HandleOf(p)] = NoClient /\ call'[p] = "none"
  BY Zenon, <1>1, <1>2, <1>3
<1>5. LeaseTypeOK'
  BY Zenon, <1>1, <1>4, Abandoned DEF LeaseInv, LeaseTypeOK
<1>6. Own(p)' = NoClient /\ Own(p)'.id = 0
  BY Zenon, <1>3, <1>4 DEF Own, HandleOf
<1>7. \A q \in Helpers \ {p} : Own(q)' = Own(q) /\ call'[q] = call[q] /\ answer'[q] = answer[q]
  BY Zenon, <1>1, OthersUntouched
<1>8. p \notin alive' /\ \A q \in Helpers \ {p} : q \in alive' <=> q \in alive
  BY Zenon, <1>1
<1> QED BY <1>1, <1>4, <1>5, <1>6, <1>7, <1>8, Abandoned, ExchangeEndsInv

LEMMA HelperReturnInv ==
  ASSUME LeaseInv, NEW p \in Living, HelperReturn(p)
  PROVE  LeaseInv'
<1> DEFINE back == [id |-> Own(p).id, session |-> answer[p].session]
<1>1. /\ answer' = [answer EXCEPT ![p] = Quiet] /\ UNCHANGED <<alive, port, service>>
      /\ call' = [call EXCEPT ![p] = "none"] /\ answer[p].state # "waiting"
  BY Zenon DEF HelperReturn, Forget, Returned
<1>2. /\ answer \in [Processes -> AnswerValue] /\ p \in Processes /\ p \in Helpers /\ p \in alive
      /\ client \in [Handles -> ClientValue] /\ HandleOf(p) \in Handles /\ Owner[HandleOf(p)] = p
      /\ call \in [Helpers -> {"none", "hello", "active", "buffer", "release"}]
  BY Zenon, OwnHandle DEF LeaseInv, LeaseTypeOK, Living
<1>3. /\ Quiet \in AnswerValue /\ Quiet.state = "idle" /\ NoClient \in ClientValue
      /\ NoClient.id = 0 /\ NoClient.session = 0 /\ back \in ClientValue
      /\ Own(p) \in ClientValue /\ answer[p] \in AnswerValue
  BY Zenon, <1>2 DEF Quiet, AnswerValue, NoClient, ClientValue, Own
<1>4. \/ client' = client /\ call[p] \notin {"hello", "release"}
      \/ client' = [client EXCEPT ![HandleOf(p)] = NoClient]
      \/ client' = [client EXCEPT ![HandleOf(p)] = back] /\ call[p] = "hello" /\ Succeeded(p)
  <2>1. CASE call[p] = "hello"
    <3>1. client' = HelloReturned(HandleOf(p))
      BY Zenon, <2>1 DEF HelperReturn
    <3>2. [client[HandleOf(p)] EXCEPT !.session = answer[p].session] = back
      BY <1>2, <1>3 DEF ClientValue, Own
    <3> QED BY Zenon, <1>2, <2>1, <3>1, <3>2 DEF HelloReturned
  <2>2. CASE call[p] = "release"
    BY Zenon, <2>2 DEF HelperReturn
  <2>3. CASE call[p] \notin {"hello", "release"}
    BY Zenon, <2>3 DEF HelperReturn
  <2> QED BY Zenon, <2>1, <2>2, <2>3
<1> HIDE DEF back
<1>5. answer' \in [Processes -> AnswerValue] /\ answer'[p] = Quiet
      /\ call' \in [Helpers -> {"none", "hello", "active", "buffer", "release"}] /\ call'[p] = "none"
  BY Zenon, <1>1, <1>2, <1>3
<1>6. client' \in [Handles -> ClientValue]
  BY Zenon, <1>2, <1>3, <1>4
<1>7. LeaseTypeOK' /\ PastHello' /\ OneEach' /\ Requests' = Requests
  <2>1. LeaseTypeOK'
    BY Zenon, <1>1, <1>5, <1>6 DEF LeaseInv, LeaseTypeOK
  <2> QED BY Zenon, <1>1, <2>1, QueueUnchanged
<1>8. \/ Own(p)' = Own(p) /\ call[p] \notin {"hello", "release"}
      \/ Own(p)' = NoClient
      \/ Own(p)' = back /\ call[p] = "hello" /\ Succeeded(p)
  BY Zenon, <1>2, <1>4 DEF Own, HandleOf
<1>9. back.id = Own(p).id
  BY Zenon DEF back
<1>10. Own(p)'.id = 0 \/ (Own(p)'.id = Own(p).id /\ call[p] # "release")
  BY Zenon, <1>3, <1>8, <1>9
<1>11. LeaseHeld(p)'
  <2>1. LeaseHeld(p)
    BY Zenon DEF LeaseInv
  <2>2. Own(p)'.id = Own(p).id => (HoldsLease(p)' <=> HoldsLease(p))
    BY Zenon, <1>1 DEF HoldsLease
  <2>3. Own(p)'.session # 0 => service'.up /\ HoldsLease(p)'
    BY ZenonT(90), <1>1, <1>3, <1>8, <1>9, <2>1, <2>2 DEF LeaseHeld
  <2> QED BY Zenon, <1>5, <2>3 DEF LeaseHeld
<1>12. \A r \in Requests' : \E q \in Requests :
         /\ r.kind = q.kind /\ r.from = q.from /\ r.id = q.id
         /\ r.expected => q.expected /\ r.from # p
  BY <1>1, <1>7 DEF LeaseInv, Current
<1>13. \A q \in Helpers \ {p} : Own(q)' = Own(q) /\ call'[q] = call[q] /\ answer'[q] = answer[q]
  BY Zenon, <1>1, <1>4, OthersUntouched
<1> QED BY ZenonT(90), <1>1, <1>2, <1>7, <1>10, <1>11, <1>12, <1>13, ExchangeEndsInv

LEMMA HelperSpawnsInv ==
  ASSUME LeaseInv, NEW p \in Helpers, HelperSpawns(p)
  PROVE  LeaseInv'
<1>1. /\ p \notin alive /\ alive' = alive \union {p} /\ UNCHANGED <<port, answer, service, client, call>>
  BY Zenon DEF HelperSpawns
<1>2. LeaseTypeOK' /\ PastHello' /\ OneEach' /\ Requests' = Requests /\ \A q : Own(q)' = Own(q)
  <2>1. LeaseTypeOK'
    BY Zenon, <1>1 DEF LeaseInv, LeaseTypeOK
  <2>2. \A q : Own(q)' = Own(q)
    BY Zenon, <1>1 DEF Own, HandleOf
  <2> QED BY Zenon, <1>1, <2>1, <2>2, QueueUnchanged
<1>3. Own(p) = NoClient /\ Own(p).id = 0 /\ Own(p).session = 0 /\ call[p] = "none"
  <2>1. Own(p) = NoClient /\ call[p] = "none"
    BY Zenon, <1>1 DEF LeaseInv
  <2>2. NoClient.id = 0 /\ NoClient.session = 0
    BY Zenon DEF NoClient
  <2> QED BY Zenon, <2>1, <2>2
<1>4. \A r \in Requests' : Current(r)' /\ Faithful(r)'
  BY <1>1, <1>2, <1>3 DEF LeaseInv, Current, Faithful, Living
<1>5. LeaseHeld(p)'
  BY Zenon, <1>1, <1>2, <1>3 DEF LeaseHeld
<1> QED BY Zenon, <1>1, <1>2, <1>3, <1>4, <1>5, OneHelperInv

LEMMA HelperStepInv ==
  ASSUME LeaseInv, \E p \in Helpers : HelperStep(p) \/ HelperSpawns(p)
  PROVE  LeaseInv'
<1>1. PICK p \in Helpers : HelperStep(p) \/ HelperSpawns(p)
  BY Zenon
<1>2. CASE HelperSpawns(p)
  BY Zenon, <1>2, HelperSpawnsInv
<1>3. CASE HelperStep(p)
  <2>1. p \in Living
    BY Zenon, <1>3 DEF HelperStep, Living
  <2>2. CASE \E active \in {0, 1} : HelperControl(p, "active", active)
    <3>1. PICK active \in {0, 1} : HelperControl(p, "active", active)
      BY Zenon, <2>2
    <3>2. active \in Nat \union Buffers
      OBVIOUS
    <3> QED BY Zenon, <2>1, <3>1, <3>2, HelperControlInv
  <2>3. CASE HelperControl(p, "release", 0)
    BY Zenon, <2>1, <2>3, HelperControlInv
  <2> QED BY ZenonT(90), <1>3, <2>1, <2>2, <2>3, HelperConnectInv, HelperReturnInv, HelperTimesOutInv, HelperDiesInv
          DEF HelperStep
<1> QED BY Zenon, <1>1, <1>2, <1>3

\* launchd starts the service: the registry is empty and no helper has a session.
LEMMA MainPublishInv ==
  ASSUME LeaseInv, MainPublish, UNCHANGED call
  PROVE  LeaseInv'
<1>1. FreshSessions \in SUBSET Nat /\ FreshSessions # {} /\ 0 \notin FreshSessions
  BY Zenon, ServiceAssumption DEF FreshSessions, MainPublish
<1>2. PICK session \in FreshSessions : session = CHOOSE s \in FreshSessions : TRUE
  BY Zenon, <1>1
<1>3. /\ ~service.up /\ UNCHANGED <<alive, port, answer, client, call>>
      /\ service' = [ServiceDown EXCEPT !.up = TRUE, !.session = session, !.at = "receive"]
  BY Zenon, <1>2 DEF MainPublish, Publish
<1>4. NoRequest \in RequestValue
  BY Zenon DEF NoRequest, RequestValue, Pids
<1>5. /\ service' \in ServiceValue /\ service'.up /\ service'.session # 0
      /\ service'.request = NoRequest /\ service'.at = "receive"
  BY ZenonT(90), <1>1, <1>3, <1>4, ServiceAssumption DEF ServiceDown, ServiceValue, Places
<1>6. LeaseTypeOK' /\ PastHello' /\ OneEach' /\ \A q : Own(q)' = Own(q)
  BY <1>3, <1>5 DEF LeaseInv, LeaseTypeOK, PastHello, OneEach, NoRequest, Own, HandleOf
<1>7. \A r \in Requests' : r \in Requests \/ (~r.expected /\ r.id = 0)
  BY <1>3, <1>5 DEF Requests, NoRequest
<1>8. \A r \in Requests' : Current(r)' /\ Faithful(r)'
  BY <1>3, <1>6, <1>7 DEF LeaseInv, Current, Faithful, Living
<1>9. \A p \in Living : Own(p).session = 0 /\ ~(call[p] = "hello" /\ Succeeded(p))
  BY Zenon, <1>3 DEF LeaseInv, LeaseHeld
<1>10. \A p \in Living' : LeaseHeld(p)'
  BY Zenon, <1>3, <1>6, <1>9 DEF LeaseHeld, Living, Succeeded
<1>11. /\ \A p, q \in Living' : Own(p)'.id = Own(q)'.id /\ Own(p)'.id # 0 => p = q
       /\ \A p \in Helpers \ alive' : Own(p)' = NoClient /\ call'[p] = "none"
  BY Zenon, <1>3, <1>6 DEF LeaseInv, Living
<1> QED BY Zenon, <1>5, <1>6, <1>8, <1>10, <1>11 DEF LeaseInv

LEMMA LeaseUnchanged ==
  ASSUME LeaseInv, UNCHANGED <<alive, port, answer, service, client, call>>
  PROVE  LeaseInv'
<1>1. /\ Living' = Living /\ Requests' = Requests /\ \A p : Own(p)' = Own(p)
      /\ \A p : Succeeded(p)' = Succeeded(p)
  BY Zenon DEF Living, Requests, Own, HandleOf, Succeeded
<1>2. LeaseTypeOK' /\ PastHello' /\ OneEach'
  BY Zenon, QueueUnchanged DEF LeaseInv, LeaseTypeOK
<1>3. \A p : HoldsLease(p)' = HoldsLease(p)
  BY ZenonT(90), <1>1 DEF HoldsLease
<1>4. \A r \in Requests' : Current(r)' /\ Faithful(r)'
  BY <1>1 DEF LeaseInv, Current, Faithful
<1>5. \A p \in Living' : LeaseHeld(p)'
  BY Zenon, <1>1, <1>3 DEF LeaseInv, LeaseHeld
<1> QED BY Zenon, <1>1, <1>2, <1>4, <1>5 DEF LeaseInv

LEMMA LeaseInitInv ==
  ASSUME alive = Helpers, ServiceInit, ClientInit, HelpersInit
  PROVE  LeaseInv
<1>1. /\ alive = Helpers /\ port = <<>> /\ answer = [p \in Processes |-> Quiet]
      /\ service = ServiceDown /\ client = [h \in Handles |-> NoClient]
      /\ call = [p \in Helpers |-> "none"]
  BY Zenon DEF ServiceInit, ClientInit, HelpersInit
<1>2. NoRequest \in RequestValue /\ NoClient \in ClientValue /\ Quiet \in AnswerValue
      /\ <<>> \in Seq(RequestValue)
  BY SMTT(30) DEF NoRequest, RequestValue, Pids, NoClient, ClientValue, Quiet, AnswerValue
<1>3. /\ service \in ServiceValue /\ ~service.up /\ service.at = "down"
      /\ service.request = NoRequest
  BY Zenon, <1>1, <1>2, ServiceAssumption DEF ServiceDown, ServiceValue, Places
<1>4. LeaseTypeOK /\ PastHello /\ Len(port) = 0
  BY ZenonT(90), <1>1, <1>2, <1>3 DEF LeaseTypeOK, PastHello
<1>5. OneEach /\ Requests = {NoRequest}
  BY <1>3, <1>4 DEF OneEach, Requests
<1>6. \A p \in Helpers : Own(p) = NoClient /\ Own(p).id = 0 /\ Own(p).session = 0 /\ call[p] = "none"
  BY Zenon, <1>1, OwnHandle DEF Own, NoClient
<1>7. \A r \in Requests : Current(r) /\ Faithful(r)
  BY <1>5 DEF NoRequest, Current, Faithful
<1>8. \A p \in Living : LeaseHeld(p)
  BY Zenon, <1>6 DEF LeaseHeld, Living
<1> QED
  BY ZenonT(90), <1>1, <1>3, <1>4, <1>5, <1>6, <1>7, <1>8 DEF LeaseInv, Living

\* The instance of the helpers; in the others no helper exists.
HelpersInv ==
  /\ part = "leases" => LeaseInv
  /\ part # "leases" => Living = {}

LEMMA HelpersNextInv == HelpersInv /\ [Next]_vars => HelpersInv'
<1> SUFFICES ASSUME HelpersInv, [Next]_vars PROVE HelpersInv'
  BY Zenon
<1> USE DEF helperSide, halSide
<1>1. part' = part
  BY Zenon DEF Next, vars, ServiceRuns, ServiceStarts, ServiceCrashes, HelpersRun, PluginRuns, PluginWaits,
     MonitorWakes, MonitorGivesUp, CoreAudioRuns, BufferChanges, CallbackRuns, Flush
<1>2. CASE part = "leases"
  <2> SUFFICES LeaseInv'
    BY Zenon, <1>1, <1>2 DEF HelpersInv
  <2>1. LeaseInv
    BY Zenon, <1>2 DEF HelpersInv
  <2>2. ASSUME UNCHANGED <<alive, port, answer, service, client, call>> PROVE LeaseInv'
    BY Zenon, <2>1, <2>2, LeaseUnchanged
  <2>3. CASE ServiceRuns
    BY Zenon, <2>1, <2>3, ServiceStepInv DEF ServiceRuns
  <2>4. CASE Flush
    BY Zenon, <2>2, <2>4 DEF Flush, MappingFlush, serviceVars
  <2>5. CASE UNCHANGED vars
    BY Zenon, <2>2, <2>5 DEF vars, serviceVars
  <2>6. CASE ServiceStarts
    BY Zenon, <2>1, <2>6, MainPublishInv DEF ServiceStarts
  <2>7. CASE HelpersRun
    BY Zenon, <2>1, <2>7, HelperStepInv DEF HelpersRun
  <2> QED
    BY Zenon, <1>2, <2>1, <2>3, <2>4, <2>5, <2>6, <2>7
       DEF Next, ServiceCrashes, PluginRuns, PluginWaits, MonitorWakes, MonitorGivesUp, CoreAudioRuns,
       BufferChanges, CallbackRuns
<1>3. CASE part # "leases"
  <2>1. alive' = alive
    <3>1. CASE ServiceRuns
      BY Zenon, <3>1 DEF ServiceRuns, ServiceStep, ServiceReceive, ServiceCheckPause, ServiceStorePause,
         ServiceReply, HandleHello, HandleState, HandleUnknown, HandleAudioActive, HandleRelease,
         HandleStartupBuffer, ServiceRestart, ServiceStarted
    <3>2. CASE ServiceStarts \/ ServiceCrashes
      BY Zenon, <3>2 DEF ServiceStarts, ServiceCrashes, MainPublish, Publish, MainCrash, ProcessEnds
    <3>3. CASE PluginRuns
      BY Zenon, <3>3 DEF PluginRuns, HalStep, Unchanged, Initialize, InitializeHello, InitializeBuffer,
         MonitorReplaced, MonitorReady, MonitorReattached, MonitorUnavailable, MonitorHello,
         MonitorNewBuffer, MonitorNewActive, MonitorDropOld, MonitorDropNew, MonitorDropDev,
         StartIOReprimed, StartIOActivated, IdleAnswered, SetBufferAnswered
    <3>4. CASE PluginWaits \/ MonitorWakes \/ MonitorGivesUp \/ Flush
      BY Zenon, <3>4 DEF PluginWaits, HalWait, MonitorSuperseded, MonitorPublish, MonitorRetire, MonitorWakes,
         MonitorPoll, MonitorGivesUp, PluginTimesOut, ExchangeTimesOut, Flush, MappingFlush, serviceVars,
         Unchanged
    <3>5. CASE CoreAudioRuns \/ BufferChanges \/ CallbackRuns
      BY Zenon, <3>5 DEF CoreAudioRuns, CoreAudioCalls, AddClient, StartIO, StopIO, RemoveClient, BufferChanges,
         SetBuffer, SetBufferStored, CallbackRuns, CallbackPin, CallbackStep, CallbackLease,
         CallbackRelease, StartIOActivated, serviceVars, Unchanged
    <3> QED BY Zenon, <1>3, <3>1, <3>2, <3>3, <3>4, <3>5 DEF Next, HelpersRun, vars, serviceVars
  <2> QED BY Zenon, <1>1, <1>3, <2>1 DEF HelpersInv, Living
<1> QED BY Zenon, <1>2, <1>3

LEMMA HelpersInitInv == Init => HelpersInv
<1> SUFFICES ASSUME Init PROVE HelpersInv
  BY Zenon
<1>1. CASE part # "leases"
  BY Zenon, <1>1, SystemAssumption DEF Init, HelpersInv, Living
<1>2. CASE part = "leases"
  BY Zenon, <1>2, LeaseInitInv DEF Init, HelpersInv
<1> QED BY Zenon, <1>1, <1>2

\* A helper that is alive and connected keeps the lease that hello gave it, for any
\* number of helpers, ids, leases and queued requests, whatever the others time out,
\* leave behind or take over (handle_hello, reap_dead_clients, the registry's slots).
THEOREM HelpersKeepTheirLeases == Spec => []LeaseKept
<1>1. HelpersInv => LeaseKept
  <2> SUFFICES ASSUME HelpersInv, NEW p \in Living, service.up, Own(p).session = service.session,
                      call[p] # "release"
               PROVE  \E l \in service.leases : l.id = Own(p).id /\ l.process = p
    BY Zenon DEF LeaseKept, Own, Living
  <2>1. LeaseInv
    BY Zenon DEF HelpersInv
  <2> QED BY Zenon, <2>1 DEF LeaseInv, LeaseHeld, HoldsLease
<1> QED BY <1>1, HelpersInitInv, HelpersNextInv, PTL DEF Spec

-----------------------------------------------------------------------------
(* The mapping *)

\* Memory that the plug-in keeps mapped.
Keeps(memory, session) ==
  \/ client["dev"] = [id |-> memory, session |-> session]
  \/ hal.at = "publish" /\ client["old"] = [id |-> memory, session |-> session]

MappingShape ==
  /\ DOMAIN client = Handles
  /\ \A h \in Handles : client[h] = [id |-> client[h].id, session |-> client[h].session]
  /\ "at" \in DOMAIN hal
  /\ mapping = [memory |-> mapping.memory, session |-> mapping.session,
                readers |-> mapping.readers, buffered |-> mapping.buffered, weak |-> mapping.weak]
  /\ callback = [at |-> callback.at, memory |-> callback.memory, session |-> callback.session,
                 early |-> callback.early]
  /\ callback.at \in {"idle", "pinned", "using"}
  /\ mapping.buffered \in BOOLEAN /\ mapping.weak \in BOOLEAN /\ callback.early \in BOOLEAN

\* A callback that counted itself before the withdrawal under way: the monitor sees it.
Early == callback.at # "idle" /\ callback.early

\* The monitor may have gone on although the mapping is still visible.
Passed == mapping.weak /\ mapping.buffered /\ ~Early

MappingInv ==
  /\ MappingShape
  /\ part = "leases" => hal.at = "init" /\ callback.at = "idle"
  /\ mapping.readers = IF callback.at = "idle" THEN 0 ELSE 1
  /\ mapping.memory # 0 /\ ~Passed => Keeps(mapping.memory, mapping.session)
  /\ callback.at = "using" /\ (callback.early \/ ~mapping.weak) =>
       Keeps(callback.memory, callback.session)
  \* Where dev is opened or closed, nobody uses its memory and nobody can begin to, but
  \* for a callback that the monitor has passed.
  /\ hal.at \in {"init", "initHello", "initBuffer", "dropDev"} =>
       /\ mapping.memory = 0 \/ Passed
       /\ callback.at = "using" => mapping.weak /\ ~callback.early
  \* Where the monitor waits, the mapping is withdrawn or about to be.
  /\ hal.at \in {"publish", "replaced", "retire"} => mapping.buffered \/ mapping.memory = 0

\* Steps of other threads, and of the plug-in where no handle and no mapping changes
\* and the monitor neither begins nor ends a wait.
LEMMA ElsewhereInv ==
  ASSUME MappingInv, part' = part, UNCHANGED <<client, mapping, callback>>, "at" \in DOMAIN hal',
         \/ hal'.at = hal.at
         \/ /\ part # "leases" /\ hal.at # "publish"
            /\ hal'.at \notin {"init", "initHello", "initBuffer", "dropDev", "publish", "replaced",
                               "retire"}
  PROVE  MappingInv'
BY Zenon DEF MappingInv, MappingShape, Keeps, Early, Passed

\* The handles of the helpers: their instance has no plug-in.
LEMMA HelpersElsewhere ==
  ASSUME MappingInv, HelpersRun
  PROVE  MappingInv'
<1>1. part = "leases" /\ part' = part /\ UNCHANGED <<hal, mapping, callback>>
  BY Zenon DEF HelpersRun, halSide
<1>2. /\ DOMAIN client' = Handles
      /\ \A h \in Handles : client'[h] = [id |-> client'[h].id, session |-> client'[h].session]
  <2>1. DOMAIN client = Handles
        /\ \A h \in Handles : client[h] = [id |-> client[h].id, session |-> client[h].session]
    BY Zenon DEF MappingInv, MappingShape
  <2>2. \/ client' = client
        \/ \E h, id, session : client' = [client EXCEPT ![h] = [id |-> id, session |-> session]]
        \/ \E h, session : client' = [client EXCEPT ![h] = [@ EXCEPT !.session = session]]
    BY SMTT(60) DEF HelpersRun, HelperStep, HelperSpawns, HelperConnect, HelperControl, HelperReturn,
       HelperTimesOut, HelperDies, SendHello, HelloReturned, ExchangeTimesOut, NoClient
  <2> QED BY <2>1, <2>2
<1> QED BY Zenon, <1>1, <1>2 DEF MappingInv, MappingShape, Keeps, Early, Passed

\* The plug-in's steps under stream_lock.
LEMMA HalStepInv ==
  ASSUME MappingInv, part # "leases", part' = part, HalStep
  PROVE  MappingInv'
<1> USE HalAssumption
<1>1. CASE Initialize
  BY Zenon, <1>1 DEF Initialize, Unchanged, Then, SendHello,
     MappingInv, MappingShape, Keeps, Early, Passed
<1>2. CASE InitializeHello
  BY Zenon, <1>2 DEF InitializeHello, Unchanged, Then, AnswerAt, HelloReturned, NoClient,
     MappingInv, MappingShape, Keeps, Early, Passed
<1>3. CASE InitializeBuffer
  BY ZenonT(90), <1>3 DEF InitializeBuffer, Unchanged, Then, AnswerAt, PublishMapping,
     MappingInv, MappingShape, Keeps, Early, Passed
<1>4. CASE MonitorReplaced
  BY Zenon, <1>4 DEF MonitorReplaced, Unchanged, Then, Stay, AnswerAt, Withdraw,
     MappingInv, MappingShape, Keeps, Early, Passed
<1>5. CASE MonitorReattached
  BY ZenonT(90), <1>5 DEF MonitorReattached, Unchanged, Stay, AnswerAt, Withdraw,
     MappingInv, MappingShape, Keeps, Early, Passed
<1>6. CASE MonitorUnavailable
  BY Zenon, <1>6 DEF MonitorUnavailable, Unchanged, Then, AnswerAt, SendHello,
     MappingInv, MappingShape, Keeps, Early, Passed
<1>7. CASE MonitorHello
  BY <1>7 DEF MonitorHello, Unchanged, Then, AnswerAt, Withdraw, HelloReturned, NoClient,
     MappingInv, MappingShape, Keeps, Early, Passed
<1>8. CASE MonitorNewActive
  <2>1. CASE ~Ok
    <3>1. UNCHANGED <<client, mapping, callback>> /\ hal'.at = "dropNew" /\ "at" \in DOMAIN hal'
          /\ hal.at = "newActive"
      BY Zenon, <1>8, <2>1 DEF MonitorNewActive, Unchanged, Then, AnswerAt, MappingInv, MappingShape
    <3> QED BY Zenon, <3>1, ElsewhereInv
  <2>2. CASE Ok
    <3>1. /\ client' = [client EXCEPT !["old"] = client["dev"], !["dev"] = client["new"],
                                      !["new"] = NoClient]
          /\ mapping' = [mapping EXCEPT !.buffered = TRUE] /\ callback' = callback
          /\ hal.at = "newActive" /\ hal' = [hal EXCEPT !.at = "publish", !.missed = FALSE]
      BY Zenon, <1>8, <2>2 DEF MonitorNewActive, Unchanged, AnswerAt, Withdraw
    <3>2. hal'.at = "publish" /\ "at" \in DOMAIN hal'
      BY Zenon, <3>1 DEF MappingInv, MappingShape
    <3>3. /\ DOMAIN client' = Handles /\ client'["old"] = client["dev"]
          /\ \A h \in Handles : client'[h] \in {client[g] : g \in Handles} \cup {NoClient}
      BY Zenon, <3>1 DEF MappingInv, MappingShape
    <3>4. \A h \in Handles : client'[h] = [id |-> client'[h].id, session |-> client'[h].session]
      BY <3>3 DEF MappingInv, MappingShape, NoClient
    <3>5. /\ mapping'.buffered = TRUE /\ mapping'.memory = mapping.memory
          /\ mapping'.session = mapping.session /\ mapping'.readers = mapping.readers
          /\ mapping' = [memory |-> mapping'.memory, session |-> mapping'.session,
                         readers |-> mapping'.readers, buffered |-> mapping'.buffered,
                         weak |-> mapping'.weak]
          /\ mapping'.weak = mapping.weak
      BY Zenon, <3>1 DEF MappingInv, MappingShape
    <3>6. MappingShape'
      BY ZenonT(90), <3>1, <3>2, <3>3, <3>4, <3>5 DEF MappingInv, MappingShape
    <3> QED BY <3>1, <3>2, <3>3, <3>5, <3>6 DEF MappingInv, Keeps, Early, Passed
  <2> QED BY Zenon, <2>1, <2>2
<1>9. CASE MonitorDropOld
  BY Zenon, <1>9 DEF MonitorDropOld, Unchanged, Then, AnswerAt, NoClient,
     MappingInv, MappingShape, Keeps, Early, Passed
<1>10. CASE MonitorDropNew
  BY Zenon, <1>10 DEF MonitorDropNew, Unchanged, Then, AnswerAt, Withdraw, NoClient,
     MappingInv, MappingShape, Keeps, Early, Passed
<1>11. CASE MonitorDropDev
  BY Zenon, <1>11 DEF MonitorDropDev, Unchanged, AnswerAt, NoClient,
     MappingInv, MappingShape, Keeps, Early, Passed
<1>12. CASE StartIOActivated
  BY <1>12 DEF StartIOActivated, Unchanged, Stay, AnswerAt, Started,
     MappingInv, MappingShape, Keeps, Early, Passed
<1>13. CASE MonitorReady
  BY ZenonT(90), <1>13, ElsewhereInv DEF MonitorReady, Unchanged, Then, Stay, AnswerAt, MappingInv, MappingShape
<1>14. CASE MonitorNewBuffer
  BY Zenon, <1>14, ElsewhereInv DEF MonitorNewBuffer, Unchanged, Then, Stay, AnswerAt, MappingInv, MappingShape
<1>15. CASE StartIOReprimed
  BY ZenonT(90), <1>15, ElsewhereInv DEF StartIOReprimed, Unchanged, Then, Stay, AnswerAt, MappingInv, MappingShape
<1>16. CASE IdleAnswered
  BY Zenon, <1>16, ElsewhereInv DEF IdleAnswered, Unchanged, Then, Stay, AnswerAt, MappingInv, MappingShape
<1>17. CASE SetBufferAnswered
  BY Zenon, <1>17, ElsewhereInv DEF SetBufferAnswered, Unchanged, Then, Stay, AnswerAt, MappingInv, MappingShape
<1> QED BY Zenon, <1>1, <1>2, <1>3, <1>4, <1>5, <1>6, <1>7, <1>8, <1>9, <1>10, <1>11, <1>12, <1>13, <1>14, <1>15, <1>16, <1>17 DEF HalStep

\* The monitor goes on: no reader is left that it can see.
LEMMA HalWaitInv ==
  ASSUME MappingInv, part # "leases", part' = part, HalWait
  PROVE  MappingInv'
<1> USE HalAssumption
<1>1. CASE MonitorSuperseded
  BY Zenon, <1>1 DEF MonitorSuperseded, Unchanged, Unpinned,
     MappingInv, MappingShape, Keeps, Early, Passed
<1>2. CASE MonitorPublish
  <2>1. /\ mapping' = [mapping EXCEPT !.memory = client["dev"].id, !.session = client["dev"].session,
                                      !.buffered = FALSE]
        /\ callback' = callback /\ client' = client /\ mapping.readers = 0
    BY Zenon, <1>2 DEF MonitorPublish, Unpinned, Unchanged, PublishMapping
  <2>2. hal'.at \in {"dropOld", "free"} /\ "at" \in DOMAIN hal'
    BY Zenon, <1>2 DEF MonitorPublish, MappingInv, MappingShape
  <2>3. callback.at = "idle"
    BY <2>1 DEF MappingInv, MappingShape
  <2>4. /\ mapping' = [memory |-> client["dev"].id, session |-> client["dev"].session,
                       readers |-> mapping.readers, buffered |-> FALSE, weak |-> mapping.weak]
        /\ client["dev"] = [id |-> client["dev"].id, session |-> client["dev"].session]
    BY Zenon, <2>1 DEF MappingInv, MappingShape
  <2>5. MappingShape'
    BY Zenon, <2>1, <2>2, <2>4 DEF MappingInv, MappingShape
  <2> QED BY ZenonT(90), <2>1, <2>2, <2>3, <2>4, <2>5 DEF MappingInv, Keeps, Early, Passed
<1>3. CASE MonitorRetire
  <2>1. /\ hal.at = "retire" /\ mapping.readers = 0 /\ (mapping.buffered => mapping.weak)
        /\ UNCHANGED <<client, mapping, callback>>
    BY Zenon, <1>3 DEF MonitorRetire, Unpinned, Unchanged
  <2>2. hal'.at \in {"dropDev", "free"} /\ "at" \in DOMAIN hal'
    BY Zenon, <1>3 DEF MonitorRetire, Then, MappingInv, MappingShape
  <2>3. callback.at = "idle"
    BY <2>1 DEF MappingInv, MappingShape
  <2>4. mapping.memory = 0 \/ Passed
    BY Zenon, <2>1, <2>3 DEF MappingInv, Early, Passed
  <2> QED BY Zenon, <2>1, <2>2, <2>3, <2>4 DEF MappingInv, MappingShape, Keeps, Early, Passed
<1> QED BY Zenon, <1>1, <1>2, <1>3 DEF HalWait

LEMMA MappingNextInv == MappingInv /\ [Next]_vars => MappingInv'
<1> SUFFICES ASSUME MappingInv, [Next]_vars PROVE MappingInv'
  BY Zenon
<1> USE HalAssumption DEF helperSide, halSide
<1>1. CASE ServiceRuns \/ ServiceStarts \/ ServiceCrashes
  <2>1. UNCHANGED <<client, mapping, callback, hal, part>>
    BY Zenon, <1>1 DEF ServiceRuns, ServiceStarts, ServiceCrashes, MainPublish, MainCrash
  <2> QED BY Zenon, <2>1, ElsewhereInv DEF MappingInv, MappingShape
<1>2. CASE PluginRuns
  BY Zenon, <1>2, HalStepInv DEF PluginRuns
<1>3. CASE PluginWaits
  BY Zenon, <1>3, HalWaitInv DEF PluginWaits
<1>4. CASE MonitorWakes
  BY SMTT(30), <1>4 DEF MonitorWakes, MonitorPoll, Unchanged, Then, SendHello, MappingInv, MappingShape, Keeps, Early, Passed
<1>5. CASE MonitorGivesUp
  BY Zenon, <1>5, ElsewhereInv DEF MonitorGivesUp, PluginTimesOut, ExchangeTimesOut, MappingInv, MappingShape
<1>6. ASSUME NEW c \in Clients, AddClient(c) \/ StartIO(c) \/ StopIO(c) \/ RemoveClient(c),
             part # "leases", part' = part
      PROVE  MappingInv'
  <2>1. /\ UNCHANGED <<client, mapping, callback>> /\ "at" \in DOMAIN hal' /\ hal.at = "free"
        /\ hal'.at \in {"free", "start", "reprime", "stop"}
    BY ZenonT(90), <1>6 DEF AddClient, StartIO, StopIO, RemoveClient, GoesIdle, Started, Unchanged, MappingInv,
       MappingShape
  <2> QED BY Zenon, <1>6, <2>1, ElsewhereInv
<1>7. CASE BufferChanges
  BY Zenon, <1>7, ElsewhereInv DEF BufferChanges, SetBuffer, SetBufferStored, Unchanged, MappingInv, MappingShape
<1>8. ASSUME CallbackPin, part # "leases", part' = part PROVE MappingInv'
  <2>1. /\ callback.at = "idle" /\ UNCHANGED <<client, hal>>
        /\ callback' = [callback EXCEPT !.at = "pinned", !.early = ~mapping.buffered]
        /\ mapping' = [mapping EXCEPT !.readers = @ + 1]
    BY Zenon, <1>8 DEF CallbackPin
  <2>2. /\ callback'.at = "pinned" /\ callback'.early = ~mapping.buffered
        /\ mapping'.memory = mapping.memory /\ mapping'.session = mapping.session
        /\ mapping'.buffered = mapping.buffered /\ mapping'.weak = mapping.weak
    BY Zenon, <2>1 DEF MappingInv, MappingShape
  <2>3. mapping'.readers = 1
    BY <2>1 DEF MappingInv, MappingShape
  <2>4. MappingShape'
    BY Zenon, <2>1, <2>2 DEF MappingInv, MappingShape
  <2>5. Passed' = Passed
    BY Zenon, <2>1, <2>2 DEF Passed, Early, MappingInv, MappingShape
  <2> QED BY ZenonT(60), <1>8, <2>1, <2>2, <2>3, <2>4, <2>5 DEF MappingInv, Keeps
<1>9. ASSUME CallbackStep, part # "leases", part' = part PROVE MappingInv'
  <2>1. CASE callback.at = "pinned" /\ mapping.memory # 0
    <3>1. /\ callback' = [callback EXCEPT !.at = "using", !.memory = mapping.memory,
                                          !.session = mapping.session]
          /\ UNCHANGED <<client, hal, mapping>>
      BY Zenon, <1>9, <2>1 DEF CallbackStep, CallbackLease, CallbackRelease
    <3>2. /\ callback'.at = "using" /\ callback'.memory = mapping.memory
          /\ callback'.session = mapping.session /\ callback'.early = callback.early
      BY Zenon, <3>1 DEF MappingInv, MappingShape
    <3>3. MappingShape'
      BY Zenon, <3>1, <3>2 DEF MappingInv, MappingShape
    <3>4. /\ Passed' = Passed
          /\ Passed => mapping.weak /\ ~callback.early
          /\ callback.early \/ ~mapping.weak => ~Passed
      BY Zenon, <2>1, <3>1, <3>2 DEF Passed, Early
    <3> QED BY ZenonT(60), <1>9, <2>1, <3>1, <3>2, <3>3, <3>4 DEF MappingInv, Keeps
  <2>2. CASE ~(callback.at = "pinned" /\ mapping.memory # 0)
    <3>1. /\ callback.at # "idle" /\ UNCHANGED <<client, hal>>
          /\ \/ callback' = [callback EXCEPT !.at = "idle", !.early = FALSE] /\ mapping.memory = 0
             \/ callback' = [at |-> "idle", memory |-> 0, session |-> 0, early |-> FALSE]
          /\ mapping' = [mapping EXCEPT !.readers = @ - 1]
      BY Zenon, <1>9, <2>2 DEF CallbackStep, CallbackLease, CallbackRelease
    <3>2. /\ callback'.at = "idle" /\ callback'.early = FALSE
          /\ callback' = [at |-> callback'.at, memory |-> callback'.memory, session |-> callback'.session,
                          early |-> callback'.early]
      <4>1. CASE callback' = [callback EXCEPT !.at = "idle", !.early = FALSE]
        BY Zenon, <4>1 DEF MappingInv, MappingShape
      <4>2. CASE callback' = [at |-> "idle", memory |-> 0, session |-> 0, early |-> FALSE]
        BY Zenon, <4>2
      <4> QED BY Zenon, <3>1, <4>1, <4>2
    <3>3. /\ mapping'.memory = mapping.memory /\ mapping'.session = mapping.session
          /\ mapping'.buffered = mapping.buffered /\ mapping'.weak = mapping.weak
      BY Zenon, <3>1 DEF MappingInv, MappingShape
    <3>4. mapping'.readers = 0
      BY <3>1 DEF MappingInv, MappingShape
    <3>5. MappingShape'
      BY Zenon, <3>1, <3>2, <3>3 DEF MappingInv, MappingShape
    <3>6. Passed => Passed'
      BY Zenon, <3>2, <3>3 DEF Passed, Early
    <3> QED BY ZenonT(60), <1>9, <3>1, <3>2, <3>3, <3>4, <3>5, <3>6 DEF MappingInv, Keeps
  <2> QED BY Zenon, <2>1, <2>2
<1>10. ASSUME StartIOActivated, part # "leases", part' = part PROVE MappingInv'
  BY Zenon, <1>10, HalStepInv DEF HalStep
<1>11. CASE Flush
  BY Zenon, <1>11 DEF Flush, MappingFlush, MappingInv, MappingShape, Keeps, Early, Passed
<1>12. CASE UNCHANGED vars
  BY Zenon, <1>12, ElsewhereInv DEF vars, MappingInv, MappingShape
<1>13. CASE CoreAudioRuns
  BY Zenon, <1>13, <1>6 DEF CoreAudioRuns, CoreAudioCalls
<1>14. CASE CallbackRuns
  BY ZenonT(90), <1>14, <1>6, <1>8, <1>9, <1>10 DEF CallbackRuns
<1> QED
  BY ZenonT(90), <1>1, <1>2, <1>3, <1>4, <1>5, <1>7, <1>11, <1>12, <1>13, <1>14, HelpersElsewhere DEF Next

LEMMA MappingInitInv == Init => MappingInv
BY HalAssumption DEF Init, ClientInit, HalInit, NoClient, MappingInv, MappingShape, Keeps, Early, Passed

\* An I/O callback that counted itself before a withdrawal began uses memory that is
\* still mapped, with the session of that memory, for every interleaving with the
\* monitor and the service and whether or not the reader count may be read before the
\* withdrawal is visible; where it may not, every callback does
\* (ns6_hal_mapping_acquire, ns6_hal_mapping_withdraw, device_service_monitor).
THEOREM CallbacksUseMappedMemory == Spec => []PinnedMemoryIsMapped
<1>1. MappingInv => PinnedMemoryIsMapped
  BY Zenon, HalAssumption DEF MappingInv, Keeps, Early, Passed, PinnedMemoryIsMapped, UsesMappedMemory
<1> QED BY <1>1, MappingInitInv, MappingNextInv, PTL DEF Spec

-----------------------------------------------------------------------------
(* The lease of the plug-in: the invariant                                 *)

Trio == {"dev", "new", "old"}
Running == hal.clients > 0

\* A handle of the running session has a lease with this activity.
LeaseIs(h, active) ==
  service.up /\ client[h].session = service.session
  => \E l \in service.leases : l.id = client[h].id /\ (l.active <=> active)

\* No request under way changes or ends the lease of a connected handle.
Undisturbed(h) ==
  client[h].session # 0 =>
    \A r \in Requests : r.id = client[h].id => r.kind \notin {"active", "release"}

\* The plug-in waits for the answer to a request that makes a handle active or not.
Telling(h, active) ==
  \/ hal.at = "start" /\ h = "dev" /\ active
  \/ hal.at \in {"reprime", "stop"} /\ h = "dev" /\ ~active
  \/ hal.at = "reattach" /\ h = "dev" /\ (active <=> Running)
  \/ hal.at = "newActive" /\ h = "new" /\ (active <=> Running)

\* Its last word on the lease of dev was answered.
Settled ==
  \/ hal.at = "publish"
  \/ /\ hal.ready /\ ~hal.missed
     /\ hal.at \in {"free", "state", "replaced", "hello", "newBuffer", "newActive", "dropNew", "retire",
                    "dropOld", "setBuffer"}

\* The request that is waited for is the one this place sends.
Names(r, kind, h) == r.kind = kind /\ r.id = client[h].id /\ r.session = client[h].session
Wanted(r) ==
  r.expected =>
    /\ \A h \in Trio, active \in BOOLEAN :
         Telling(h, active) => Names(r, "active", h) /\ (r.value # 0 <=> active)
    /\ hal.at = "initBuffer" => Names(r, "buffer", "dev")

\* A good answer says that it was done.
Answered ==
  Succeeded(Plugin) =>
    /\ \A h \in Trio, active \in BOOLEAN : Telling(h, active) => LeaseIs(h, active)
    /\ hal.at = "initBuffer" => LeaseIs("dev", FALSE)

\* What the service has done before it answers.
Working == service.at \in {"check", "store", "reply", "restart", "starting"}
Done(r) ==
  /\ r.kind = "active" =>
       /\ r.session = service.session
       /\ \E l \in service.leases : l.id = r.id /\ (l.active <=> r.value # 0)
  /\ r.kind = "buffer" => r.session = service.session /\ \E l \in service.leases : l.id = r.id
Applied == Working => Done(service.request)

\* Before the first connection nothing is active.
Starting == hal.at \in {"init", "initHello", "initBuffer"}
Inactive == \A l \in service.leases : ~l.active
Unheard == Starting => hal.clients = 0 /\ Inactive /\ \A r \in Requests : r.kind # "active"

\* The request that is waited for was sent last, and answered last.
LastExpected ==
  /\ \A i \in 1..Len(port) : port[i].expected => i = Len(port)
  /\ service.request.expected => port = <<>>
  /\ answer[Plugin].state # "waiting" => \A r \in Requests : ~r.expected
  /\ answer[Plugin].state = "replied" => port = <<>> /\ service.request = NoRequest

\* The plug-in is the only client of this instance.
Alone ==
  /\ alive = {Plugin} /\ \A l \in service.leases : l.process = Plugin
  /\ \A r \in Requests : r.kind = "hello" \/ r.expected => r.from = Plugin
  /\ service.up => service.session # 0

\* A handle has an id of its own while it is connected or connecting.
HandleIds ==
  /\ \A h \in Trio : client[h].session # 0 => client[h].id # 0
  /\ \A h, k \in Trio : client[h].id = client[k].id /\ client[h].id # 0 => h = k
  /\ hal.at = "initHello" => client["dev"].id # 0
  /\ hal.at = "hello" => client["new"].id # 0

\* What the places under stream_lock know.
AtRest == hal.at \in {"init", "free", "replaced", "publish", "retire"}
UnderLock ==
  /\ AtRest => answer[Plugin].state = "idle"
  /\ hal.at = "stop" => hal.clients = 0
  /\ hal.at \in {"start", "reprime"} => hal.clients < MaxRunning /\ hal.who \in Clients

\* Every start that CoreAudio runs is counted.
Starts(f) == {p \in Clients \X (1..MaxRunning) : p[2] <= f[p[1]]}
Accounts ==
  /\ hal.clients \in 0..MaxRunning
  /\ hal.running \in [Clients -> 0..MaxRunning] /\ hal.starts \in [Clients -> Nat]
  /\ \A c \in Clients : hal.starts[c] <= hal.running[c]
  /\ \A c \in Clients \ hal.tracked : hal.starts[c] = 0
  /\ Cardinality(Starts(hal.running)) <= hal.clients

HalShape ==
  /\ "at" \in DOMAIN hal /\ "ready" \in DOMAIN hal /\ "missed" \in DOMAIN hal /\ "who" \in DOMAIN hal
  /\ "clients" \in DOMAIN hal /\ "running" \in DOMAIN hal /\ "starts" \in DOMAIN hal
  /\ "tracked" \in DOMAIN hal /\ "buffer" \in DOMAIN hal /\ "setting" \in DOMAIN hal
  /\ hal.buffer \in Buffers /\ hal.setting \in Buffers

PluginInv ==
  /\ LeaseTypeOK /\ HalShape
  /\ Alone /\ LastExpected /\ HandleIds /\ UnderLock /\ Accounts /\ Unheard
  /\ \A r \in Requests : Wanted(r)
  /\ Applied /\ Answered
  /\ Settled => LeaseIs("dev", Running) /\ Undisturbed("dev")

PartsInv ==
  /\ part # "leases" => PluginInv
  /\ part = "leases" => hal.at = "init" /\ hal.clients = 0

\* The limits of the registry and of the port.
RegistryInv ==
  /\ \A l \in service.leases : l.id \in Ids /\ l.process \in Processes
  /\ IsFiniteSet(service.leases) /\ Cardinality(service.leases) <= MaxClients
  /\ Len(port) <= QueueLimit
  /\ \A r \in Requests : r.kind = "hello" => r.id \in Ids /\ r.from \in Processes

ReadersInv ==
  /\ "readers" \in DOMAIN mapping /\ "at" \in DOMAIN callback
  /\ mapping.readers = IF callback.at = "idle" THEN 0 ELSE 1

-----------------------------------------------------------------------------
(* The service's steps, seen by the plug-in                                *)

\* What the plug-in relies on when the service has taken a step.
LEMMA ServiceMovesInv ==
  ASSUME PluginInv, UNCHANGED <<alive, client, hal>>, LeaseTypeOK', LastExpected', Applied', Answered',
         answer'[Plugin].state = "idle" \/ ~AtRest,
         service'.up => service'.session # 0,
         \A l \in service'.leases : l.process = Plugin,
         Inactive /\ service.request.kind # "active" => Inactive',
         \A r \in Requests' : r \in Requests \/ r = NoRequest,
         \A h \in Trio, active \in BOOLEAN : LeaseIs(h, active) /\ Undisturbed(h) => LeaseIs(h, active)'
  PROVE  PluginInv'
<1>1. NoRequest.kind = "none" /\ NoRequest.expected = FALSE
  BY Zenon DEF NoRequest
<1>2. Alone'
  BY Zenon, <1>1 DEF PluginInv, Alone
<1>3. HalShape' /\ HandleIds' /\ UnderLock' /\ Accounts'
  BY Zenon DEF PluginInv, HalShape, HandleIds, UnderLock, AtRest, Accounts
<1>4. service.request \in Requests
  BY Zenon DEF Requests
<1>5. Unheard'
  BY Zenon, <1>1, <1>4 DEF PluginInv, Unheard, Starting
<1>6. ASSUME NEW r \in Requests' PROVE Wanted(r)'
  <2>1. CASE r \in Requests
    BY Zenon, <2>1 DEF PluginInv, Wanted, Telling, Names, Running
  <2>2. CASE r = NoRequest
    BY Zenon, <1>1, <2>2 DEF Wanted
  <2> QED BY Zenon, <1>6, <2>1, <2>2
<1>7. ASSUME Settled' PROVE LeaseIs("dev", Running)' /\ Undisturbed("dev")'
  <2>1. LeaseIs("dev", Running) /\ Undisturbed("dev") /\ "dev" \in Trio
    BY Zenon, <1>7 DEF PluginInv, Settled, Trio
  <2>2. Undisturbed("dev")'
    BY Zenon, <1>1, <2>1 DEF Undisturbed
  <2>3. CASE Running
    <3>1. LeaseIs("dev", TRUE)'
      BY Zenon, <2>1, <2>3 DEF LeaseIs
    <3> QED BY Zenon, <2>2, <2>3, <3>1 DEF LeaseIs, Running
  <2>4. CASE ~Running
    <3>1. LeaseIs("dev", FALSE)'
      BY Zenon, <2>1, <2>4 DEF LeaseIs
    <3> QED BY Zenon, <2>2, <2>4, <3>1 DEF LeaseIs, Running
  <2> QED BY Zenon, <2>3, <2>4
<1> QED BY Zenon, <1>2, <1>3, <1>5, <1>6, <1>7 DEF PluginInv

\* Steps that change neither the registry nor an answer.
LEMMA RegistryStaysInv ==
  ASSUME PluginInv, UNCHANGED <<alive, client, hal, call, answer>>, service' \in ServiceValue,
         service'.leases = service.leases, service'.session = service.session, service'.up = service.up,
         port' \in Seq(RequestValue), LastExpected', Applied',
         \A r \in Requests' : r \in Requests \/ r = NoRequest
  PROVE  PluginInv'
<1>1. LeaseTypeOK' /\ Plugin \in Processes
  BY Zenon, HalAssumption DEF PluginInv, LeaseTypeOK
<1>2. \A h, active : LeaseIs(h, active)' <=> LeaseIs(h, active)
  BY Zenon DEF LeaseIs
<1>3. Answered'
  BY Zenon, <1>2 DEF PluginInv, Answered, Succeeded, Telling, Running
<1>4. answer'[Plugin].state = "idle" \/ ~AtRest
  BY Zenon DEF PluginInv, UnderLock
<1>5. /\ service'.up => service'.session # 0
      /\ \A l \in service'.leases : l.process = Plugin
      /\ Inactive => Inactive'
  BY Zenon DEF PluginInv, Alone, Inactive
<1> QED BY Zenon, <1>1, <1>2, <1>3, <1>4, <1>5, ServiceMovesInv

\* The next request is taken: the plug-in is alive, so no lease is reaped.
LEMMA PluginReceiveInv ==
  ASSUME PluginInv, UNCHANGED <<client, hal, call>>, ServiceReceive
  PROVE  PluginInv'
<1> DEFINE request == IF port = <<>> THEN NoRequest ELSE Head(port)
           next == IF port = <<>> THEN "receive" ELSE "handle"
<1>1. service \in ServiceValue /\ port \in Seq(RequestValue)
  BY Zenon DEF PluginInv, LeaseTypeOK
<1>2. Reap(service.leases) = service.leases
  BY Zenon DEF PluginInv, Alone, Reap
<1>3. /\ port' = IF port = <<>> THEN port ELSE Tail(port)
      /\ service' = [[service EXCEPT !.at = next] EXCEPT !.request = request]
      /\ UNCHANGED <<alive, answer>>
  BY Zenon, <1>2 DEF ServiceReceive
<1>4. NoRequest \in RequestValue /\ next \in Places /\ next \in {"receive", "handle"}
  BY Zenon DEF NoRequest, RequestValue, Pids, Places
<1>5. request \in RequestValue
  BY <1>1, <1>4
<1>6. /\ port' \in Seq(RequestValue)
      /\ port = <<>> => port' = <<>> /\ request = NoRequest
      /\ port # <<>> => /\ Len(port) \in Nat /\ Len(port') = Len(port) - 1 /\ Len(port) >= 1
                        /\ \A i \in 1..Len(port') : port'[i] = port[i + 1] /\ i + 1 \in 1..Len(port)
                        /\ request = port[1] /\ 1 \in 1..Len(port)
  BY <1>1, <1>3
<1> HIDE DEF request, next
<1>7. /\ service' \in ServiceValue /\ service'.leases = service.leases /\ service'.up = service.up
      /\ service'.session = service.session /\ service'.request = request
      /\ service'.at \in {"receive", "handle"}
  BY Zenon, <1>1, <1>3, <1>4, <1>5 DEF ServiceValue
<1>8. \A r \in Requests' : r = NoRequest \/ \E i \in 1..Len(port) : r = port[i]
  BY <1>6, <1>7 DEF Requests
<1>9. \A r \in Requests' : r \in Requests \/ r = NoRequest
  BY Zenon, <1>8 DEF Requests
<1>10. NoRequest.expected = FALSE
  BY Zenon DEF NoRequest
<1>11. LastExpected'
  <2>1. LastExpected
    BY Zenon DEF PluginInv
  <2>2. CASE port = <<>>
    BY <1>3, <1>6, <1>7, <1>9, <1>10, <2>1, <2>2 DEF LastExpected
  <2>3. CASE port # <<>>
    <3>1. ASSUME NEW i \in 1..Len(port'), port'[i].expected PROVE i = Len(port')
      BY <1>6, <2>1, <2>3, <3>1 DEF LastExpected
    <3>2. ASSUME request.expected PROVE port' = <<>>
      BY <1>3, <1>6, <2>1, <2>3, <3>2 DEF LastExpected
    <3>3. answer[Plugin].state # "waiting" => \A r \in Requests' : ~r.expected
      BY Zenon, <1>9, <1>10, <2>1 DEF LastExpected
    <3> QED BY Zenon, <1>3, <1>7, <2>1, <2>3, <3>1, <3>2, <3>3 DEF LastExpected
  <2> QED BY Zenon, <2>2, <2>3
<1>12. Applied'
  BY Zenon, <1>7 DEF Applied, Working
<1> QED BY Zenon, <1>3, <1>6, <1>7, <1>9, <1>11, <1>12, RegistryStaysInv

\* The service goes on with the request it has.
LEMMA PluginWorkInv ==
  ASSUME PluginInv, UNCHANGED <<alive, client, hal, call, port, answer>>, service' \in ServiceValue,
         service'.leases = service.leases, service'.session = service.session, service'.up = service.up,
         service'.request = service.request, Working' => Done(service.request)
  PROVE  PluginInv'
<1>1. Requests' = Requests
  BY Zenon DEF Requests
<1>2. LastExpected'
  BY Zenon, <1>1 DEF PluginInv, LastExpected
<1>3. Applied'
  BY Zenon DEF Applied, Done
<1>4. port' \in Seq(RequestValue)
  BY Zenon DEF PluginInv, LeaseTypeOK
<1> QED BY Zenon, <1>1, <1>2, <1>3, <1>4, RegistryStaysInv

LEMMA PluginStepsOnInv ==
  ASSUME PluginInv, UNCHANGED <<client, hal, call>>,
         ServiceCheckPause \/ ServiceStorePause \/ ServiceRestart \/ HandleStartupBuffer
  PROVE  PluginInv'
<1>1. service \in ServiceValue /\ service.request \in RequestValue
  BY Zenon DEF PluginInv, LeaseTypeOK, ServiceValue
<1>2. UNCHANGED <<alive, port, answer>>
  BY Zenon DEF ServiceCheckPause, ServiceStorePause, ServiceRestart, HandleStartupBuffer
<1>3. ASSUME NEW at \in Places, service' = [service EXCEPT !.at = at],
             Working \/ at \in {"receive", "handle", "reapStore"}
      PROVE  PluginInv'
  <2>1. service' \in ServiceValue /\ service'.leases = service.leases /\ service'.up = service.up
        /\ service'.session = service.session /\ service'.request = service.request /\ service'.at = at
    BY Zenon, <1>1, <1>3 DEF ServiceValue
  <2>2. Working' => Done(service.request)
    BY Zenon, <1>3, <2>1 DEF PluginInv, Applied, Working
  <2> QED BY Zenon, <1>2, <2>1, <2>2, PluginWorkInv
<1>4. CASE ServiceCheckPause
  BY Zenon, <1>3, <1>4 DEF ServiceCheckPause, Places, Working
<1>5. CASE ServiceStorePause
  BY Zenon, <1>3, <1>5 DEF ServiceStorePause, Places, Working
<1>6. CASE ServiceRestart
  BY Zenon, <1>3, <1>6 DEF ServiceRestart, Places, Working
<1>7. CASE HandleStartupBuffer
  <2>1. PICK at \in Places : service' = [service EXCEPT !.buffer = service.request.value, !.at = at]
    BY Zenon, <1>7 DEF HandleStartupBuffer, Places
  <2>2. service' \in ServiceValue /\ service'.leases = service.leases /\ service'.up = service.up
        /\ service'.session = service.session /\ service'.request = service.request
    BY Zenon, <1>1, <2>1 DEF ServiceValue, RequestValue
  <2>3. Done(service.request)
    BY Zenon, <1>7 DEF HandleStartupBuffer, Handling, Known, Contains, Done
  <2> QED BY Zenon, <1>2, <2>2, <2>3, PluginWorkInv
<1> QED BY Zenon, <1>4, <1>5, <1>6, <1>7

\* The service answers: a good answer to a control request says that it was done.
LEMMA PluginAnsweredInv ==
  ASSUME PluginInv, UNCHANGED <<alive, client, hal, call, port>>, service' \in ServiceValue,
         service'.up = service.up, service'.session = service.session,
         service'.request = NoRequest, service'.at = "receive",
         NEW status \in {"ok", "full", "badId", "failed"},
         Answer(service.request, status, service.session),
         \A l \in service'.leases : l.process = Plugin,
         Inactive => Inactive',
         \A h \in Trio, active \in BOOLEAN : LeaseIs(h, active) => LeaseIs(h, active)',
         status = "ok" => Done(service.request) \/ service.request.kind \in {"hello", "state"}
  PROVE  PluginInv'
<1> DEFINE r == service.request
<1>1. /\ r \in RequestValue /\ r \in Requests /\ answer \in [Processes -> AnswerValue]
      /\ service \in ServiceValue /\ Plugin \in Processes /\ r.expected \in BOOLEAN
  BY Zenon, HalAssumption DEF PluginInv, LeaseTypeOK, ServiceValue, RequestValue, Requests
<1>2. r.expected => r.from = Plugin
  BY Zenon, <1>1 DEF PluginInv, Alone
<1>3. Replied(status, service.session) \in AnswerValue
  BY Zenon, <1>1 DEF Replied, AnswerValue, ServiceValue
<1>4. answer' \in [Processes -> AnswerValue]
  BY Zenon, <1>1, <1>2, <1>3 DEF Answer
<1>5. r.expected => answer'[Plugin] = Replied(status, service.session)
  BY Zenon, <1>1, <1>2 DEF Answer
<1>6. ~r.expected => answer' = answer
  BY Zenon DEF Answer
<1>7. LeaseTypeOK'
  BY Zenon, <1>4 DEF PluginInv, LeaseTypeOK
<1>8. \A q \in Requests' : q \in Requests \/ q = NoRequest
  BY Zenon DEF Requests
<1>9. NoRequest.expected = FALSE
  BY Zenon DEF NoRequest
<1>10. LastExpected /\ (r.expected => answer[Plugin].state = "waiting" /\ port = <<>>)
  BY Zenon, <1>1 DEF PluginInv, LastExpected
<1>11. \A q \in Requests' : q.expected => q \in Requests /\ ~r.expected
  <2>1. ASSUME r.expected, NEW q \in Requests' PROVE ~q.expected
    BY <1>9, <1>10, <2>1 DEF Requests
  <2> QED BY Zenon, <1>8, <1>9, <2>1
<1>12. LastExpected'
  <2>1. answer'[Plugin].state # "waiting" => \A q \in Requests' : ~q.expected
    BY Zenon, <1>6, <1>10, <1>11 DEF LastExpected
  <2>2. answer'[Plugin].state = "replied" => port = <<>>
    BY Zenon, <1>6, <1>10 DEF LastExpected
  <2> QED BY Zenon, <1>9, <1>10, <2>1, <2>2 DEF LastExpected
<1>13. answer'[Plugin].state = "idle" \/ ~AtRest
  BY Zenon, <1>6, <1>10 DEF PluginInv, UnderLock
<1>14. Applied'
  BY Zenon DEF Applied, Working
<1>15. ASSUME r.expected, Succeeded(Plugin)' PROVE Done(r) \/ r.kind \in {"hello", "state"}
  <2>1. Replied(status, service.session).status = status
    BY Zenon DEF Replied
  <2>2. status = "ok"
    BY Zenon, <1>5, <1>15, <2>1 DEF Succeeded
  <2> QED BY Zenon, <2>2
<1>16. ASSUME Succeeded(Plugin)', NEW h \in Trio, NEW active \in BOOLEAN, Telling(h, active)'
       PROVE  LeaseIs(h, active)'
  <2>1. Telling(h, active)
    BY Zenon, <1>16 DEF Telling, Running
  <2>2. CASE r.expected
    <3>1. Names(r, "active", h) /\ (r.value # 0 <=> active)
      BY Zenon, <1>1, <2>1, <2>2 DEF PluginInv, Wanted
    <3>2. Done(r)
      BY Zenon, <1>15, <1>16, <2>2, <3>1 DEF Names
    <3>3. LeaseIs(h, active)
      BY Zenon, <3>1, <3>2 DEF Names, Done, LeaseIs
    <3> QED BY Zenon, <3>3
  <2>3. CASE ~r.expected
    BY Zenon, <1>6, <1>16, <2>1, <2>3 DEF PluginInv, Answered, Succeeded
  <2> QED BY Zenon, <2>2, <2>3
<1>17. ASSUME Succeeded(Plugin)', hal.at = "initBuffer" PROVE LeaseIs("dev", FALSE)'
  <2>1. CASE r.expected
    <3>1. Names(r, "buffer", "dev")
      BY Zenon, <1>1, <1>17, <2>1 DEF PluginInv, Wanted
    <3>2. Done(r)
      BY Zenon, <1>15, <1>17, <2>1, <3>1 DEF Names
    <3>3. Inactive
      BY Zenon, <1>17 DEF PluginInv, Unheard, Starting
    <3>4. LeaseIs("dev", FALSE)
      BY Zenon, <3>1, <3>2, <3>3 DEF Names, Done, LeaseIs, Inactive
    <3> QED BY Zenon, <3>4 DEF Trio
  <2>2. CASE ~r.expected
    BY Zenon, <1>6, <1>17, <2>2 DEF PluginInv, Answered, Succeeded, Trio
  <2> QED BY Zenon, <2>1, <2>2
<1>18. Answered'
  BY Zenon, <1>16, <1>17 DEF Answered
<1>19. service'.up => service'.session # 0
  BY Zenon DEF PluginInv, Alone
<1> QED BY Zenon, <1>7, <1>8, <1>12, <1>13, <1>14, <1>18, <1>19, ServiceMovesInv

\* The answers of handle_control and handle_state, which leave the registry alone.
LEMMA PluginRepliesInv ==
  ASSUME PluginInv, UNCHANGED <<client, hal, call>>,
         ServiceReply \/ HandleState \/ HandleUnknown \/ ServiceStarted
  PROVE  PluginInv'
<1>1. service \in ServiceValue
  BY Zenon DEF PluginInv, LeaseTypeOK
<1>2. service' = Handled /\ UNCHANGED <<alive, port>>
  BY Zenon DEF ServiceReply, HandleState, HandleUnknown, ServiceStarted
<1>3. /\ service' \in ServiceValue /\ service'.leases = service.leases /\ service'.up = service.up
      /\ service'.session = service.session /\ service'.request = NoRequest /\ service'.at = "receive"
  BY Zenon, <1>1, <1>2, HandledType DEF Handled, ServiceValue
<1>4. PICK status \in {"ok", "full", "badId", "failed"} :
        /\ Answer(service.request, status, service.session)
        /\ status = "ok" => Done(service.request) \/ service.request.kind \in {"hello", "state"}
  <2>1. CASE ServiceReply \/ ServiceStarted
    BY Zenon, <2>1 DEF ServiceReply, ServiceStarted, PluginInv, Applied, Working
  <2>2. CASE HandleState \/ HandleUnknown
    BY Zenon, <2>2 DEF HandleState, HandleUnknown, Handling
  <2> QED BY Zenon, <2>1, <2>2
<1>5. /\ \A l \in service'.leases : l.process = Plugin
      /\ Inactive => Inactive'
      /\ \A h \in Trio, active \in BOOLEAN : LeaseIs(h, active) => LeaseIs(h, active)'
  BY Zenon, <1>3 DEF PluginInv, Alone, Inactive, LeaseIs
<1> QED BY Zenon, <1>2, <1>3, <1>4, <1>5, PluginAnsweredInv

\* handle_hello adds an inactive lease or gives an old one to the sender.
LEMMA PluginHelloInv ==
  ASSUME PluginInv, UNCHANGED <<client, hal, call>>, HandleHello
  PROVE  PluginInv'
<1> DEFINE r == service.request
           fits == CanAttach(service.leases, r.id)
           leases == IF fits THEN Attach(service.leases, r.id, r.from) ELSE service.leases
           status == IF fits THEN "ok" ELSE "full"
<1>1. service \in ServiceValue /\ r \in RequestValue /\ r \in Requests
  BY Zenon DEF PluginInv, LeaseTypeOK, ServiceValue, Requests
<1>2. service' = [Handled EXCEPT !.leases = leases] /\ Answer(r, status, service.session)
      /\ UNCHANGED <<alive, port>> /\ r.kind = "hello"
  BY Zenon, <1>1, HandledType DEF HandleHello, Handling
<1>3. r.from = Plugin /\ service.leases \in SUBSET LeaseValue /\ r.id \in Nat /\ r.from \in Pids
  BY Zenon, <1>1, <1>2 DEF PluginInv, Alone, ServiceValue, RequestValue
<1>4. /\ [id |-> r.id, process |-> r.from, active |-> FALSE] \in LeaseValue
      /\ [id |-> r.id, process |-> r.from, active |-> FALSE].process = Plugin
      /\ [id |-> r.id, process |-> r.from, active |-> FALSE].active = FALSE
  BY Zenon, <1>3 DEF LeaseValue
<1>5. \A l \in service.leases :
        /\ [l EXCEPT !.process = r.from] \in LeaseValue
        /\ [l EXCEPT !.process = r.from].process = Plugin
        /\ [l EXCEPT !.process = r.from].id = l.id /\ [l EXCEPT !.process = r.from].active = l.active
  BY Zenon, <1>3 DEF LeaseValue
<1>6. /\ leases \in SUBSET LeaseValue
      /\ \A l \in leases : l.process = Plugin
      /\ Inactive => \A l \in leases : ~l.active
      /\ \A l \in service.leases : \E m \in leases : m.id = l.id /\ m.active = l.active
  <2>1. \A l \in service.leases : l.process = Plugin
    BY Zenon DEF PluginInv, Alone
  <2>2. CASE ~fits
    BY Zenon, <1>3, <2>1, <2>2 DEF Inactive
  <2>3. CASE fits /\ Contains(service.leases, r.id)
    <3>1. leases = {IF l.id = r.id THEN [l EXCEPT !.process = r.from] ELSE l : l \in service.leases}
      BY Zenon, <2>3 DEF Attach
    <3> HIDE DEF leases
    <3>2. \A m \in leases : \E l \in service.leases : m = l \/ m = [l EXCEPT !.process = r.from]
      BY Zenon, <3>1
    <3>3. \A l \in service.leases : l \in leases \/ [l EXCEPT !.process = r.from] \in leases
      BY Zenon, <3>1
    <3>4. ASSUME NEW m \in leases PROVE m \in LeaseValue /\ m.process = Plugin
      <4>1. PICK l \in service.leases : m = l \/ m = [l EXCEPT !.process = r.from]
        BY Zenon, <3>2
      <4>2. CASE m = l
        BY Zenon, <1>3, <2>1, <4>2
      <4>3. CASE m = [l EXCEPT !.process = r.from]
        BY Zenon, <1>5, <4>3
      <4> QED BY Zenon, <4>1, <4>2, <4>3
    <3>5. Inactive => \A l \in leases : ~l.active
      BY Zenon, <1>5, <3>2 DEF Inactive
    <3>6. \A l \in service.leases : \E m \in leases : m.id = l.id /\ m.active = l.active
      BY Zenon, <1>5, <3>3
    <3> QED BY Zenon, <3>4, <3>5, <3>6
  <2>4. CASE fits /\ ~Contains(service.leases, r.id)
    <3>1. leases = service.leases \union {[id |-> r.id, process |-> r.from, active |-> FALSE]}
      BY Zenon, <2>4 DEF Attach
    <3> HIDE DEF leases
    <3> QED BY Zenon, <1>3, <1>4, <2>1, <3>1 DEF Inactive
  <2> QED BY Zenon, <2>2, <2>3, <2>4
<1>7. PICK st \in {"ok", "full", "badId", "failed"} : st = status
  BY Zenon
<1> HIDE DEF leases, status, fits
<1>8. /\ service' \in ServiceValue /\ service'.leases = leases /\ service'.up = service.up
      /\ service'.session = service.session /\ service'.request = NoRequest /\ service'.at = "receive"
  <2>1. Handled.at = "receive"
    BY Zenon, <1>1 DEF Handled, ServiceValue
  <2> QED BY Zenon, <1>1, <1>2, <1>6, <2>1, HandledType DEF ServiceValue
<1>9. Inactive => Inactive'
  BY Zenon, <1>6, <1>8 DEF Inactive
<1>10. ASSUME NEW h \in Trio, NEW active \in BOOLEAN, LeaseIs(h, active), service.up,
              client[h].session = service.session
       PROVE  \E l \in leases : l.id = client[h].id /\ (l.active <=> active)
  <2>1. PICK l \in service.leases : l.id = client[h].id /\ (l.active <=> active)
    BY Zenon, <1>10 DEF LeaseIs
  <2>2. PICK m \in leases : m.id = l.id /\ m.active = l.active
    BY Zenon, <1>6
  <2> QED BY Zenon, <2>1, <2>2
<1>11. \A h \in Trio, active \in BOOLEAN : LeaseIs(h, active) => LeaseIs(h, active)'
  BY Zenon, <1>8, <1>10 DEF LeaseIs
<1>12. Answer(r, st, service.session)
  BY Zenon, <1>2, <1>7
<1> QED BY Zenon, <1>2, <1>6, <1>7, <1>8, <1>9, <1>11, <1>12, PluginAnsweredInv

\* handle_control changes one lease: the handle it belongs to waits for that, or
\* the plug-in has given it up.
LEMMA PluginControlInv ==
  ASSUME PluginInv, UNCHANGED <<alive, client, hal, call, port, answer>>,
         service.request.kind \in {"active", "release"}, NEW leases \in SUBSET LeaseValue,
         service' = WithLeases(leases, "check", "reply"),
         \A l \in leases : l.process = Plugin,
         \A l \in service.leases : l.id # service.request.id => l \in leases,
         service.request.kind = "active" =>
           /\ service.request.session = service.session
           /\ \E l \in leases : l.id = service.request.id /\ (l.active <=> service.request.value # 0),
         service.request.kind = "release" => \A l \in leases : l \in service.leases
  PROVE  PluginInv'
<1> DEFINE r == service.request
<1>1. service \in ServiceValue /\ r \in Requests /\ "check" \in Places /\ "reply" \in Places
  BY Zenon DEF PluginInv, LeaseTypeOK, Requests, Places
<1>2. /\ service' \in ServiceValue /\ service'.leases = leases /\ service'.up = service.up
      /\ service'.session = service.session /\ service'.request = r
  BY ZenonT(90), <1>1, WithLeasesType
<1>3. Requests' = Requests
  BY Zenon, <1>2 DEF Requests
<1>4. LeaseTypeOK'
  BY Zenon, <1>2 DEF PluginInv, LeaseTypeOK
<1>5. LastExpected'
  BY Zenon, <1>2, <1>3 DEF PluginInv, LastExpected
<1>6. Applied'
  BY Zenon, <1>2 DEF Applied, Done
<1>7. NoRequest.kind = "none"
  BY Zenon DEF NoRequest
<1>8. ~Succeeded(Plugin)
  BY Zenon, <1>7 DEF PluginInv, LastExpected, Succeeded
<1>9. Answered'
  BY Zenon, <1>8 DEF Answered, Succeeded
<1>10. answer'[Plugin].state = "idle" \/ ~AtRest
  BY Zenon DEF PluginInv, UnderLock
<1>11. service'.up => service'.session # 0
  BY Zenon, <1>2 DEF PluginInv, Alone
<1>12. Inactive /\ r.kind # "active" => Inactive'
  BY Zenon, <1>2 DEF Inactive
<1>13. ASSUME NEW h \in Trio, NEW active \in BOOLEAN, LeaseIs(h, active), Undisturbed(h), service.up,
              client[h].session = service.session
       PROVE  \E l \in leases : l.id = client[h].id /\ (l.active <=> active)
  <2>1. r.id # client[h].id
    BY Zenon, <1>1, <1>11, <1>13, <1>2 DEF Undisturbed
  <2>2. PICK l \in service.leases : l.id = client[h].id /\ (l.active <=> active)
    BY Zenon, <1>13 DEF LeaseIs
  <2> QED BY Zenon, <2>1, <2>2
<1>14. \A h \in Trio, active \in BOOLEAN : LeaseIs(h, active) /\ Undisturbed(h) => LeaseIs(h, active)'
  BY Zenon, <1>2, <1>13 DEF LeaseIs
<1> QED BY Zenon, <1>2, <1>3, <1>4, <1>5, <1>6, <1>9, <1>10, <1>11, <1>12, <1>14, ServiceMovesInv

LEMMA PluginActiveInv ==
  ASSUME PluginInv, UNCHANGED <<client, hal, call>>, HandleAudioActive
  PROVE  PluginInv'
<1> DEFINE r == service.request
           on == r.value # 0
           leases == SetActive(service.leases, r.id, on)
<1>1. service.leases \in SUBSET LeaseValue /\ \A l \in service.leases : l.process = Plugin
  BY Zenon DEF PluginInv, LeaseTypeOK, ServiceValue, Alone
<1>2. /\ service' = WithLeases(leases, "check", "reply") /\ UNCHANGED <<alive, port, answer>>
      /\ r.kind = "active" /\ r.session = service.session
      /\ \E l \in service.leases : l.id = r.id
  BY Zenon DEF HandleAudioActive, Handling, Known, Contains
<1>3. PICK set \in BOOLEAN : set <=> on
  BY Zenon
<1>4. leases = {IF l.id = r.id THEN [l EXCEPT !.active = set] ELSE l : l \in service.leases}
  <2>1. CASE set
    BY Zenon, <1>3, <2>1 DEF SetActive
  <2>2. CASE ~set
    BY Zenon, <1>3, <2>2 DEF SetActive
  <2> QED BY Zenon, <2>1, <2>2
<1> HIDE DEF leases, on
<1>5. \A l \in service.leases :
        /\ [l EXCEPT !.active = set] \in LeaseValue /\ [l EXCEPT !.active = set].active = set
        /\ [l EXCEPT !.active = set].id = l.id /\ [l EXCEPT !.active = set].process = l.process
  BY Zenon, <1>1, <1>3 DEF LeaseValue
<1>6. ASSUME NEW m \in leases PROVE m \in LeaseValue /\ m.process = Plugin
  <2>1. PICK l \in service.leases : m = l \/ m = [l EXCEPT !.active = set]
    BY Zenon, <1>4
  <2> QED BY Zenon, <1>1, <1>5, <2>1
<1>7. \A l \in service.leases : l.id # r.id => l \in leases
  BY Zenon, <1>4
<1>8. \E l \in leases : l.id = r.id /\ (l.active <=> r.value # 0)
  <2>1. PICK l \in service.leases : l.id = r.id
    BY Zenon, <1>2
  <2>2. PICK m \in leases : m = [l EXCEPT !.active = set]
    BY Zenon, <1>4, <2>1
  <2>3. m.id = r.id /\ m.active = set
    BY Zenon, <1>5, <2>1, <2>2
  <2>4. m.active <=> r.value # 0
    BY Zenon, <1>3, <2>3 DEF on
  <2> QED BY Zenon, <2>3, <2>4
<1>9. leases \in SUBSET LeaseValue
  BY Zenon, <1>6
<1> QED BY Zenon, <1>2, <1>6, <1>7, <1>8, <1>9, PluginControlInv

LEMMA PluginReleaseInv ==
  ASSUME PluginInv, UNCHANGED <<client, hal, call>>, HandleRelease
  PROVE  PluginInv'
<1> DEFINE leases == Detach(service.leases, service.request.id)
<1>1. service.leases \in SUBSET LeaseValue /\ \A l \in service.leases : l.process = Plugin
  BY Zenon DEF PluginInv, LeaseTypeOK, ServiceValue, Alone
<1>2. /\ service' = WithLeases(leases, "check", "reply") /\ UNCHANGED <<alive, port, answer>>
      /\ service.request.kind = "release"
  BY Zenon DEF HandleRelease, Handling
<1>3. /\ leases \in SUBSET LeaseValue /\ \A l \in leases : l.process = Plugin
      /\ \A l \in service.leases : l.id # service.request.id => l \in leases
      /\ \A l \in leases : l \in service.leases
  BY Zenon, <1>1 DEF Detach
<1> HIDE DEF leases
<1> QED BY Zenon, <1>2, <1>3, PluginControlInv

LEMMA PluginServiceInv ==
  ASSUME PluginInv, UNCHANGED <<client, hal, call>>, ServiceStep
  PROVE  PluginInv'
BY Zenon, PluginReceiveInv, PluginStepsOnInv, PluginRepliesInv, PluginHelloInv, PluginActiveInv,
   PluginReleaseInv DEF ServiceStep

\* The process ends, or starts again under a session that no handle holds: a lease
\* of the plug-in is one of the running session.
LEMMA PluginRestartInv ==
  ASSUME PluginInv, UNCHANGED <<hal, call>>, MainCrash \/ MainPublish
  PROVE  PluginInv'
<1>1. /\ UNCHANGED <<alive, client, port>> /\ Plugin \in Processes
      /\ answer \in [Processes -> AnswerValue]
  BY Zenon, HalAssumption DEF MainCrash, MainPublish, ProcessEnds, Publish, PluginInv, LeaseTypeOK
<1>2. /\ ServiceDown \in ServiceValue /\ ServiceDown.up = FALSE /\ ServiceDown.request = NoRequest
      /\ ServiceDown.leases = {} /\ ServiceDown.at = "down"
  <2>1. NoRequest \in RequestValue /\ DefaultBuffer \in Nat \union Buffers /\ "down" \in Places
    BY Zenon, ServiceAssumption DEF NoRequest, RequestValue, Pids, Places
  <2> QED BY Zenon, <2>1 DEF ServiceDown, ServiceValue
<1>3. /\ service' \in ServiceValue /\ service'.request = NoRequest /\ service'.leases = {}
      /\ service'.at \in {"down", "receive"}
      /\ service'.up => service'.session # 0 /\ \A h \in Trio : client[h].session # service'.session
  <2>1. CASE MainCrash
    BY Zenon, <1>2, <2>1 DEF MainCrash, ProcessEnds
  <2>2. CASE MainPublish
    <3>1. PICK s \in FreshSessions : service' = [ServiceDown EXCEPT !.up = TRUE, !.session = s, !.at = "receive"]
      BY Zenon, <2>2 DEF MainPublish, Publish
    <3>2. s \in Nat /\ s # 0 /\ \A h \in Trio : client[h].session # s
      BY Zenon, <3>1, ServiceAssumption, HalAssumption DEF FreshSessions, Trio
    <3> QED BY Zenon, <1>2, <3>1, <3>2 DEF ServiceValue, Places
  <2> QED BY Zenon, <2>1, <2>2
<1>4. service.request \in Requests /\ NoRequest.expected = FALSE /\ NoRequest.kind = "none"
  BY Zenon DEF Requests, NoRequest
<1>5. \/ answer' = answer
      \/ answer' = [answer EXCEPT ![Plugin] = Failed] /\ service.request.expected
  BY Zenon, <1>4 DEF MainCrash, MainPublish, ProcessEnds, Publish, PluginInv, Alone
<1>6. Failed \in AnswerValue /\ Failed.state = "failed"
  BY Zenon DEF Failed, Quiet, AnswerValue
<1>7. answer' \in [Processes -> AnswerValue]
  BY Zenon, <1>1, <1>5, <1>6
<1>8. LeaseTypeOK'
  BY Zenon, <1>1, <1>3, <1>7 DEF PluginInv, LeaseTypeOK
<1>9. \A r \in Requests' : r \in Requests \/ r = NoRequest
  BY Zenon, <1>1, <1>3 DEF Requests
<1>10. LastExpected /\ (service.request.expected => answer[Plugin].state = "waiting" /\ port = <<>>)
  BY Zenon, <1>4 DEF PluginInv, LastExpected
<1>11. LastExpected' /\ (answer'[Plugin].state = "idle" \/ ~AtRest)
  <2>1. CASE answer' = answer
    BY Zenon, <1>1, <1>3, <1>4, <1>9, <2>1 DEF PluginInv, LastExpected, UnderLock
  <2>2. CASE answer' # answer
    <3>1. answer'[Plugin].state = "failed" /\ port = <<>> /\ answer[Plugin].state = "waiting"
      BY Zenon, <1>1, <1>5, <1>6, <1>10, <2>2
    <3>2. \A r \in Requests' : ~r.expected
      BY <1>1, <1>3, <1>4, <3>1 DEF Requests
    <3> QED BY Zenon, <1>1, <1>3, <1>4, <1>10, <3>1, <3>2 DEF PluginInv, LastExpected, UnderLock
  <2> QED BY Zenon, <2>1, <2>2
<1>12. Applied'
  BY Zenon, <1>3 DEF Applied, Working
<1>13. \A h \in Trio : \A active : LeaseIs(h, active)'
  BY Zenon, <1>1, <1>3 DEF LeaseIs
<1>14. Answered'
  BY Zenon, <1>13 DEF Answered, Trio
<1>15. Inactive' /\ \A l \in service'.leases : l.process = Plugin
  BY Zenon, <1>3 DEF Inactive
<1> QED
  BY Zenon, <1>1, <1>3, <1>8, <1>9, <1>11, <1>12, <1>13, <1>14, <1>15, ServiceMovesInv

\* The plug-in stops waiting: the request stays, for nobody.
LEMMA PluginTimesOutInv ==
  ASSUME PluginInv, UNCHANGED <<hal, call>>, ExchangeTimesOut(Plugin)
  PROVE  PluginInv'
<1>1. /\ UNCHANGED <<alive, client>> /\ Plugin \in Processes /\ answer \in [Processes -> AnswerValue]
      /\ answer' = [answer EXCEPT ![Plugin] = Failed] /\ answer[Plugin].state = "waiting"
      /\ service \in ServiceValue /\ service.request \in RequestValue /\ port \in Seq(RequestValue)
      /\ AbandonAll(Plugin)
  BY Zenon, HalAssumption DEF ExchangeTimesOut, PluginInv, LeaseTypeOK, ServiceValue
<1>2. Failed \in AnswerValue /\ Failed.state = "failed"
  BY Zenon DEF Failed, Quiet, AnswerValue
<1>3. answer' \in [Processes -> AnswerValue] /\ answer'[Plugin].state = "failed"
  BY Zenon, <1>1, <1>2
<1> DEFINE Same(r, q) == /\ r.kind = q.kind /\ r.from = q.from /\ r.id = q.id
                         /\ r.session = q.session /\ r.value = q.value
<1>4. ASSUME NEW q \in RequestValue, q.expected => q.from = Plugin
      PROVE  /\ Abandon(q, Plugin) \in RequestValue /\ ~Abandon(q, Plugin).expected
             /\ Same(Abandon(q, Plugin), q)
  <2>1. CASE q.from = Plugin
    <3>1. Abandon(q, Plugin) = [q EXCEPT !.expected = FALSE]
      BY Zenon, <2>1 DEF Abandon
    <3> QED BY Zenon, <3>1 DEF RequestValue
  <2>2. CASE q.from # Plugin
    BY Zenon, <1>4, <2>2 DEF Abandon
  <2> QED BY Zenon, <2>1, <2>2
<1>5. \A r \in Requests : r \in RequestValue /\ (r.expected => r.from = Plugin)
  BY Zenon, RequestsTyped DEF PluginInv, Alone
<1>6. /\ Len(port) \in Nat /\ port' = [i \in 1..Len(port) |-> Abandon(port[i], Plugin)]
      /\ \A i \in 1..Len(port) : port[i] \in Requests
      /\ service.request \in Requests
  BY <1>1 DEF AbandonAll, Requests
<1>7. /\ port' \in Seq(RequestValue) /\ Len(port') = Len(port)
      /\ \A i \in 1..Len(port) : port'[i] = Abandon(port[i], Plugin)
  <2>1. \A i \in 1..Len(port) : Abandon(port[i], Plugin) \in RequestValue
    BY Zenon, <1>4, <1>5, <1>6
  <2> QED BY <1>6, <2>1
<1>8. /\ service' \in ServiceValue /\ service'.request = Abandon(service.request, Plugin)
      /\ service'.leases = service.leases /\ service'.up = service.up
      /\ service'.session = service.session /\ service'.at = service.at
  <2>1. Abandon(service.request, Plugin) \in RequestValue
    BY Zenon, <1>4, <1>5, <1>6
  <2>2. service' = [service EXCEPT !.request = Abandon(service.request, Plugin)]
    BY Zenon, <1>1 DEF AbandonAll
  <2> QED BY Zenon, <1>1, <2>1, <2>2 DEF ServiceValue
<1>9. ASSUME NEW r \in Requests' PROVE ~r.expected /\ \E q \in Requests : Same(r, q)
  <2>1. PICK q \in Requests : r = Abandon(q, Plugin)
    BY Zenon, <1>6, <1>7, <1>8 DEF Requests
  <2> QED BY Zenon, <1>4, <1>5, <2>1
<1> HIDE DEF Same
<1>10. Same(service'.request, service.request) /\ ~service'.request.expected
  BY Zenon, <1>4, <1>5, <1>6, <1>8
<1>11. \A i \in 1..Len(port') : ~port'[i].expected
  BY Zenon, <1>4, <1>5, <1>6, <1>7
<1>12. LeaseTypeOK' /\ LastExpected'
  BY Zenon, <1>1, <1>3, <1>7, <1>8, <1>9, <1>10, <1>11 DEF PluginInv, LeaseTypeOK, LastExpected
<1>13. Alone'
  BY Zenon, <1>1, <1>8, <1>9 DEF PluginInv, Alone, Same
<1>14. HalShape' /\ HandleIds' /\ Accounts'
  BY Zenon, <1>1 DEF PluginInv, HalShape, HandleIds, Accounts
<1>15. UnderLock'
  BY Zenon, <1>1 DEF PluginInv, UnderLock, AtRest
<1>16. Unheard'
  BY Zenon, <1>8, <1>9 DEF PluginInv, Unheard, Starting, Inactive, Same
<1>17. Applied'
  BY Zenon, <1>8, <1>10 DEF PluginInv, Applied, Working, Done, Same
<1>18. Answered'
  BY Zenon, <1>3 DEF Answered, Succeeded
<1>19. \A r \in Requests' : Wanted(r)'
  BY Zenon, <1>9 DEF Wanted
<1>20. ASSUME Settled' PROVE LeaseIs("dev", Running)' /\ Undisturbed("dev")'
  <2>1. LeaseIs("dev", Running) /\ Undisturbed("dev")
    BY Zenon, <1>20 DEF PluginInv, Settled
  <2>2. LeaseIs("dev", Running)'
    BY Zenon, <1>1, <1>8, <2>1 DEF LeaseIs, Running
  <2>3. Undisturbed("dev")'
    BY Zenon, <1>1, <1>9, <2>1 DEF Undisturbed, Same
  <2> QED BY Zenon, <2>2, <2>3
<1> QED BY Zenon, <1>12, <1>13, <1>14, <1>15, <1>16, <1>17, <1>18, <1>19, <1>20 DEF PluginInv

-----------------------------------------------------------------------------
(* The plug-in's steps: it sends the next request, or goes to rest         *)

\* exchange_message by the plug-in.
LEMMA PluginSends ==
  ASSUME PluginInv, UNCHANGED <<alive, service, call>>, answer[Plugin].state # "waiting",
         client' \in [Handles -> ClientValue],
         NEW new \in RequestValue, new.from = Plugin, new.expected, Send(new)
  PROVE  /\ LeaseTypeOK' /\ LastExpected' /\ answer'[Plugin].state \in {"waiting", "failed"}
         /\ \A r \in Requests' : r = new \/ (r \in Requests /\ ~r.expected)
<1>1. /\ port \in Seq(RequestValue) /\ answer \in [Processes -> AnswerValue] /\ Plugin \in Processes
      /\ LastExpected /\ \A r \in Requests : ~r.expected
  BY Zenon, HalAssumption DEF PluginInv, LeaseTypeOK, LastExpected
<1>2. Awaiting \in AnswerValue /\ Failed \in AnswerValue /\ Awaiting.state = "waiting"
      /\ Failed.state = "failed"
  BY Zenon DEF Awaiting, Failed, Quiet, AnswerValue
<1>3. \/ port' = Append(port, new) /\ answer' = [answer EXCEPT ![Plugin] = Awaiting]
      \/ port' = port /\ answer' = [answer EXCEPT ![Plugin] = Failed]
  BY Zenon DEF Send
<1>4. answer' \in [Processes -> AnswerValue] /\ answer'[Plugin].state \in {"waiting", "failed"}
  BY Zenon, <1>1, <1>2, <1>3
<1>5. service.request \in Requests
  BY Zenon DEF Requests
<1>6. CASE port' = port /\ answer' = [answer EXCEPT ![Plugin] = Failed]
  <2>1. Requests' = Requests /\ LeaseTypeOK'
    BY Zenon, <1>4, <1>6 DEF Requests, PluginInv, LeaseTypeOK
  <2>2. answer'[Plugin].state = "failed"
    BY Zenon, <1>1, <1>2, <1>6
  <2>3. LastExpected'
    BY Zenon, <1>1, <1>5, <1>6, <2>1, <2>2 DEF LastExpected
  <2> QED BY Zenon, <1>1, <1>4, <2>1, <2>3
<1>7. CASE port' = Append(port, new) /\ answer' = [answer EXCEPT ![Plugin] = Awaiting]
  <2>1. /\ Len(port) \in Nat /\ Len(port') = Len(port) + 1 /\ port'[Len(port) + 1] = new
        /\ \A i \in 1..Len(port) : port'[i] = port[i] /\ port[i] \in Requests
        /\ port' \in Seq(RequestValue)
    BY <1>1, <1>7 DEF Requests
  <2>2. \A i \in 1..Len(port') : i = Len(port') \/ i \in 1..Len(port)
    BY <2>1
  <2>3. \A r \in Requests' : r = new \/ r \in Requests
    BY <2>1, <2>2 DEF Requests
  <2>4. LeaseTypeOK' /\ answer'[Plugin].state = "waiting"
    BY Zenon, <1>1, <1>2, <1>4, <1>7, <2>1 DEF PluginInv, LeaseTypeOK
  <2>5. LastExpected'
    BY Zenon, <1>1, <1>5, <2>1, <2>2, <2>4 DEF LastExpected
  <2> QED BY Zenon, <1>1, <1>4, <2>3, <2>4, <2>5
<1> QED BY Zenon, <1>3, <1>6, <1>7

LEMMA SendingInv ==
  ASSUME PluginInv, UNCHANGED <<alive, service, call>>, answer[Plugin].state # "waiting",
         client' \in [Handles -> ClientValue], HalShape', HandleIds', Accounts', ~AtRest',
         NEW new \in RequestValue, new.from = Plugin, new.expected, Send(new), Wanted(new)',
         hal'.at = "stop" => hal'.clients = 0,
         hal'.at \in {"start", "reprime"} => hal'.clients < MaxRunning /\ hal'.who \in Clients,
         Starting' => Starting /\ hal'.clients = 0 /\ new.kind # "active",
         Settled' => /\ Settled /\ client'["dev"] = client["dev"] /\ (Running' <=> Running)
                     /\ client["dev"].session # 0 /\ new.id = client["dev"].id
                        => new.kind \notin {"active", "release"}
  PROVE  PluginInv'
<1>1. /\ LeaseTypeOK' /\ LastExpected' /\ answer'[Plugin].state \in {"waiting", "failed"}
      /\ \A r \in Requests' : r = new \/ (r \in Requests /\ ~r.expected)
  BY Zenon, PluginSends
<1>2. Alone'
  BY Zenon, <1>1 DEF PluginInv, Alone
<1>3. UnderLock'
  BY Zenon DEF UnderLock
<1>4. Unheard'
  BY Zenon, <1>1 DEF PluginInv, Unheard, Inactive
<1>5. \A r \in Requests' : Wanted(r)'
  BY Zenon, <1>1 DEF Wanted
<1>6. Applied'
  BY Zenon DEF PluginInv, Applied, Working, Done
<1>7. Answered'
  BY Zenon, <1>1 DEF Answered, Succeeded
<1>8. ASSUME Settled' PROVE LeaseIs("dev", Running)' /\ Undisturbed("dev")'
  <2>1. LeaseIs("dev", Running) /\ Undisturbed("dev")
    BY Zenon, <1>8 DEF PluginInv
  <2>2. LeaseIs("dev", Running)'
    BY Zenon, <1>8, <2>1 DEF LeaseIs
  <2>3. Undisturbed("dev")'
    BY Zenon, <1>1, <1>8, <2>1 DEF Undisturbed
  <2> QED BY Zenon, <2>2, <2>3
<1> QED BY Zenon, <1>1, <1>2, <1>3, <1>4, <1>5, <1>6, <1>7, <1>8 DEF PluginInv

\* stream_lock is released, or kept through the monitor's wait for the readers.
LEMMA RestingInv ==
  ASSUME PluginInv, UNCHANGED <<alive, service, call, port>>, answer[Plugin].state # "waiting",
         Forget(Plugin) \/ (answer' = answer /\ AtRest),
         client' \in [Handles -> ClientValue], HalShape', HandleIds', Accounts', AtRest', ~Starting',
         Settled' => \/ /\ Settled /\ client'["dev"] = client["dev"]
                        /\ client["dev"].session # 0 => (Running' <=> Running)
                     \/ Succeeded(Plugin) /\ LeaseIs("dev", Running)'
                     \/ client'["dev"].session = 0
  PROVE  PluginInv'
<1>1. /\ answer \in [Processes -> AnswerValue] /\ Plugin \in Processes /\ Requests' = Requests
      /\ LastExpected /\ \A r \in Requests : ~r.expected
  BY Zenon, HalAssumption DEF PluginInv, LeaseTypeOK, LastExpected, Requests
<1>2. Quiet \in AnswerValue /\ Quiet.state = "idle"
  BY Zenon DEF Quiet, AnswerValue
<1>3. answer' \in [Processes -> AnswerValue] /\ answer'[Plugin].state = "idle"
  BY Zenon, <1>1, <1>2 DEF Forget, PluginInv, UnderLock
<1>4. LeaseTypeOK'
  BY Zenon, <1>3 DEF PluginInv, LeaseTypeOK
<1>5. service.request \in Requests
  BY Zenon DEF Requests
<1>6. LastExpected'
  BY Zenon, <1>1, <1>3, <1>5 DEF LastExpected
<1>7. Alone' /\ Applied'
  BY Zenon, <1>1 DEF PluginInv, Alone, Applied, Working, Done
<1>8. UnderLock'
  BY Zenon, <1>3 DEF UnderLock, AtRest
<1>9. Unheard' /\ Answered' /\ \A r \in Requests' : Wanted(r)'
  BY Zenon, <1>1, <1>3 DEF Unheard, Answered, Succeeded, Wanted
<1>10. ASSUME Settled' PROVE LeaseIs("dev", Running)' /\ Undisturbed("dev")'
  <2>1. CASE /\ Settled /\ client'["dev"] = client["dev"]
             /\ client["dev"].session # 0 => (Running' <=> Running)
    <3>1. LeaseIs("dev", Running) /\ Undisturbed("dev") /\ (service.up => service.session # 0)
      BY Zenon, <2>1 DEF PluginInv, Alone
    <3>2. LeaseIs("dev", Running)'
      BY Zenon, <2>1, <3>1 DEF LeaseIs
    <3> QED BY Zenon, <1>1, <2>1, <3>1, <3>2 DEF Undisturbed
  <2>2. CASE Succeeded(Plugin) /\ LeaseIs("dev", Running)'
    <3>1. port = <<>> /\ service.request = NoRequest
      BY Zenon, <1>1, <2>2 DEF LastExpected, Succeeded
    <3>2. \A r \in Requests' : r.kind = "none"
      BY <1>1, <3>1 DEF Requests, NoRequest
    <3> QED BY Zenon, <2>2, <3>2 DEF Undisturbed
  <2>3. CASE client'["dev"].session = 0
    BY Zenon, <2>3 DEF PluginInv, Alone, LeaseIs, Undisturbed
  <2> QED BY Zenon, <1>10, <2>1, <2>2, <2>3
<1> QED BY Zenon, <1>4, <1>6, <1>7, <1>8, <1>9, <1>10 DEF PluginInv

\* A turn of the plug-in that counts nobody in or out.
Turned(at) ==
  /\ HalShape' /\ hal'.at = at /\ hal'.clients = hal.clients /\ hal'.running = hal.running
  /\ hal'.starts = hal.starts /\ hal'.tracked = hal.tracked

LEMMA ThenTurns ==
  ASSUME PluginInv, NEW at, Then(at)
  PROVE  Turned(at) /\ hal'.ready = hal.ready /\ hal'.missed = hal.missed /\ hal'.who = hal.who
BY Zenon DEF PluginInv, HalShape, Then, Turned

LEMMA TurnedBooks ==
  ASSUME PluginInv, NEW at, Turned(at)
  PROVE  HalShape' /\ hal'.at = at /\ Accounts' /\ (Running' <=> Running)
BY Zenon DEF PluginInv, Accounts, Running, Turned

LEMMA HandlesKept ==
  ASSUME PluginInv, client' = client, hal'.at \notin {"initHello", "hello"}
  PROVE  HandleIds' /\ client' \in [Handles -> ClientValue]
BY Zenon DEF PluginInv, HandleIds, LeaseTypeOK

Kinds == {"hello", "state", "active", "buffer", "release"}

Asks(r, kind, id, session, value) ==
  /\ r \in RequestValue /\ r.kind = kind /\ r.from = Plugin /\ r.id = id
  /\ r.session = session /\ r.value = value /\ r.expected

LEMMA RequestIs ==
  ASSUME NEW kind \in Kinds, NEW id \in Nat, NEW session \in Nat, NEW value \in Nat \union Buffers
  PROVE  Asks(Request(kind, Plugin, id, session, value), kind, id, session, value)
<1>1. Plugin \in Pids
  BY Zenon, HalAssumption DEF Pids
<1> QED BY Zenon, <1>1 DEF Asks, Request, RequestValue, Kinds

LEMMA ControlIs ==
  ASSUME PluginInv, NEW kind \in Kinds, NEW h \in Trio, NEW value \in Nat \union Buffers,
         SendControl(kind, h, value)
  PROVE  \E r : Send(r) /\ Asks(r, kind, client[h].id, client[h].session, value)
<1>1. Owner[h] = Plugin /\ h \in Handles
  BY Zenon, HalAssumption DEF Trio
<1>2. client[h].id \in Nat /\ client[h].session \in Nat
  BY Zenon, <1>1 DEF PluginInv, LeaseTypeOK, ClientValue
<1>3. PICK id \in Nat, session \in Nat : id = client[h].id /\ session = client[h].session
  BY Zenon, <1>2
<1>4. Asks(Request(kind, Plugin, id, session, value), kind, id, session, value)
  BY Zenon, RequestIs
<1>5. Send(Request(kind, Plugin, id, session, value))
  BY Zenon, <1>1, <1>3 DEF SendControl
<1> QED BY Zenon, <1>3, <1>4, <1>5

\* A control request over a handle: only a place that tells dev its activity, and
\* the disconnect of dev, disturb its lease.
LEMMA ControlSentInv ==
  ASSUME PluginInv, UNCHANGED <<alive, service, call, client>>, answer[Plugin].state # "waiting",
         NEW kind \in Kinds, NEW h \in Trio, NEW value \in Nat \union Buffers,
         SendControl(kind, h, value), HalShape', Accounts', ~AtRest', ~Starting', hal'.at # "hello",
         \A g \in Trio, active \in BOOLEAN :
           Telling(g, active)' => kind = "active" /\ g = h /\ (value # 0 <=> active),
         hal'.at = "stop" => hal'.clients = 0,
         hal'.at \in {"start", "reprime"} => hal'.clients < MaxRunning /\ hal'.who \in Clients,
         Settled' => /\ Settled /\ (Running' <=> Running)
                     /\ kind \in {"active", "release"} => h # "dev"
  PROVE  PluginInv'
<1>1. PICK new : Send(new) /\ Asks(new, kind, client[h].id, client[h].session, value)
  BY Zenon, ControlIs
<1>2. /\ new \in RequestValue /\ new.kind = kind /\ new.from = Plugin /\ new.id = client[h].id
      /\ new.session = client[h].session /\ new.value = value /\ new.expected
  BY Zenon, <1>1 DEF Asks
<1>3. HandleIds' /\ client' \in [Handles -> ClientValue]
  BY Zenon, HandlesKept DEF Starting
<1>4. Wanted(new)'
  BY Zenon, <1>2 DEF Wanted, Names, Starting
<1>5. ASSUME Settled', client["dev"].session # 0, new.id = client["dev"].id
      PROVE  new.kind \notin {"active", "release"}
  BY Zenon, <1>2, <1>5 DEF PluginInv, HandleIds, Trio
<1> QED BY Zenon, <1>1, <1>2, <1>3, <1>4, <1>5, SendingInv

\* hello over a new id: dev at the start, new afterwards.
LEMMA HelloSentInv ==
  ASSUME PluginInv, UNCHANGED <<alive, service, call>>, answer[Plugin].state # "waiting",
         NEW h \in Trio, NEW at, SendHello(h), Then(at),
         \/ h = "dev" /\ at = "initHello" /\ Starting
         \/ h = "new" /\ at = "hello" /\ (Settled' => Settled)
  PROVE  PluginInv'
<1>1. /\ Turned(at) /\ hal'.ready = hal.ready /\ hal'.missed = hal.missed
      /\ HalShape' /\ hal'.at = at /\ Accounts' /\ (Running' <=> Running)
  BY Zenon, ThenTurns, TurnedBooks
<1>2. h \in Handles /\ Owner[h] = Plugin /\ Trio \subseteq Handles
  BY Zenon, HalAssumption DEF Trio
<1>3. PICK id \in FreshIds : /\ Send(Request("hello", Plugin, id, 0, 0))
                             /\ client' = [client EXCEPT ![h] = [id |-> id, session |-> 0]]
  BY Zenon, <1>2 DEF SendHello
<1>4. id \in Nat /\ id # 0 /\ \A g \in Handles : client[g].id # id
  BY Zenon, <1>3, ServiceAssumption DEF FreshIds
<1>5. client \in [Handles -> ClientValue] /\ [id |-> id, session |-> 0] \in ClientValue
  BY Zenon, <1>4 DEF PluginInv, LeaseTypeOK, ClientValue
<1>6. client' \in [Handles -> ClientValue]
  BY Zenon, <1>3, <1>5
<1>7. client'[h].id = id /\ client'[h].session = 0 /\ \A g \in Handles \ {h} : client'[g] = client[g]
  BY Zenon, <1>2, <1>3, <1>5
<1>8. HandleIds'
  <2>1. \A g \in Trio : client'[g].session # 0 => client'[g].id # 0
    BY Zenon, <1>2, <1>7 DEF PluginInv, HandleIds
  <2>2. ASSUME NEW g \in Trio, NEW k \in Trio, client'[g].id = client'[k].id, client'[g].id # 0
        PROVE  g = k
    <3>1. g \in Handles /\ k \in Handles
      BY Zenon, <1>2
    <3>2. CASE g = h \/ k = h
      BY Zenon, <1>4, <1>7, <2>2, <3>1, <3>2
    <3>3. CASE g # h /\ k # h
      BY Zenon, <1>7, <2>2, <3>1, <3>3 DEF PluginInv, HandleIds
    <3> QED BY Zenon, <3>2, <3>3
  <2> QED BY Zenon, <1>1, <1>4, <1>7, <2>1, <2>2 DEF HandleIds
<1>9. PICK new : new = Request("hello", Plugin, id, 0, 0)
  BY Zenon
<1>10. new \in RequestValue /\ new.kind = "hello" /\ new.from = Plugin /\ new.expected
  <2>1. "hello" \in Kinds /\ 0 \in Nat /\ 0 \in Nat \union Buffers
    BY Zenon DEF Kinds
  <2>2. Asks(Request("hello", Plugin, id, 0, 0), "hello", id, 0, 0)
    BY Zenon, <1>4, <2>1, RequestIs
  <2> QED BY Zenon, <1>9, <2>2 DEF Asks
<1>11. ~AtRest' /\ hal'.at \notin {"stop", "start", "reprime"}
  BY Zenon, <1>1 DEF AtRest
<1>12. Wanted(new)'
  BY Zenon, <1>1 DEF Wanted, Telling
<1>13. Starting' => Starting /\ hal'.clients = 0
  BY Zenon, <1>1 DEF PluginInv, Unheard, Starting, Turned
<1>14. Settled' => Settled /\ client'["dev"] = client["dev"]
  BY Zenon, <1>1, <1>2, <1>7 DEF Settled, Trio
<1> QED BY Zenon, <1>1, <1>3, <1>6, <1>8, <1>9, <1>10, <1>11, <1>12, <1>13, <1>14, SendingInv

\* At rest with the handles it had.
LEMMA RestedInv ==
  ASSUME PluginInv, UNCHANGED <<alive, service, call, port, client>>,
         (Returned(Plugin) /\ Forget(Plugin)) \/ (AtRest /\ answer' = answer),
         NEW at \in {"free", "replaced", "publish", "retire"}, Turned(at),
         Settled' => Settled \/ (Succeeded(Plugin) /\ LeaseIs("dev", Running))
  PROVE  PluginInv'
<1>1. HalShape' /\ hal'.at = at /\ Accounts' /\ (Running' <=> Running)
  BY Zenon, TurnedBooks
<1>2. HandleIds' /\ client' \in [Handles -> ClientValue] /\ AtRest' /\ ~Starting'
  BY Zenon, <1>1, HandlesKept DEF AtRest, Starting
<1>3. answer[Plugin].state # "waiting" /\ (Forget(Plugin) \/ (answer' = answer /\ AtRest))
  BY Zenon DEF Returned, PluginInv, UnderLock
<1>4. LeaseIs("dev", Running) => LeaseIs("dev", Running)'
  BY Zenon, <1>1 DEF LeaseIs
<1> QED BY Zenon, <1>1, <1>2, <1>3, <1>4, RestingInv

\* A handle that is disconnected.
LEMMA HandleClosed ==
  ASSUME PluginInv, NEW h \in Trio, client' = [client EXCEPT ![h] = NoClient],
         hal'.at \notin {"initHello", "hello"}
  PROVE  /\ HandleIds' /\ client' \in [Handles -> ClientValue]
         /\ client'[h].session = 0 /\ \A g \in Trio \ {h} : client'[g] = client[g]
<1>1. Trio \subseteq Handles /\ NoClient \in ClientValue /\ NoClient.id = 0 /\ NoClient.session = 0
      /\ client \in [Handles -> ClientValue]
  BY Zenon, HalAssumption DEF Trio, NoClient, ClientValue, PluginInv, LeaseTypeOK
<1>2. /\ client' \in [Handles -> ClientValue] /\ client'[h] = NoClient
      /\ \A g \in Trio \ {h} : client'[g] = client[g]
  BY Zenon, <1>1
<1>3. \A g \in Trio : client'[g].session # 0 => client'[g].id # 0
  BY Zenon, <1>1, <1>2 DEF PluginInv, HandleIds
<1>4. ASSUME NEW g \in Trio, NEW k \in Trio, client'[g].id = client'[k].id, client'[g].id # 0
      PROVE  g = k
  <2>1. g # h /\ k # h
    BY Zenon, <1>1, <1>2, <1>4
  <2> QED BY Zenon, <1>2, <1>4, <2>1 DEF PluginInv, HandleIds
<1> QED BY Zenon, <1>1, <1>2, <1>3, <1>4 DEF HandleIds

LEMMA ClosedInv ==
  ASSUME PluginInv, UNCHANGED <<alive, service, call, port>>, Returned(Plugin), Forget(Plugin),
         NEW h \in Trio, client' = [client EXCEPT ![h] = NoClient],
         NEW at \in {"free", "retire"}, Turned(at),
         h # "dev" => (Settled' => Settled)
  PROVE  PluginInv'
<1>1. HalShape' /\ hal'.at = at /\ Accounts' /\ (Running' <=> Running)
  BY Zenon, TurnedBooks
<1>2. /\ HandleIds' /\ client' \in [Handles -> ClientValue] /\ AtRest' /\ ~Starting'
      /\ client'[h].session = 0 /\ \A g \in Trio \ {h} : client'[g] = client[g]
  BY Zenon, <1>1, HandleClosed DEF AtRest, Starting
<1>3. answer[Plugin].state # "waiting" /\ "dev" \in Trio
  BY Zenon DEF Returned, Trio
<1> QED BY Zenon, <1>1, <1>2, <1>3, RestingInv

\* A hello that was answered: the session of the answer, under the id that was sent.
LEMMA HandleOpened ==
  ASSUME PluginInv, NEW h \in Trio, client[h].id # 0, Succeeded(Plugin), client' = HelloReturned(h),
         hal'.at \notin {"initHello", "hello"}
  PROVE  /\ HandleIds' /\ client' \in [Handles -> ClientValue] /\ answer[Plugin].session \in Nat
         /\ client'[h].id = client[h].id /\ client'[h].session = answer[Plugin].session
         /\ \A g \in Trio \ {h} : client'[g] = client[g]
<1>1. /\ Trio \subseteq Handles /\ Owner[h] = Plugin /\ Plugin \in Processes
      /\ client \in [Handles -> ClientValue] /\ answer[Plugin].session \in Nat
  BY Zenon, HalAssumption DEF Trio, PluginInv, LeaseTypeOK, AnswerValue
<1>2. client' = [client EXCEPT ![h] = [client[h] EXCEPT !.session = answer[Plugin].session]]
  BY Zenon, <1>1 DEF HelloReturned
<1>3. /\ [client[h] EXCEPT !.session = answer[Plugin].session] \in ClientValue
      /\ [client[h] EXCEPT !.session = answer[Plugin].session].id = client[h].id
      /\ [client[h] EXCEPT !.session = answer[Plugin].session].session = answer[Plugin].session
  BY Zenon, <1>1 DEF ClientValue
<1>4. /\ client' \in [Handles -> ClientValue]
      /\ client'[h] = [client[h] EXCEPT !.session = answer[Plugin].session]
      /\ \A g \in Trio \ {h} : client'[g] = client[g]
  BY Zenon, <1>1, <1>2, <1>3
<1>5. client'[h].id = client[h].id /\ client'[h].session = answer[Plugin].session
  BY Zenon, <1>3, <1>4
<1>6. \A g \in Trio : client'[g].id = client[g].id
  BY Zenon, <1>4, <1>5
<1>7. \A g \in Trio : client'[g].session # 0 => client'[g].id # 0
  BY Zenon, <1>4, <1>5 DEF PluginInv, HandleIds
<1>8. \A g, k \in Trio : client'[g].id = client'[k].id /\ client'[g].id # 0 => g = k
  BY Zenon, <1>6 DEF PluginInv, HandleIds
<1>9. HandleIds'
  BY Zenon, <1>7, <1>8 DEF HandleIds
<1> QED BY Zenon, <1>1, <1>4, <1>5, <1>9

\* The buffer size is sent over the handle that was opened.
LEMMA OpenedInv ==
  ASSUME PluginInv, UNCHANGED <<alive, service, call>>, Succeeded(Plugin),
         NEW h \in Trio, NEW at, client' = HelloReturned(h), Then(at),
         Send(Request("buffer", Plugin, client[h].id, answer[Plugin].session, hal.buffer)),
         \/ h = "dev" /\ hal.at = "initHello" /\ at = "initBuffer"
         \/ h = "new" /\ hal.at = "hello" /\ at = "newBuffer"
  PROVE  PluginInv'
<1>1. /\ Turned(at) /\ hal'.ready = hal.ready /\ hal'.missed = hal.missed
      /\ HalShape' /\ hal'.at = at /\ Accounts' /\ (Running' <=> Running)
  BY Zenon, ThenTurns, TurnedBooks
<1>2. client[h].id # 0 /\ client[h].id \in Nat /\ hal.buffer \in Buffers
  BY Zenon, HalAssumption DEF PluginInv, HandleIds, LeaseTypeOK, ClientValue, Trio, HalShape
<1>3. /\ HandleIds' /\ client' \in [Handles -> ClientValue] /\ answer[Plugin].session \in Nat
      /\ client'[h].id = client[h].id /\ client'[h].session = answer[Plugin].session
      /\ \A g \in Trio \ {h} : client'[g] = client[g]
  BY Zenon, <1>1, <1>2, HandleOpened
<1>4. PICK id \in Nat, session \in Nat, value \in Nat \union Buffers :
        id = client[h].id /\ session = answer[Plugin].session /\ value = hal.buffer
  BY Zenon, <1>2, <1>3
<1>5. PICK new : new = Request("buffer", Plugin, id, session, value)
  BY Zenon
<1>6. Asks(new, "buffer", id, session, value) /\ Send(new)
  BY Zenon, <1>4, <1>5, RequestIs DEF Kinds
<1>7. /\ new \in RequestValue /\ new.from = Plugin /\ new.expected /\ new.kind = "buffer"
      /\ new.id = client'[h].id /\ new.session = client'[h].session
  BY Zenon, <1>3, <1>4, <1>6 DEF Asks
<1>8. Wanted(new)'
  BY Zenon, <1>1, <1>7 DEF Wanted, Telling, Names
<1>9. ~AtRest' /\ hal'.at \notin {"stop", "start", "reprime"} /\ answer[Plugin].state # "waiting"
  BY Zenon, <1>1 DEF AtRest, Succeeded
<1>10. Starting' => Starting /\ hal'.clients = 0
  BY Zenon, <1>1 DEF PluginInv, Unheard, Starting, Turned
<1>11. Settled' => Settled /\ client'["dev"] = client["dev"]
  BY Zenon, <1>1, <1>3 DEF Settled, Trio
<1> QED BY Zenon, <1>1, <1>3, <1>6, <1>7, <1>8, <1>9, <1>10, <1>11, SendingInv

\* A request that does not tell a handle its activity.
LEMMA AskedInv ==
  ASSUME PluginInv, UNCHANGED <<alive, service, call, client>>, Returned(Plugin) \/ AtRest,
         NEW kind \in Kinds, NEW h \in Trio, NEW value \in Nat \union Buffers,
         SendControl(kind, h, value),
         NEW at \in {"state", "dropDev", "dropNew", "dropOld", "setBuffer"}, Turned(at),
         Settled' => Settled /\ (kind \in {"active", "release"} => h # "dev")
  PROVE  PluginInv'
<1>1. HalShape' /\ hal'.at = at /\ Accounts' /\ (Running' <=> Running)
  BY Zenon, TurnedBooks
<1>2. answer[Plugin].state # "waiting"
  BY Zenon DEF Returned, PluginInv, UnderLock
<1>3. /\ ~AtRest' /\ ~Starting' /\ hal'.at \notin {"hello", "stop", "start", "reprime"}
      /\ \A g, active : ~Telling(g, active)'
  BY Zenon, <1>1 DEF AtRest, Starting, Telling
<1> QED BY Zenon, <1>1, <1>2, <1>3, ControlSentInv

LEMMA Values == {0, 1} \subseteq Nat \union Buffers /\ 1 # 0 /\ 0 \in Nat
OBVIOUS

LEMMA Trios == "dev" \in Trio /\ "new" \in Trio /\ "old" \in Trio
BY Zenon DEF Trio

\* initialize
LEMMA InitializeInv ==
  ASSUME PluginInv, UNCHANGED call, Initialize \/ InitializeHello \/ InitializeBuffer
  PROVE  PluginInv'
<1>1. UNCHANGED <<alive, service>> /\ Owner["dev"] = Plugin
  BY Zenon, HalAssumption DEF Initialize, InitializeHello, InitializeBuffer, Unchanged
<1>2. CASE Initialize
  <2>1. answer[Plugin].state # "waiting" /\ Starting
    BY Zenon, <1>2 DEF Initialize, PluginInv, UnderLock, AtRest, Starting
  <2> QED BY Zenon, <1>1, <1>2, <2>1, HelloSentInv, Trios DEF Initialize
<1>3. CASE InitializeHello
  <2>1. CASE Ok
    BY Zenon, <1>1, <1>3, <2>1, OpenedInv, Trios DEF InitializeHello, AnswerAt, Ok
  <2>2. CASE ~Ok
    <3>1. client' = [client EXCEPT !["dev"] = NoClient]
      BY Zenon, <1>1, <1>3, <2>2 DEF InitializeHello, HelloReturned, Ok
    <3>2. Turned("free") /\ Forget(Plugin) /\ UNCHANGED port /\ Returned(Plugin)
      BY Zenon, <1>3, <2>2, ThenTurns DEF InitializeHello, AnswerAt
    <3> QED BY Zenon, <1>1, <3>1, <3>2, ClosedInv, Trios
  <2> QED BY Zenon, <2>1, <2>2
<1>4. CASE InitializeBuffer
  <2>1. CASE Ok
    <3>1. /\ UNCHANGED <<client, port>> /\ Forget(Plugin) /\ Returned(Plugin) /\ hal.at = "initBuffer"
          /\ hal' = [hal EXCEPT !.at = "free", !.ready = TRUE]
      BY Zenon, <1>4, <2>1 DEF InitializeBuffer, AnswerAt
    <3>2. Turned("free")
      BY Zenon, <3>1 DEF PluginInv, HalShape, Turned
    <3>3. hal.clients = 0 /\ LeaseIs("dev", FALSE) /\ Succeeded(Plugin)
      BY Zenon, <2>1, <3>1 DEF PluginInv, Unheard, Starting, Answered, Ok
    <3>4. ~Running
      BY <3>3 DEF Running
    <3>5. LeaseIs("dev", Running)
      BY Zenon, <3>3, <3>4 DEF LeaseIs
    <3> QED BY Zenon, <1>1, <3>1, <3>2, <3>3, <3>5, RestedInv
  <2>2. CASE ~Ok
    <3>1. UNCHANGED client /\ SendControl("release", "dev", 0) /\ Turned("dropDev") /\ Returned(Plugin)
      BY Zenon, <1>4, <2>2, ThenTurns DEF InitializeBuffer, AnswerAt
    <3>2. ~Settled'
      BY Zenon, <3>1 DEF Settled, Turned
    <3>3. "release" \in Kinds
      BY Zenon DEF Kinds
    <3> QED BY Zenon, <1>1, <3>1, <3>2, <3>3, AskedInv, Trios, Values
  <2> QED BY Zenon, <2>1, <2>2
<1> QED BY Zenon, <1>2, <1>3, <1>4

\* The monitor's poll and what it learns: another session, no answer, the end of a wait.
LEMMA MonitorPollInv ==
  ASSUME PluginInv, UNCHANGED call,
         MonitorPoll \/ MonitorReplaced \/ MonitorSuperseded \/ MonitorUnavailable
  PROVE  PluginInv'
<1>1. UNCHANGED <<alive, service>> /\ "state" \in Kinds
  BY Zenon DEF MonitorPoll, MonitorReplaced, MonitorSuperseded, MonitorUnavailable, Unchanged, Kinds
<1>2. ASSUME hal.at \in {"free", "state"}, Returned(Plugin) \/ AtRest, SendHello("new"), Then("hello")
      PROVE  PluginInv'
  <2>1. answer[Plugin].state # "waiting"
    BY Zenon, <1>2 DEF Returned, PluginInv, UnderLock
  <2>2. hal'.at = "hello" /\ hal'.ready = hal.ready /\ hal'.missed = hal.missed
    BY Zenon, <1>2, ThenTurns DEF Turned
  <2>3. Settled' => Settled
    BY Zenon, <1>2, <2>2 DEF Settled
  <2> QED BY Zenon, <1>1, <1>2, <2>1, <2>3, HelloSentInv, Trios
<1>3. CASE MonitorPoll
  <2>1. hal.at = "free" /\ AtRest
    BY Zenon, <1>3 DEF MonitorPoll, AtRest
  <2>2. CASE Connected("dev")
    <3>1. SendControl("state", "dev", 0) /\ Then("state") /\ UNCHANGED client
      BY Zenon, <1>3, <2>2 DEF MonitorPoll
    <3>2. Turned("state") /\ hal'.ready = hal.ready /\ hal'.missed = hal.missed
      BY Zenon, <3>1, ThenTurns
    <3>3. Settled' => Settled
      BY Zenon, <2>1, <3>2 DEF Settled, Turned
    <3> QED BY Zenon, <1>1, <2>1, <3>1, <3>2, <3>3, AskedInv, Trios, Values
  <2>3. CASE ~Connected("dev")
    BY Zenon, <1>2, <1>3, <2>1, <2>3 DEF MonitorPoll
  <2> QED BY Zenon, <2>2, <2>3
<1>4. CASE MonitorReplaced
  <2>1. /\ hal.at = "state" /\ Returned(Plugin) /\ Forget(Plugin) /\ UNCHANGED <<port, client>>
        /\ Then("replaced")
    BY Zenon, <1>4 DEF MonitorReplaced, AnswerAt, Stay
  <2>2. Turned("replaced") /\ hal'.ready = hal.ready /\ hal'.missed = hal.missed
    BY Zenon, <2>1, ThenTurns
  <2>3. Settled' => Settled
    BY Zenon, <2>1, <2>2 DEF Settled, Turned
  <2> QED BY Zenon, <1>1, <2>1, <2>2, <2>3, RestedInv
<1>5. CASE MonitorSuperseded
  <2>1. /\ UNCHANGED <<port, client, answer>> /\ hal.at = "replaced"
        /\ hal' = [hal EXCEPT !.at = "free", !.ready = FALSE]
    BY Zenon, <1>5 DEF MonitorSuperseded
  <2>2. Turned("free") /\ ~hal'.ready
    BY Zenon, <2>1 DEF PluginInv, HalShape, Turned
  <2>3. ~Settled' /\ AtRest
    BY Zenon, <2>1, <2>2 DEF Settled, Turned, AtRest
  <2> QED BY Zenon, <1>1, <2>1, <2>2, <2>3, RestedInv
<1>6. CASE MonitorUnavailable
  BY Zenon, <1>2, <1>6 DEF MonitorUnavailable, AnswerAt
<1> QED BY Zenon, <1>3, <1>4, <1>5, <1>6

\* The state is good: the lease of a plug-in that was not ready is told again.
LEMMA MonitorReadyInv ==
  ASSUME PluginInv, UNCHANGED call, MonitorReady \/ MonitorReattached
  PROVE  PluginInv'
<1>1. UNCHANGED <<alive, service>> /\ UNCHANGED client /\ Returned(Plugin)
  BY Zenon DEF MonitorReady, MonitorReattached, Unchanged, Stay, AnswerAt
<1>2. CASE MonitorReady
  <2>1. CASE hal.ready
    <3>1. /\ Stay /\ hal.at = "state" /\ hal' = [hal EXCEPT !.at = "free"]
      BY Zenon, <1>2, <2>1 DEF MonitorReady, AnswerAt
    <3>2. Turned("free") /\ hal'.ready = hal.ready /\ hal'.missed = hal.missed
      BY Zenon, <3>1 DEF PluginInv, HalShape, Turned
    <3>3. Settled' => Settled
      BY Zenon, <3>1, <3>2 DEF Settled, Turned
    <3> QED BY Zenon, <1>1, <3>1, <3>2, <3>3, RestedInv DEF Stay
  <2>2. CASE ~hal.ready
    <3>1. /\ SendControl("active", "dev", Active)
          /\ hal' = [hal EXCEPT !.at = "reattach"]
      BY Zenon, <1>2, <2>2 DEF MonitorReady
    <3>2. Turned("reattach")
      BY Zenon, <3>1 DEF PluginInv, HalShape, Turned
    <3>3. HalShape' /\ hal'.at = "reattach" /\ Accounts' /\ (Running' <=> Running)
      BY Zenon, <3>2, TurnedBooks
    <3>4. PICK value \in Nat \union Buffers : value = Active /\ (value # 0 <=> Running)
      BY Zenon, Values DEF Active, Running
    <3>5. ~AtRest' /\ ~Starting' /\ ~Settled' /\ hal'.at \notin {"hello", "stop", "start", "reprime"}
      BY Zenon, <3>3 DEF AtRest, Starting, Settled
    <3>6. \A g \in Trio, active \in BOOLEAN : Telling(g, active)' => g = "dev" /\ (value # 0 <=> active)
      BY Zenon, <3>3, <3>4 DEF Telling
    <3>7. answer[Plugin].state # "waiting" /\ "active" \in Kinds
      BY Zenon, <1>1 DEF Returned, Kinds
    <3>8. SendControl("active", "dev", value)
      BY Zenon, <3>1, <3>4
    <3>9. UNCHANGED <<alive, service, call, client>> /\ "dev" \in Trio
      BY Zenon, <1>1, Trios
    <3> QED BY ZenonT(60), <3>9, <3>3, <3>5, <3>6, <3>7, <3>8, ControlSentInv
  <2> QED BY Zenon, <2>1, <2>2
<1>3. CASE MonitorReattached
  <2>1. Stay /\ hal.at = "reattach"
    BY Zenon, <1>3 DEF MonitorReattached, AnswerAt
  <2>2. CASE Ok
    <3>1. hal' = [hal EXCEPT !.at = "publish", !.missed = FALSE] /\ Succeeded(Plugin)
      BY Zenon, <1>3, <2>2 DEF MonitorReattached, Ok
    <3>2. Turned("publish")
      BY Zenon, <3>1 DEF PluginInv, HalShape, Turned
    <3>3. \A active \in BOOLEAN : (active <=> Running) => LeaseIs("dev", active)
      BY Zenon, <2>1, <3>1, Trios DEF PluginInv, Answered, Telling
    <3>4. LeaseIs("dev", Running)
      BY Zenon, <3>3 DEF LeaseIs
    <3> QED BY Zenon, <1>1, <2>1, <3>1, <3>2, <3>4, RestedInv DEF Stay
  <2>3. CASE ~Ok
    <3>1. hal' = [hal EXCEPT !.at = "free", !.missed = TRUE]
      BY Zenon, <1>3, <2>3 DEF MonitorReattached
    <3>2. Turned("free") /\ hal'.missed
      BY Zenon, <3>1 DEF PluginInv, HalShape, Turned
    <3>3. ~Settled'
      BY Zenon, <3>2 DEF Settled, Turned
    <3> QED BY Zenon, <1>1, <2>1, <3>2, <3>3, RestedInv DEF Stay
  <2> QED BY Zenon, <2>2, <2>3
<1> QED BY Zenon, <1>2, <1>3

\* The replacement of the handle: opened, given the buffer size, told the activity.
LEMMA MonitorReplacesInv ==
  ASSUME PluginInv, UNCHANGED call, MonitorHello \/ MonitorNewBuffer \/ MonitorNewActive
  PROVE  PluginInv'
<1>1. UNCHANGED <<alive, service>> /\ Returned(Plugin) /\ Owner["new"] = Plugin
  BY Zenon, HalAssumption DEF MonitorHello, MonitorNewBuffer, MonitorNewActive, Unchanged, AnswerAt
<1>2. answer[Plugin].state # "waiting" /\ "active" \in Kinds /\ "release" \in Kinds
  BY Zenon, <1>1 DEF Returned, Kinds
<1>3. CASE MonitorHello
  <2>1. CASE Ok
    BY Zenon, <1>1, <1>3, <2>1, OpenedInv, Trios DEF MonitorHello, AnswerAt, Ok
  <2>2. CASE ~Ok
    <3>1. client' = [client EXCEPT !["new"] = NoClient] /\ hal.at = "hello" /\ Then("retire")
          /\ Forget(Plugin) /\ UNCHANGED port
      BY Zenon, <1>1, <1>3, <2>2 DEF MonitorHello, AnswerAt, HelloReturned, Ok
    <3>2. Turned("retire") /\ hal'.ready = hal.ready /\ hal'.missed = hal.missed
      BY Zenon, <3>1, ThenTurns
    <3>3. Settled' => Settled
      BY Zenon, <3>1, <3>2 DEF Settled, Turned
    <3> QED BY Zenon, <1>1, <3>1, <3>2, <3>3, ClosedInv, Trios
  <2> QED BY Zenon, <2>1, <2>2
<1>4. ASSUME hal.at \in {"newBuffer", "newActive"}, UNCHANGED client, SendControl("release", "new", 0),
             Then("dropNew")
      PROVE  PluginInv'
  <2>1. Turned("dropNew") /\ hal'.ready = hal.ready /\ hal'.missed = hal.missed
    BY Zenon, <1>4, ThenTurns
  <2>2. Settled' => Settled
    BY Zenon, <1>4, <2>1 DEF Settled, Turned
  <2>3. "new" # "dev"
    OBVIOUS
  <2> QED BY Zenon, <1>1, <1>2, <1>4, <2>1, <2>2, <2>3, AskedInv, Trios, Values
<1>5. CASE MonitorNewBuffer
  <2>1. CASE Ok
    <3>1. /\ hal.at = "newBuffer" /\ UNCHANGED client /\ SendControl("active", "new", Active)
          /\ Then("newActive")
      BY Zenon, <1>5, <2>1 DEF MonitorNewBuffer, AnswerAt
    <3>2. Turned("newActive") /\ hal'.ready = hal.ready /\ hal'.missed = hal.missed
      BY Zenon, <3>1, ThenTurns
    <3>3. HalShape' /\ hal'.at = "newActive" /\ Accounts' /\ (Running' <=> Running)
      BY Zenon, <3>2, TurnedBooks
    <3>4. PICK value \in Nat \union Buffers : value = Active /\ (value # 0 <=> Running)
      BY Zenon, Values DEF Active, Running
    <3>5. ~AtRest' /\ ~Starting' /\ hal'.at \notin {"hello", "stop", "start", "reprime"}
      BY Zenon, <3>3 DEF AtRest, Starting
    <3>6. \A g \in Trio, active \in BOOLEAN : Telling(g, active)' => g = "new" /\ (value # 0 <=> active)
      BY Zenon, <3>3, <3>4 DEF Telling
    <3>7. UNCHANGED <<alive, service, call, client>> /\ "new" \in Trio /\ "new" # "dev"
      BY Zenon, <1>1, <3>1, Trios
    <3>8. SendControl("active", "new", value)
      BY Zenon, <3>1, <3>4
    <3>9. Settled' => Settled
      BY Zenon, <3>1, <3>2 DEF Settled, Turned
    <3> QED BY ZenonT(60), <1>2, <3>3, <3>5, <3>6, <3>7, <3>8, <3>9, ControlSentInv
  <2>2. CASE ~Ok
    BY Zenon, <1>4, <1>5, <2>2 DEF MonitorNewBuffer, AnswerAt
  <2> QED BY Zenon, <2>1, <2>2
<1>6. CASE MonitorNewActive
  <2>1. CASE Ok
    <3>1. /\ client' = [client EXCEPT !["old"] = client["dev"], !["dev"] = client["new"],
                                      !["new"] = NoClient]
          /\ hal' = [hal EXCEPT !.at = "publish", !.missed = FALSE]
          /\ Forget(Plugin) /\ UNCHANGED port /\ hal.at = "newActive" /\ Succeeded(Plugin)
      BY Zenon, <1>6, <2>1 DEF MonitorNewActive, AnswerAt, Ok
    <3>2. Turned("publish")
      BY Zenon, <3>1 DEF PluginInv, HalShape, Turned
    <3>3. HalShape' /\ hal'.at = "publish" /\ Accounts' /\ (Running' <=> Running)
      BY Zenon, <3>2, TurnedBooks
    <3>4. /\ Trio \subseteq Handles /\ client \in [Handles -> ClientValue]
          /\ NoClient \in ClientValue /\ NoClient.id = 0 /\ NoClient.session = 0
      BY Zenon, HalAssumption DEF Trio, PluginInv, LeaseTypeOK, NoClient, ClientValue
    <3>5. /\ client' \in [Handles -> ClientValue] /\ client'["old"] = client["dev"]
          /\ client'["dev"] = client["new"] /\ client'["new"] = NoClient
      BY Zenon, <3>1, <3>4, Trios
    <3>6. \A g \in Trio : client'[g].session # 0 => client'[g].id # 0
      BY Zenon, <3>4, <3>5, Trios DEF PluginInv, HandleIds, Trio
    <3>7. client["dev"].id = client["new"].id => client["dev"].id = 0
      BY Zenon, Trios DEF PluginInv, HandleIds
    <3>8. \A g, k \in Trio : client'[g].id = client'[k].id /\ client'[g].id # 0 => g = k
      BY Zenon, <3>4, <3>5, <3>7 DEF Trio
    <3>9. HandleIds' /\ AtRest' /\ ~Starting'
      BY Zenon, <3>3, <3>6, <3>8 DEF HandleIds, AtRest, Starting
    <3>10. \A active \in BOOLEAN : (active <=> Running) => LeaseIs("new", active)
      BY Zenon, <3>1, Trios DEF PluginInv, Answered, Telling
    <3>11. LeaseIs("new", Running)
      BY Zenon, <3>10 DEF LeaseIs
    <3>12. LeaseIs("dev", Running)'
      BY Zenon, <1>1, <3>3, <3>5, <3>11 DEF LeaseIs
    <3> QED BY Zenon, <1>1, <1>2, <3>1, <3>3, <3>5, <3>9, <3>12, RestingInv
  <2>2. CASE ~Ok
    BY Zenon, <1>4, <1>6, <2>2 DEF MonitorNewActive, AnswerAt
  <2> QED BY Zenon, <2>1, <2>2
<1> QED BY Zenon, <1>3, <1>5, <1>6

\* The publication, and the disconnects.
LEMMA MonitorDropsInv ==
  ASSUME PluginInv, UNCHANGED call,
         MonitorPublish \/ MonitorRetire \/ MonitorDropOld \/ MonitorDropNew \/ MonitorDropDev
  PROVE  PluginInv'
<1>1. UNCHANGED <<alive, service>> /\ "release" \in Kinds /\ "old" # "dev"
  BY Zenon DEF MonitorPublish, MonitorRetire, MonitorDropOld, MonitorDropNew, MonitorDropDev, Unchanged, Kinds
<1>2. CASE MonitorPublish
  <2>1. hal.at = "publish" /\ AtRest /\ Settled /\ UNCHANGED client
    BY Zenon, <1>2 DEF MonitorPublish, AtRest, Settled
  <2>2. CASE Connected("old")
    <3>1. /\ SendControl("release", "old", 0)
          /\ hal' = [hal EXCEPT !.at = "dropOld", !.ready = TRUE]
      BY Zenon, <1>2, <2>2 DEF MonitorPublish
    <3>2. Turned("dropOld")
      BY Zenon, <3>1 DEF PluginInv, HalShape, Turned
    <3> QED BY Zenon, <1>1, <2>1, <3>1, <3>2, AskedInv, Trios, Values
  <2>3. CASE ~Connected("old")
    <3>1. /\ hal' = [hal EXCEPT !.at = "free", !.ready = TRUE]
          /\ UNCHANGED <<port, answer>>
      BY Zenon, <1>2, <2>3 DEF MonitorPublish
    <3>2. Turned("free")
      BY Zenon, <3>1 DEF PluginInv, HalShape, Turned
    <3> QED BY Zenon, <1>1, <2>1, <3>1, <3>2, RestedInv
  <2> QED BY Zenon, <2>2, <2>3
<1>3. CASE MonitorRetire
  <2>1. hal.at = "retire" /\ AtRest /\ UNCHANGED client
    BY Zenon, <1>3 DEF MonitorRetire, AtRest
  <2>2. CASE Connected("dev")
    <3>1. SendControl("release", "dev", 0) /\ Then("dropDev")
      BY Zenon, <1>3, <2>2 DEF MonitorRetire
    <3>2. Turned("dropDev")
      BY Zenon, <3>1, ThenTurns
    <3>3. ~Settled'
      BY Zenon, <3>2 DEF Settled, Turned
    <3> QED BY Zenon, <1>1, <2>1, <3>1, <3>2, <3>3, AskedInv, Trios, Values
  <2>3. CASE ~Connected("dev")
    <3>1. hal' = [hal EXCEPT !.at = "free", !.ready = FALSE] /\ UNCHANGED <<port, answer>>
      BY Zenon, <1>3, <2>3 DEF MonitorRetire
    <3>2. Turned("free") /\ ~hal'.ready
      BY Zenon, <3>1 DEF PluginInv, HalShape, Turned
    <3>3. ~Settled'
      BY Zenon, <3>2 DEF Settled, Turned
    <3> QED BY Zenon, <1>1, <2>1, <3>1, <3>2, <3>3, RestedInv
  <2> QED BY Zenon, <2>2, <2>3
<1>4. ASSUME NEW h \in {"old", "new"}, NEW at \in {"free", "retire"}, hal.at \in {"dropOld", "dropNew"},
             Returned(Plugin), Forget(Plugin), UNCHANGED port, Then(at),
             client' = [client EXCEPT ![h] = NoClient]
      PROVE  PluginInv'
  <2>1. Turned(at) /\ hal'.ready = hal.ready /\ hal'.missed = hal.missed
    BY Zenon, <1>4, ThenTurns
  <2>2. Settled' => Settled
    BY Zenon, <1>4, <2>1 DEF Settled, Turned
  <2>3. h \in Trio
    BY Zenon DEF Trio
  <2> QED BY Zenon, <1>1, <1>4, <2>1, <2>2, <2>3, ClosedInv
<1>5. CASE MonitorDropOld
  BY Zenon, <1>4, <1>5 DEF MonitorDropOld, AnswerAt
<1>6. CASE MonitorDropNew
  BY Zenon, <1>4, <1>6 DEF MonitorDropNew, AnswerAt
<1>7. CASE MonitorDropDev
  <2>1. /\ client' = [client EXCEPT !["dev"] = NoClient] /\ Forget(Plugin) /\ UNCHANGED port
        /\ Returned(Plugin) /\ hal' = [hal EXCEPT !.at = "free", !.ready = FALSE]
    BY Zenon, <1>7 DEF MonitorDropDev, AnswerAt
  <2>2. Turned("free")
    BY Zenon, <2>1 DEF PluginInv, HalShape, Turned
  <2> QED BY Zenon, <1>1, <2>1, <2>2, ClosedInv, Trios
<1> QED BY Zenon, <1>2, <1>3, <1>5, <1>6, <1>7

\* Steps that leave the exchange and the accounts alone.
LEMMA KeptInv ==
  ASSUME PluginInv, UNCHANGED <<alive, service, port, answer, client, call>>, HalShape',
         hal'.at = hal.at, hal'.ready = hal.ready, hal'.missed = hal.missed, hal'.who = hal.who,
         hal'.clients = hal.clients, hal'.running = hal.running, hal'.starts = hal.starts,
         hal'.tracked = hal.tracked
  PROVE  PluginInv'
<1>1. Requests' = Requests /\ (Running' <=> Running) /\ (Starting' <=> Starting) /\ (Settled' <=> Settled)
  BY Zenon DEF Requests, Running, Starting, Settled
<1>2. \A h \in Trio : \A active : (LeaseIs(h, active)' <=> LeaseIs(h, active))
  BY Zenon DEF LeaseIs
<1>3. \A h, active : Telling(h, active)' <=> Telling(h, active)
  BY Zenon, <1>1 DEF Telling
<1>4. LeaseTypeOK' /\ Alone' /\ LastExpected'
  BY Zenon, <1>1 DEF PluginInv, LeaseTypeOK, Alone, LastExpected
<1>5. HandleIds' /\ UnderLock' /\ Accounts' /\ Unheard'
  BY Zenon, <1>1 DEF PluginInv, HandleIds, UnderLock, AtRest, Accounts, Unheard, Inactive
<1>6. \A r \in Requests' : Wanted(r)'
  BY Zenon, <1>1, <1>3 DEF PluginInv, Wanted, Names
<1>7. Applied'
  BY Zenon DEF PluginInv, Applied, Working, Done
<1>8. Answered'
  BY Zenon, <1>2, <1>3, Trios DEF PluginInv, Answered, Succeeded
<1>9. ASSUME Settled' PROVE LeaseIs("dev", Running)' /\ Undisturbed("dev")'
  <2>1. LeaseIs("dev", Running) /\ Undisturbed("dev")
    BY Zenon, <1>1, <1>9 DEF PluginInv
  <2>2. LeaseIs("dev", Running)'
    BY Zenon, <1>1, <2>1 DEF LeaseIs
  <2> QED BY Zenon, <1>1, <2>1, <2>2 DEF Undisturbed
<1> QED BY Zenon, <1>4, <1>5, <1>6, <1>7, <1>8, <1>9 DEF PluginInv

\* set_property of the driver buffer.
LEMMA SetBufferInv ==
  ASSUME PluginInv, UNCHANGED call,
         (\E frames \in Buffers : SetBuffer(frames)) \/ SetBufferAnswered \/ SetBufferStored
  PROVE  PluginInv'
<1>1. CASE \E frames \in Buffers : SetBuffer(frames)
  <2>1. PICK frames \in Buffers : SetBuffer(frames)
    BY Zenon, <1>1
  <2>2. /\ UNCHANGED <<alive, service, client>> /\ hal.at = "free" /\ AtRest
        /\ SendControl("buffer", "dev", frames)
        /\ hal' = [hal EXCEPT !.at = "setBuffer", !.setting = frames]
        /\ "buffer" \in Kinds /\ frames \in Nat \union Buffers
    BY Zenon, <2>1 DEF SetBuffer, Unchanged, AtRest, Kinds
  <2>3. Turned("setBuffer") /\ hal'.ready = hal.ready /\ hal'.missed = hal.missed
    BY Zenon, <2>2 DEF PluginInv, HalShape, Turned
  <2>4. Settled' => Settled
    BY Zenon, <2>2, <2>3 DEF Settled, Turned
  <2>5. "buffer" \notin {"active", "release"}
    OBVIOUS
  <2> QED BY Zenon, <2>2, <2>3, <2>4, <2>5, AskedInv, Trios
<1>2. CASE SetBufferAnswered
  <2>1. /\ UNCHANGED <<alive, service, client, port>> /\ Returned(Plugin) /\ hal.at = "setBuffer"
        /\ Forget(Plugin)
    BY Zenon, <1>2 DEF SetBufferAnswered, Unchanged, Stay, AnswerAt
  <2>2. \/ hal' = [hal EXCEPT !.at = "free", !.setting = hal.setting]
        \/ hal' = [hal EXCEPT !.at = "free", !.setting = hal.buffer]
    BY Zenon, <1>2 DEF SetBufferAnswered
  <2>3. Turned("free") /\ hal'.ready = hal.ready /\ hal'.missed = hal.missed
    BY Zenon, <2>2 DEF PluginInv, HalShape, Turned
  <2>4. Settled' => Settled
    BY Zenon, <2>1, <2>3 DEF Settled, Turned
  <2> QED BY Zenon, <2>1, <2>3, <2>4, RestedInv
<1>3. CASE SetBufferStored
  <2>1. /\ UNCHANGED <<alive, service, port, answer, client>>
        /\ hal' = [hal EXCEPT !.buffer = hal.setting]
    BY Zenon, <1>3 DEF SetBufferStored, serviceVars
  <2>2. /\ HalShape' /\ hal'.at = hal.at /\ hal'.ready = hal.ready /\ hal'.missed = hal.missed
        /\ hal'.who = hal.who /\ hal'.clients = hal.clients /\ hal'.running = hal.running
        /\ hal'.starts = hal.starts /\ hal'.tracked = hal.tracked
    BY Zenon, <2>1 DEF PluginInv, HalShape
  <2> QED BY Zenon, <2>1, <2>2, KeptInv
<1> QED BY Zenon, <1>1, <1>2, <1>3

\* What stop_io and remove_client leave in the accounts.
LeftBehind(a) ==
  /\ "at" \in DOMAIN a /\ "ready" \in DOMAIN a /\ "missed" \in DOMAIN a /\ "who" \in DOMAIN a
  /\ "clients" \in DOMAIN a /\ "running" \in DOMAIN a /\ "starts" \in DOMAIN a
  /\ "tracked" \in DOMAIN a /\ "buffer" \in DOMAIN a /\ "setting" \in DOMAIN a
  /\ a.buffer \in Buffers /\ a.setting \in Buffers
  /\ a.at = "free" /\ a.ready = hal.ready /\ a.missed = hal.missed
  /\ a.clients \in 0..hal.clients
  /\ a.running \in [Clients -> 0..MaxRunning] /\ a.starts \in [Clients -> Nat]
  /\ \A d \in Clients : a.starts[d] <= a.running[d]
  /\ \A d \in Clients \ a.tracked : a.starts[d] = 0
  /\ Cardinality(Starts(a.running)) <= a.clients

\* The last one out marks audio inactive.
LEMMA GoesIdleInv ==
  ASSUME PluginInv, UNCHANGED <<alive, service, call, client>>, hal.at = "free",
         NEW a, LeftBehind(a), GoesIdle(hal, a)
  PROVE  PluginInv'
<1>1. AtRest /\ answer[Plugin].state # "waiting" /\ "active" \in Kinds
  BY Zenon DEF AtRest, PluginInv, UnderLock, Kinds
<1>2. a.clients \in 0..MaxRunning /\ (a.clients > 0 => hal.clients > 0) /\ (a.clients # 0 => a.clients > 0)
      /\ ~(0 > 0)
  <2>1. a.clients \in 0..hal.clients /\ hal.clients \in 0..MaxRunning
    BY Zenon DEF LeftBehind, PluginInv, Accounts
  <2> QED BY <2>1, HalAssumption
<1>3. CASE a.clients = 0 /\ hal.clients > 0 /\ Connected("dev")
  <2>1. SendControl("active", "dev", 0) /\ hal' = [a EXCEPT !.at = "stop"]
    BY Zenon, <1>3 DEF GoesIdle
  <2>2. /\ HalShape' /\ hal'.at = "stop" /\ hal'.clients = a.clients /\ hal'.running = a.running
        /\ hal'.starts = a.starts /\ hal'.tracked = a.tracked
    BY Zenon, <2>1 DEF LeftBehind, HalShape
  <2>3. Accounts'
    BY Zenon, <1>2, <2>2 DEF LeftBehind, Accounts
  <2>4. ~AtRest' /\ ~Starting' /\ ~Settled' /\ hal'.at \notin {"hello", "start", "reprime"}
        /\ hal'.clients = 0
    BY Zenon, <1>3, <2>2 DEF AtRest, Starting, Settled
  <2>5. \A g \in Trio, active \in BOOLEAN : Telling(g, active)' => g = "dev" /\ (0 # 0 <=> active)
    BY Zenon, <2>2 DEF Telling
  <2> QED BY ZenonT(60), <1>1, <2>1, <2>2, <2>3, <2>4, <2>5, ControlSentInv, Trios, Values
<1>4. CASE ~(a.clients = 0 /\ hal.clients > 0 /\ Connected("dev"))
  <2>1. hal' = a /\ UNCHANGED <<port, answer>>
    BY Zenon, <1>4 DEF GoesIdle
  <2>2. HalShape' /\ hal'.at = "free" /\ hal'.ready = hal.ready /\ hal'.missed = hal.missed
    BY Zenon, <2>1 DEF LeftBehind, HalShape
  <2>3. Accounts'
    BY Zenon, <1>2, <2>1 DEF LeftBehind, Accounts
  <2>4. HandleIds' /\ client' \in [Handles -> ClientValue] /\ AtRest' /\ ~Starting'
    BY Zenon, <2>2, HandlesKept DEF AtRest, Starting
  <2>5. Settled' => Settled /\ client'["dev"] = client["dev"]
    BY Zenon, <2>2 DEF Settled
  <2>6. client["dev"].session # 0 => (Running' <=> Running)
    BY Zenon, <1>2, <1>4, <2>1 DEF Running, Connected
  <2> QED BY Zenon, <1>1, <2>1, <2>2, <2>3, <2>4, <2>5, <2>6, RestingInv
<1> QED BY Zenon, <1>3, <1>4

\* add_client takes a slot without starts.
LEMMA AddClientInv ==
  ASSUME PluginInv, UNCHANGED call, NEW c \in Clients, AddClient(c)
  PROVE  PluginInv'
<1>1. /\ UNCHANGED <<alive, service, client, port, answer>> /\ hal.at = "free" /\ AtRest
      /\ hal' = [hal EXCEPT !.tracked = @ \union {c}, !.starts = [hal.starts EXCEPT ![c] = 0]]
      /\ hal.starts \in [Clients -> Nat] /\ hal.starts[c] = 0
  BY Zenon DEF AddClient, Unchanged, AtRest, PluginInv, Accounts
<1>2. [hal.starts EXCEPT ![c] = 0] = hal.starts
  BY <1>1
<1>3. /\ HalShape' /\ hal'.at = "free" /\ hal'.clients = hal.clients /\ hal'.running = hal.running
      /\ hal'.starts = hal.starts /\ hal'.tracked = hal.tracked \union {c}
      /\ hal'.ready = hal.ready /\ hal'.missed = hal.missed
  BY Zenon, <1>1, <1>2 DEF PluginInv, HalShape
<1>4. Accounts' /\ (Running' <=> Running)
  BY Zenon, <1>3 DEF PluginInv, Accounts, Running
<1>5. answer[Plugin].state # "waiting"
  BY Zenon, <1>1 DEF PluginInv, UnderLock
<1>6. HandleIds' /\ client' \in [Handles -> ClientValue] /\ AtRest' /\ ~Starting'
  BY Zenon, <1>1, <1>3, HandlesKept DEF AtRest, Starting
<1>7. Settled' => Settled /\ client'["dev"] = client["dev"]
  BY Zenon, <1>1, <1>3 DEF Settled
<1> QED BY Zenon, <1>1, <1>3, <1>4, <1>5, <1>6, <1>7, RestingInv

\* The answer to the last one out, which nobody reads.
LEMMA IdleAnsweredInv ==
  ASSUME PluginInv, UNCHANGED call, IdleAnswered
  PROVE  PluginInv'
<1>1. /\ UNCHANGED <<alive, service, client, port>> /\ Returned(Plugin) /\ hal.at = "stop" /\ Forget(Plugin)
      /\ hal' = [hal EXCEPT !.at = "free", !.missed = ~Ok]
  BY Zenon DEF IdleAnswered, Unchanged, Stay, AnswerAt
<1>2. Turned("free") /\ (hal'.missed <=> ~Ok)
  BY Zenon, <1>1 DEF PluginInv, HalShape, Turned
<1>3. ASSUME Ok PROVE LeaseIs("dev", Running)
  <2>1. LeaseIs("dev", FALSE) /\ hal.clients = 0
    BY Zenon, <1>1, <1>3, Trios DEF PluginInv, UnderLock, Answered, Telling, Ok
  <2>2. ~Running
    BY <2>1 DEF Running
  <2> QED BY Zenon, <2>1, <2>2 DEF LeaseIs
<1>4. Settled' => Succeeded(Plugin) /\ LeaseIs("dev", Running)
  BY Zenon, <1>2, <1>3 DEF Settled, Turned, Ok
<1> QED BY Zenon, <1>1, <1>2, <1>4, RestedInv

\* A hello names an id and a process.
Named(r) == r.kind = "hello" => r.id \in Ids /\ r.from \in Processes

\* The clients' side of the port: nothing, or one request more that names itself.
PortMoves ==
  /\ UNCHANGED service
  /\ port' = port \/ \E r : Named(r) /\ Send(r)

LEMMA RegistryPort ==
  ASSUME LeaseTypeOK, RegistryInv, PortMoves
  PROVE  RegistryInv'
<1>1. Len(port) <= QueueLimit /\ port \in Seq(RequestValue) /\ \A r \in Requests : Named(r)
  BY Zenon DEF RegistryInv, LeaseTypeOK, Named
<1>2. CASE port' = port
  BY Zenon, <1>2 DEF PortMoves, RegistryInv, Requests
<1>3. ASSUME NEW r, Named(r), port' = Append(port, r), Len(port) < QueueLimit, UNCHANGED service
      PROVE  RegistryInv'
  <2>1. Len(port') = Len(port) + 1 /\ Len(port) \in Nat
        /\ \A i \in 1..Len(port') : port'[i] = r \/ \E j \in 1..Len(port) : port'[i] = port[j]
    BY <1>1, <1>3
  <2>2. Len(port') <= QueueLimit
    BY <1>3, <2>1, ServiceAssumption
  <2>3. \A q \in Requests' : q = r \/ q \in Requests
    BY Zenon, <1>3, <2>1 DEF Requests
  <2>4. \A q \in Requests' : Named(q)
    BY Zenon, <1>1, <1>3, <2>3
  <2> QED BY Zenon, <1>3, <2>2, <2>4 DEF RegistryInv, Named
<1> QED BY Zenon, <1>2, <1>3 DEF PortMoves, Send

LEMMA ControlMoves ==
  ASSUME NEW kind, kind # "hello", NEW p, NEW id, NEW session, NEW value, UNCHANGED service,
         Send(Request(kind, p, id, session, value))
  PROVE  PortMoves
<1>1. Request(kind, p, id, session, value).kind = kind
  BY Zenon DEF Request
<1> QED BY Zenon, <1>1 DEF PortMoves, Named

LEMMA HelloMoves ==
  ASSUME NEW h \in Handles, Owner[h] \in Processes, UNCHANGED service, SendHello(h)
  PROVE  PortMoves
<1>1. PICK id \in FreshIds : Send(Request("hello", Owner[h], id, 0, 0))
  BY Zenon DEF SendHello
<1>2. id \in Ids
  BY Zenon DEF FreshIds
<1>3. Named(Request("hello", Owner[h], id, 0, 0))
  BY Zenon, <1>2 DEF Named, Request
<1> QED BY Zenon, <1>1, <1>3 DEF PortMoves

\* Every request of the plug-in.
LEMMA PluginMoves ==
  ASSUME HalStep \/ HalWait \/ MonitorPoll \/ (\E c \in Clients : CoreAudioCalls(c))
         \/ \E frames \in Buffers : SetBuffer(frames)
  PROVE  PortMoves
<1>1. \A h \in {"dev", "new", "old"} : h \in Handles /\ Owner[h] \in Processes
  BY Zenon, HalAssumption
<1>2. UNCHANGED service
  BY Zenon DEF HalStep, HalWait, MonitorPoll, CoreAudioCalls, SetBuffer, Initialize, InitializeHello,
     InitializeBuffer, MonitorReplaced, MonitorReady, MonitorReattached, MonitorUnavailable, MonitorHello,
     MonitorNewBuffer, MonitorNewActive, MonitorDropOld, MonitorDropNew, MonitorDropDev, StartIOReprimed,
     StartIOActivated, IdleAnswered, SetBufferAnswered, MonitorSuperseded, MonitorPublish, MonitorRetire,
     AddClient, StartIO, StopIO, RemoveClient, Unchanged
<1>3. "active" # "hello" /\ "buffer" # "hello" /\ "release" # "hello" /\ "state" # "hello"
  OBVIOUS
<1>4. \A kind, h, value : kind # "hello" /\ SendControl(kind, h, value) => PortMoves
  BY Zenon, <1>2, ControlMoves DEF SendControl
<1>5. UNCHANGED port => PortMoves
  BY Zenon, <1>2 DEF PortMoves
<1>6. SendHello("dev") \/ SendHello("new") => PortMoves
  BY Zenon, <1>1, <1>2, HelloMoves
<1>7. CASE Initialize \/ MonitorUnavailable \/ MonitorPoll
  BY Zenon, <1>3, <1>4, <1>6, <1>7 DEF Initialize, MonitorUnavailable, MonitorPoll
<1>8. CASE InitializeHello \/ MonitorHello
  BY Zenon, <1>2, <1>3, <1>5, <1>8, ControlMoves DEF InitializeHello, MonitorHello
<1>9. CASE InitializeBuffer \/ MonitorNewBuffer \/ MonitorNewActive \/ MonitorPublish \/ MonitorRetire
           \/ StartIOReprimed
  BY Zenon, <1>3, <1>4, <1>5, <1>9
     DEF InitializeBuffer, MonitorNewBuffer, MonitorNewActive, MonitorPublish, MonitorRetire, StartIOReprimed
<1>10. CASE MonitorReplaced \/ MonitorReady \/ MonitorReattached \/ MonitorSuperseded
  BY Zenon, <1>3, <1>4, <1>5, <1>10 DEF MonitorReplaced, MonitorReady, MonitorReattached, MonitorSuperseded, Stay
<1>11. CASE MonitorDropOld \/ MonitorDropNew \/ MonitorDropDev \/ StartIOActivated \/ IdleAnswered
            \/ SetBufferAnswered
  BY Zenon, <1>5, <1>11
     DEF MonitorDropOld, MonitorDropNew, MonitorDropDev, StartIOActivated, IdleAnswered, SetBufferAnswered, Stay
<1>12. ASSUME NEW c \in Clients, AddClient(c) \/ StartIO(c) \/ StopIO(c) \/ RemoveClient(c) PROVE PortMoves
  <2>1. \A before, after : GoesIdle(before, after) => PortMoves
    BY Zenon, <1>3, <1>4, <1>5 DEF GoesIdle
  <2> QED BY Zenon, <1>3, <1>4, <1>5, <1>12, <2>1 DEF AddClient, StartIO, StopIO, RemoveClient
<1>13. ASSUME NEW frames \in Buffers, SetBuffer(frames) PROVE PortMoves
  BY Zenon, <1>3, <1>4, <1>13 DEF SetBuffer
<1> QED BY Zenon, <1>7, <1>8, <1>9, <1>10, <1>11, <1>12, <1>13 DEF HalStep, HalWait, CoreAudioCalls

\* A process that gives up, or goes, leaves its requests behind.
LEMMA RegistryAbandoned ==
  ASSUME LeaseTypeOK, RegistryInv, NEW p, AbandonAll(p)
  PROVE  RegistryInv'
<1>1. /\ service \in ServiceValue /\ service.request \in RequestValue /\ port \in Seq(RequestValue)
      /\ \A i \in 1..Len(port) : port[i] \in RequestValue
  BY DEF LeaseTypeOK, ServiceValue
<1>2. \A r \in RequestValue : /\ Abandon(r, p).kind = r.kind /\ Abandon(r, p).id = r.id
                              /\ Abandon(r, p).from = r.from
  BY DEF Abandon, RequestValue
<1>3. service'.leases = service.leases /\ service'.request = Abandon(service.request, p)
  BY Zenon, <1>1 DEF AbandonAll, ServiceValue
<1>4. Len(port') = Len(port) /\ \A i \in 1..Len(port') : port'[i] = Abandon(port[i], p)
  BY <1>1 DEF AbandonAll
<1>5. ASSUME NEW r \in Requests'
      PROVE  \E q \in Requests : q \in RequestValue /\ r = Abandon(q, p)
  BY Zenon, <1>1, <1>3, <1>4 DEF Requests
<1>6. \A r \in Requests' : r.kind = "hello" => r.id \in Ids /\ r.from \in Processes
  BY Zenon, <1>2, <1>5 DEF RegistryInv
<1> QED BY Zenon, <1>3, <1>4, <1>6 DEF RegistryInv

\* The steps of a helper.
LEMMA RegistryHelpers ==
  ASSUME LeaseTypeOK, RegistryInv, NEW p \in Helpers, HelperStep(p) \/ HelperSpawns(p)
  PROVE  RegistryInv'
<1>1. HandleOf(p) \in Handles /\ Owner[HandleOf(p)] \in Processes
  BY Zenon, OwnHandle
<1>2. "active" # "hello" /\ "release" # "hello"
  OBVIOUS
<1>3. CASE HelperConnect(p)
  BY Zenon, <1>1, <1>3, HelloMoves, RegistryPort DEF HelperConnect
<1>4. ASSUME NEW kind, kind # "hello", NEW value, HelperControl(p, kind, value) PROVE RegistryInv'
  BY Zenon, <1>4, ControlMoves, RegistryPort DEF HelperControl, SendControl
<1>5. CASE HelperReturn(p) \/ HelperSpawns(p)
  BY Zenon, <1>5, RegistryPort DEF HelperReturn, HelperSpawns, PortMoves
<1>6. CASE HelperTimesOut(p) \/ HelperDies(p)
  BY Zenon, <1>6, RegistryAbandoned DEF HelperTimesOut, ExchangeTimesOut, HelperDies
<1> QED BY Zenon, <1>2, <1>3, <1>4, <1>5, <1>6 DEF HelperStep

\* The reader count is the callback's.
LEMMA ReadersNextInv == ReadersInv /\ [Next]_vars => ReadersInv'
<1> SUFFICES ASSUME ReadersInv, [Next]_vars PROVE ReadersInv'
  BY Zenon
<1>1. ASSUME callback' = callback,
             \/ mapping' = mapping \/ Withdraw \/ (\E c : PublishMapping(c))
             \/ mapping' = [mapping EXCEPT !.memory = 0, !.buffered = FALSE]
      PROVE  ReadersInv'
  <2>1. mapping'.readers = mapping.readers /\ "readers" \in DOMAIN mapping'
    BY Zenon, <1>1 DEF ReadersInv, Withdraw, PublishMapping
  <2> QED BY Zenon, <1>1, <2>1 DEF ReadersInv
<1>2. CASE CallbackRuns
  <2>1. CASE CallbackPin
    BY <2>1 DEF CallbackPin, ReadersInv
  <2>2. CASE CallbackLease
    <3>1. callback.at = "pinned" /\ mapping.readers = 1
      BY <2>2, Zenon DEF CallbackLease, ReadersInv
    <3>2. CASE mapping.memory = 0
      <4>1. /\ callback' = [callback EXCEPT !.at = "idle", !.early = FALSE]
            /\ mapping' = [mapping EXCEPT !.readers = mapping.readers - 1]
        BY <2>2, <3>2, Zenon DEF CallbackLease
      <4> QED
        BY <3>1, <4>1 DEF ReadersInv
    <3>3. CASE mapping.memory # 0
      <4>1. /\ callback' = [callback EXCEPT !.at = "using", !.memory = mapping.memory, !.session = mapping.session]
            /\ mapping' = mapping
        BY <2>2, <3>3, Zenon DEF CallbackLease
      <4> QED
        BY <3>1, <4>1 DEF ReadersInv
    <3> QED BY <3>2, <3>3, Zenon
  <2>3. CASE CallbackRelease
    BY <2>3 DEF CallbackRelease, ReadersInv
  <2>4. CASE (\E c \in Clients : StartIO(c)) \/ StartIOActivated
    BY Zenon, <1>1, <2>4 DEF StartIO, StartIOActivated, Unchanged
  <2> QED BY Zenon, <1>2, <2>1, <2>2, <2>3, <2>4 DEF CallbackRuns, CallbackStep
<1>3. CASE ServiceRuns \/ ServiceStarts \/ ServiceCrashes \/ HelpersRun \/ MonitorGivesUp \/ Flush \/ UNCHANGED vars
  BY Zenon, <1>1, <1>3 DEF ServiceRuns, ServiceStarts, ServiceCrashes, HelpersRun, MonitorGivesUp,
     PluginTimesOut, Flush, MappingFlush, vars, halSide
<1>4. CASE PluginRuns \/ PluginWaits \/ MonitorWakes
  BY Zenon, <1>1, <1>4 DEF PluginRuns, PluginWaits, MonitorWakes, HalStep, HalWait, MonitorPoll, Initialize,
     InitializeHello, InitializeBuffer, MonitorReplaced, MonitorReady, MonitorReattached, MonitorUnavailable,
     MonitorHello, MonitorNewBuffer, MonitorNewActive, MonitorDropOld, MonitorDropNew, MonitorDropDev,
     StartIOReprimed, StartIOActivated, IdleAnswered, SetBufferAnswered, MonitorSuperseded, MonitorPublish,
     MonitorRetire, Unchanged
<1>5. CASE CoreAudioRuns \/ BufferChanges
  BY Zenon, <1>1, <1>5 DEF CoreAudioRuns, CoreAudioCalls, AddClient, StartIO, StopIO, RemoveClient,
     BufferChanges, SetBuffer, SetBufferStored, Unchanged
<1> QED BY Zenon, <1>2, <1>3, <1>4, <1>5 DEF Next
=============================================================================
