----------------------------- MODULE StatusPage -----------------------------
(***************************************************************************)
(* One open status page and the server it reads: the live stream and its   *)
(* fallback (apps/status/src/hooks/useSSE.ts), the queries and the sign-in *)
(* screen (apps/status/src/App.tsx), the cached status and the stream      *)
(* routes (apps/api/src/routes/public.ts), and the switch that makes the   *)
(* page private (services/statusPageAccess.ts, statusPageGate.ts).         *)
(*                                                                         *)
(* The page shows one monitor and the incidents, told apart by how many    *)
(* changes they have seen.  Requests and the stream are connections of     *)
(* their own, so an event and an answer may pass each other.  The query    *)
(* cache and the stream hub come from libraries.                           *)
(***************************************************************************)
EXTENDS Naturals, Sequences

CONSTANTS
  MaxHappenings,  \* bound: changes, visits, failures and lost connections
  MaxSent         \* bound: events on the wire

ASSUME StatusPageAssumption ==
  /\ MaxHappenings \in Nat
  /\ MaxSent \in Nat \ {0}

VARIABLES
  status,      \* the monitor's current status
  published,   \* it is on the page
  posted,      \* changes of incidents so far
  private,     \* the row of status_page_access
  cache,       \* statusCache of the public routes
  session,     \* the viewer has a valid session
  link,        \* the viewer's stream, at the server
  wire,        \* events sent over it and not received
  stream,      \* the viewer's stream, in the browser
  live,        \* statusMap: the status received over it
  fallback,    \* the fallback timer runs
  screen,      \* what App shows
  access,      \* the request that asks whether the page is private
  queries,     \* the status query and the incident query
  heard,       \* the last change an event made each query refetch for
  happenings   \* happenings so far

monitor == <<status, published>>
connection == <<link, wire, stream, live, fallback>>
viewer == <<screen, access, queries, heard>>
vars == <<monitor, posted, private, cache, session, connection, viewer, happenings>>

Queries == {"status", "incidents"}
Live == {"anonymous", "session"}
Statuses == {"up", "down"}

\* What a response says; the incident list says nothing of the monitor.
Views == [status : Statuses \cup {"hidden", "unknown"}, posted : 0 .. MaxHappenings]
Unknown == [status |-> "unknown", posted |-> 0]

Event == [about : {"monitor"}, status : Statuses] \cup [about : {"incident"}, posted : 0 .. MaxHappenings]

Idle == [at |-> "idle"]
Asked == [at |-> "asked"]
Refused == [at |-> "refused"]
Requests == {Idle, Asked, Refused} \cup [at : {"answered"}, view : Views]

TypeOK ==
  /\ status \in Statuses
  /\ {published, private, session, fallback} \subseteq BOOLEAN
  /\ {posted, happenings} \subseteq 0 .. MaxHappenings
  /\ cache \in Views
  /\ link \in Live \cup {"none", "cut"}
  /\ wire \in Seq(Event) /\ Len(wire) <= MaxSent
  /\ stream \in {"off", "connecting", "open", "waiting"}
  /\ live \in Statuses \cup {"unknown"}
  /\ screen \in {"blank", "page", "signin"}
  /\ access \in {"idle", "asked"}
  /\ queries \in [Queries -> [view : Views, request : Requests, error : {"none", "failed", "refused"}]]
  /\ heard \in [Queries -> 0 .. MaxHappenings]

Init ==
  /\ status = "up"
  /\ published = TRUE
  /\ posted = 0
  /\ private \in BOOLEAN
  /\ cache = Unknown
  /\ session \in BOOLEAN
  /\ link = "none"
  /\ wire = << >>
  /\ stream = "off"
  /\ live = "unknown"
  /\ fallback = FALSE
  /\ screen = "blank"
  /\ access = "asked"
  /\ queries = [q \in Queries |-> [view |-> Unknown, request |-> Idle, error |-> "none"]]
  /\ heard = [q \in Queries |-> 0]
  /\ happenings = 0

Happens == happenings < MaxHappenings /\ happenings' = happenings + 1

\* Who is not signed in is let in while the page is public (protectStatusPage).
Allowed == private => session

-----------------------------------------------------------------------------
(* The server: changes and what is broadcast of them. *)

HasRoom == link \in Live => Len(wire) < MaxSent

\* The filter of the public stream: nothing of a monitor that is not on the page.
Sent(event) ==
  IF link \in Live /\ (event.about = "monitor" => published) THEN Append(wire, event) ELSE wire

\* A check is broadcast whatever it found, a heartbeat when it changes the status.
Observe ==
  /\ Happens
  /\ HasRoom
  /\ \E found \in Statuses :
       /\ status' = found
       /\ wire' = Sent([about |-> "monitor", status |-> found])
  /\ UNCHANGED <<published, posted, private, cache, session, link, stream, live, fallback, viewer>>

\* Planted bug: the cached status outlives the change the event tells of.
KeptCache == cache

CacheAfterChange == Unknown

ChangeIncident ==
  /\ Happens
  /\ HasRoom
  /\ posted' = posted + 1
  /\ wire' = Sent([about |-> "incident", posted |-> posted'])
  /\ cache' = CacheAfterChange
  /\ UNCHANGED <<monitor, private, session, link, stream, live, fallback, viewer>>

\* Deleting an incident is not broadcast.
DeleteIncident ==
  /\ Happens
  /\ posted' = posted + 1
  /\ UNCHANGED <<monitor, private, cache, session, connection, viewer>>

SaveLayout ==
  /\ Happens
  /\ published' = ~published
  /\ UNCHANGED <<status, posted, private, cache, session, connection, viewer>>

\* Planted bug: streams opened while the page was public go on.
KeptStream(becomesPrivate) == link

StreamAfterSave(becomesPrivate) == IF becomesPrivate /\ link = "anonymous" THEN "cut" ELSE link

SaveAccess ==
  /\ Happens
  /\ private' = ~private
  /\ link' = StreamAfterSave(private')
  /\ UNCHANGED <<monitor, posted, cache, session, wire, stream, live, fallback, viewer>>

CacheExpires ==
  /\ cache # Unknown
  /\ cache' = Unknown
  /\ UNCHANGED <<monitor, posted, private, session, connection, viewer, happenings>>

-----------------------------------------------------------------------------
(* The session.  Signing out ends its streams; running out does not. *)

SignOut ==
  /\ session
  /\ Happens
  /\ session' = FALSE
  /\ link' = IF link = "session" THEN "cut" ELSE link
  /\ UNCHANGED <<monitor, posted, private, cache, wire, stream, live, fallback, viewer>>

SessionExpires ==
  /\ session
  /\ Happens
  /\ session' = FALSE
  /\ UNCHANGED <<monitor, posted, private, cache, connection, viewer>>

SignIn ==
  /\ screen = "signin"
  /\ ~session
  /\ session' = TRUE
  /\ access' = "asked"
  /\ UNCHANGED <<monitor, posted, private, cache, connection, screen, queries, heard, happenings>>

-----------------------------------------------------------------------------
(* The stream (useSSE, the route /events). *)

Connect ==
  /\ stream = "waiting"
  /\ stream' = "connecting"
  /\ UNCHANGED <<monitor, posted, private, cache, session, link, wire, live, fallback, viewer, happenings>>

\* While the page is public nobody is identified, signed in or not.
Accept ==
  /\ stream = "connecting" /\ link = "none"
  /\ Allowed
  /\ link' = IF private THEN "session" ELSE "anonymous"
  /\ wire' = << >>
  /\ UNCHANGED <<monitor, posted, private, cache, session, stream, live, fallback, viewer, happenings>>

Opened ==
  /\ stream = "connecting" /\ link \in Live
  /\ stream' = "open"
  /\ fallback' = FALSE
  /\ UNCHANGED <<monitor, posted, private, cache, session, link, wire, live, viewer, happenings>>

\* onerror
GoesDown ==
  /\ stream' = "waiting"
  /\ link' = "none"
  /\ wire' = << >>
  /\ live' = "unknown"
  /\ fallback' = TRUE
  /\ UNCHANGED <<monitor, posted, private, cache, session, viewer>>

\* Without a session on a private page; or at the limit of streams, or on the way.
Refuse ==
  /\ stream = "connecting" /\ link = "none"
  /\ \/ ~Allowed /\ UNCHANGED happenings
     \/ Allowed /\ Happens
  /\ GoesDown

Notice == link = "cut" /\ GoesDown /\ UNCHANGED happenings

\* The connection is lost, or the server restarts.
Drop ==
  /\ link \in Live
  /\ Happens
  /\ link' = "cut"
  /\ cache' \in {cache, Unknown}
  /\ UNCHANGED <<monitor, posted, private, session, wire, stream, live, fallback, viewer>>

\* Planted bug: the keep-alive trusts the session the stream was opened with.
AllowedOnce == ~private \/ link = "session"

StillAllowed == ~private \/ (link = "session" /\ session)

KeepAlive ==
  /\ link \in Live
  /\ ~StillAllowed
  /\ link' = "cut"
  /\ UNCHANGED <<monitor, posted, private, cache, session, wire, stream, live, fallback, viewer, happenings>>

-----------------------------------------------------------------------------
(* The queries.  A request is read by the server, then its answer travels. *)

Loaded(q) == queries[q].view # Unknown

\* A query that has loaded keeps its error until a request succeeds.
Asking(q) == [queries[q] EXCEPT !.request = Asked, !.error = IF Loaded(q) THEN @ ELSE "none"]

\* A refetch takes the place of a request in flight, unless that is the first load.
Joins(q) == ~Loaded(q) /\ queries[q].request # Idle

Invalidated == [q \in Queries |-> IF Joins(q) THEN queries[q] ELSE Asking(q)]

Deliver ==
  /\ stream = "open" /\ wire # << >>
  /\ wire' = Tail(wire)
  /\ LET event == Head(wire) IN
       \/ /\ event.about = "monitor"
          /\ live' = event.status
          /\ UNCHANGED <<queries, heard>>
       \/ /\ event.about = "incident"
          /\ queries' = Invalidated
          /\ heard' = [q \in Queries |-> IF Loaded(q) THEN event.posted ELSE heard[q]]
          /\ UNCHANGED live
  /\ UNCHANGED <<monitor, posted, private, cache, session, link, stream, fallback, screen, access, happenings>>

\* The polls are 30 seconds apart: the requests of the one before have ended.
Poll ==
  /\ screen = "page" /\ fallback
  /\ \A q \in Queries : queries[q].request = Idle
  /\ queries' = Invalidated
  /\ UNCHANGED <<monitor, posted, private, cache, session, connection, screen, access, heard, happenings>>

\* Planted bug: the status is not refetched by itself either.
NoIntervals == {}

Intervals == {"status"}

IntervalElapses ==
  /\ screen = "page"
  /\ \E q \in Intervals :
       /\ queries[q].request = Idle
       /\ queries' = [queries EXCEPT ![q] = Asking(q)]
  /\ UNCHANGED <<monitor, posted, private, cache, session, connection, screen, access, heard, happenings>>

\* The window is looked at again, half a minute or more after the data came.
Focus ==
  /\ screen = "page"
  /\ Happens
  /\ \E q \in Queries :
       /\ queries[q].request = Idle
       /\ queries' = [queries EXCEPT ![q] = Asking(q)]
  /\ UNCHANGED <<monitor, posted, private, cache, session, connection, screen, access, heard>>

Current(q) ==
  [status |-> IF q = "status" /\ published THEN status ELSE "hidden", posted |-> posted]

\* Another visitor asks for the status.
VisitorAsks ==
  /\ cache = Unknown
  /\ Allowed
  /\ cache' = Current("status")
  /\ UNCHANGED <<monitor, posted, private, session, connection, viewer, happenings>>

Answer(q) ==
  /\ queries[q].request = Asked
  /\ LET view == IF q = "status" /\ cache # Unknown THEN cache ELSE Current(q) IN
       /\ queries' = [queries EXCEPT ![q].request =
                        IF Allowed THEN [at |-> "answered", view |-> view] ELSE Refused]
       /\ cache' = IF Allowed /\ q = "status" THEN view ELSE cache
  /\ UNCHANGED <<monitor, posted, private, session, connection, screen, access, heard, happenings>>

Receive(q) ==
  /\ queries[q].request.at = "answered"
  /\ queries' = [queries EXCEPT ![q] = [view |-> @.request.view, request |-> Idle, error |-> "none"]]
  /\ UNCHANGED <<monitor, posted, private, cache, session, connection, screen, access, heard, happenings>>

\* Planted bug: the page keeps showing what it has.
RefusalIgnored(q) == access

\* The effect runs when the status query's refusal is new.
AccessAfterRefusal(q) ==
  IF q = "status" /\ screen = "page" /\ queries[q].error # "refused" THEN "asked" ELSE access

ReceiveRefusal(q) ==
  /\ queries[q].request = Refused
  /\ queries' = [queries EXCEPT ![q].request = Idle, ![q].error = "refused"]
  /\ access' = AccessAfterRefusal(q)
  /\ UNCHANGED <<monitor, posted, private, cache, session, connection, screen, heard, happenings>>

\* The request and its one retry both fail.
RequestFails(q) ==
  /\ queries[q].request # Idle
  /\ Happens
  /\ queries' = [queries EXCEPT ![q].request = Idle, ![q].error = "failed"]
  /\ UNCHANGED <<monitor, posted, private, cache, session, connection, screen, access, heard>>

-----------------------------------------------------------------------------
(* The screens (App). *)

\* Loaded queries that are not half a minute old are not asked for again.
MountPage ==
  /\ screen' = "page"
  /\ stream' = "connecting"
  /\ \E fresh \in SUBSET {q \in Queries : Loaded(q) /\ queries[q].error = "none"} :
       queries' = [q \in Queries |->
                     IF q \in fresh \/ queries[q].request # Idle THEN queries[q] ELSE Asking(q)]
  /\ access' = IF Loaded("status") /\ queries["status"].error = "refused" THEN "asked" ELSE "idle"
  /\ UNCHANGED <<link, wire, live, fallback>>

UnmountPage ==
  /\ screen' = "signin"
  /\ access' = "idle"
  /\ stream' = "off"
  /\ link' = "none"
  /\ wire' = << >>
  /\ live' = "unknown"
  /\ fallback' = FALSE
  /\ UNCHANGED queries

AccessAnswered ==
  /\ access = "asked"
  /\ \/ ~Allowed /\ UnmountPage
     \/ Allowed /\ screen # "page" /\ MountPage
     \/ /\ Allowed /\ screen = "page"
        /\ access' = "idle"
        /\ UNCHANGED <<connection, screen, queries>>
  /\ UNCHANGED <<monitor, posted, private, cache, session, heard, happenings>>

\* Should the check itself fail, the page loads; a page or a sign-in screen that is there stays.
AccessFails ==
  /\ access = "asked"
  /\ Happens
  /\ \/ screen = "blank" /\ MountPage
     \/ /\ screen # "blank"
        /\ access' = "idle"
        /\ UNCHANGED <<connection, screen, queries>>
  /\ UNCHANGED <<monitor, posted, private, cache, session, heard>>

-----------------------------------------------------------------------------

Server ==
  \/ Observe \/ ChangeIncident \/ DeleteIncident \/ SaveLayout \/ SaveAccess
  \/ CacheExpires \/ VisitorAsks \/ SignOut \/ SessionExpires \/ KeepAlive

Viewer ==
  \/ SignIn \/ Connect \/ Accept \/ Opened \/ Refuse \/ Notice \/ Drop \/ Deliver
  \/ Poll \/ IntervalElapses \/ Focus \/ AccessAnswered \/ AccessFails

Next ==
  \/ Server
  \/ Viewer
  \/ \E q \in Queries : Answer(q) \/ Receive(q) \/ ReceiveRefusal(q) \/ RequestFails(q)

Spec == Init /\ [][Next]_vars

\* Timers go off, requests are answered, events and lost connections are noticed.
FairSpec ==
  /\ Spec
  /\ WF_vars(Connect) /\ WF_vars(Accept) /\ WF_vars(Opened) /\ WF_vars(Refuse) /\ WF_vars(Notice)
  /\ WF_vars(Deliver) /\ WF_vars(KeepAlive) /\ WF_vars(CacheExpires)
  /\ WF_vars(Poll) /\ WF_vars(IntervalElapses) /\ WF_vars(AccessAnswered)
  /\ \A q \in Queries : WF_vars(Answer(q)) /\ WF_vars(Receive(q)) /\ WF_vars(ReceiveRefusal(q))

-----------------------------------------------------------------------------
(* Properties *)

\* What an incident event made a loaded query refetch is there when the query
\* rests, unless the refetch failed: neither the status kept for two seconds,
\* nor an answer that was on its way when the event came, hides the change
\* (routes/public.ts, "a cached copy from just before the change").
ChangeRefetched ==
  \A q \in Queries :
    Loaded(q) /\ queries[q].request = Idle /\ queries[q].error = "none" => queries[q].view.posted >= heard[q]

\* No stream without a session survives the moment the page becomes private
\* (saveStatusPageAccess), whatever was public when it was opened.
AnonymousIsCut == private => link # "anonymous"

\* A stream of a session that has run out ends on a private page, though
\* nothing tells the server of the moment (stillAllowed of the keep-alive).
ExpiredStreamEnds ==
  (private /\ link = "session" /\ ~session) ~> (~private \/ session \/ link # "session")

Shown ==
  IF queries["status"].view.status \in Statuses /\ live # "unknown" THEN live ELSE queries["status"].view.status

\* Once nothing changes any more, a page that may be viewed shows the monitor
\* and the incidents of the status as they are, whatever was lost, cancelled,
\* failed or overtaken on the way: the stream's status gives way when the
\* stream drops and the status is refetched every five minutes.  The
\* monitor must have been on the page all the time: what happens to it in
\* between is not sent (publicEventFilter), and the stream's status stays.
PageSettles ==
  []published =>
    <>[](screen = "page" /\ Allowed =>
           /\ Shown = Current("status").status
           /\ queries["status"].view.posted = posted)

\* A viewer who may no longer see the page and has not been refused yet is
\* taken to the sign-in screen, if nothing more goes wrong: by the end of the
\* stream, a poll or the interval, the refusal, and the access check after it.
SignedOutLeaves ==
  \A n \in 0 .. MaxHappenings :
    (screen = "page" /\ queries["status"].error # "refused" /\ [](~Allowed /\ happenings = n)) ~> screen = "signin"

=============================================================================
