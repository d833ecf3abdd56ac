--------------------------- MODULE StatusPageProofs ---------------------------
(***************************************************************************)
(* Theorems about StatusPage, for any number of changes, failures and lost *)
(* connections and any number of events on the wire.                       *)
(*                                                                         *)
(* A change that a viewer was told of can be hidden in four places: the    *)
(* cached status, an answer on its way, the view a query rests on, and an  *)
(* event that is itself still on its way while the cache is filled again.  *)
(* The inductive invariant bounds each of the four by what was heard.      *)
(***************************************************************************)
EXTENDS StatusPage, SequenceTheorems, TLAPS

QueryStates == [view : Views, request : Requests, error : {"none", "failed", "refused"}]

-----------------------------------------------------------------------------
(* The inductive invariant.                                                *)

\* Every change of an incident is a happening.
ChangesHappen == posted <= happenings

\* Nobody has heard of a change that did not happen yet.
NothingAhead ==
  /\ \A q \in Queries : heard[q] <= posted
  /\ \A i \in DOMAIN wire : wire[i].about = "incident" => wire[i].posted <= posted

\* A cached status knows of every change that was broadcast: what was heard
\* and what is still on the wire.
CacheIsNotBehind ==
  cache # Unknown =>
    /\ \A q \in Queries : heard[q] <= cache.posted
    /\ \A i \in DOMAIN wire : wire[i].about = "incident" => wire[i].posted <= cache.posted

\* So does an answer on its way to a query that heard of a change.
AnswersNotBehind ==
  \A q \in Queries : queries[q].request.at = "answered" => heard[q] <= queries[q].request.view.posted

Refetching == NothingAhead /\ CacheIsNotBehind /\ AnswersNotBehind /\ ChangeRefetched

Typed == TypeOK /\ ChangesHappen

IInv == Typed /\ Refetching /\ AnonymousIsCut

\* The status that arrived over the stream is shown only as long as that stream
\* is open, the fallback polls from when it goes down until it is open again,
\* and a viewer without a page has neither (useSSE: the statusMap is emptied in
\* onerror, the timer is cleared in onopen, both end with the component).
StreamFitsPage ==
  /\ live # "unknown" => stream = "open"
  /\ stream = "waiting" => fallback
  /\ fallback => stream \in {"waiting", "connecting"}
  /\ stream \in {"off", "waiting"} => link = "none" /\ wire = << >>
  /\ stream = "open" => link # "none"
  /\ stream = "off" <=> screen # "page"

-----------------------------------------------------------------------------
(* Types.                                                                  *)

LEMMA Constants ==
  /\ Unknown \in Views
  /\ {Idle, Asked, Refused} \subseteq Requests
  /\ Idle.at = "idle" /\ Asked.at = "asked" /\ Refused.at = "refused"
BY StatusPageAssumption DEF Unknown, Views, Requests, Idle, Asked, Refused

LEMMA ViewFields ==
  ASSUME NEW view \in Views
  PROVE  view.posted \in 0 .. MaxHappenings
BY DEF Views

\* What a query is waiting for.
LEMMA RequestFields ==
  ASSUME NEW request \in Requests
  PROVE  /\ request.at \in {"idle", "asked", "refused", "answered"}
         /\ request.at = "idle" <=> request = Idle
         /\ request.at = "asked" <=> request = Asked
         /\ request.at = "refused" <=> request = Refused
         /\ request.at = "answered" => request.view \in Views
<1>1. CASE request \in {Idle, Asked, Refused}
  BY <1>1 DEF Idle, Asked, Refused
<1>2. CASE request \in [at : {"answered"}, view : Views]
  BY <1>2 DEF Idle, Asked, Refused
<1> QED
  BY <1>1, <1>2 DEF Requests

LEMMA QueryFields ==
  ASSUME TypeOK, NEW q \in Queries
  PROVE  /\ queries[q] \in QueryStates
         /\ queries[q].view \in Views
         /\ queries[q].request \in Requests
         /\ queries[q].error \in {"none", "failed", "refused"}
BY DEF TypeOK, QueryStates

LEMMA AskingType ==
  ASSUME TypeOK, NEW q \in Queries
  PROVE  /\ Asking(q) \in QueryStates
         /\ Asking(q).view = queries[q].view
         /\ Asking(q).request = Asked
<1>1. queries[q] \in QueryStates
  BY QueryFields
<1> QED
  BY <1>1, Constants DEF Asking, QueryStates

LEMMA CurrentType ==
  ASSUME Typed, NEW q \in Queries
  PROVE  Current(q) \in Views /\ Current(q).posted = posted
BY DEF Current, Views, Typed, TypeOK, Statuses

\* What is broadcast is the last event on the wire, or nothing.
LEMMA SentType ==
  ASSUME TypeOK, HasRoom, NEW event \in Event
  PROVE  /\ Sent(event) \in Seq(Event) /\ Len(Sent(event)) <= MaxSent
         /\ \A i \in DOMAIN Sent(event) :
              Sent(event)[i] = event \/ (i \in DOMAIN wire /\ Sent(event)[i] = wire[i])
<1>1. wire \in Seq(Event) /\ Len(wire) <= MaxSent
  BY DEF TypeOK
<1>2. CASE Sent(event) = wire
  BY <1>1, <1>2
<1>3. CASE link \in Live /\ Sent(event) = Append(wire, event)
  BY <1>1, <1>3, StatusPageAssumption DEF HasRoom
<1> QED
  BY <1>2, <1>3 DEF Sent

\* An event leaves the wire; the others move up.
LEMMA DeliveredType ==
  ASSUME TypeOK, wire # << >>
  PROVE  /\ Head(wire) \in Event /\ 1 \in DOMAIN wire /\ Head(wire) = wire[1]
         /\ Tail(wire) \in Seq(Event) /\ Len(Tail(wire)) <= MaxSent
         /\ \A i \in DOMAIN Tail(wire) : i + 1 \in DOMAIN wire /\ Tail(wire)[i] = wire[i + 1]
<1>1. wire \in Seq(Event) /\ Len(wire) <= MaxSent
  BY DEF TypeOK
<1>2. /\ Head(wire) \in Event /\ Tail(wire) \in Seq(Event)
      /\ Len(Tail(wire)) = Len(wire) - 1
      /\ \A i \in 1 .. Len(Tail(wire)) : Tail(wire)[i] = wire[i + 1]
  BY <1>1, HeadTailProperties
<1>3. Len(wire) \in Nat /\ Len(Tail(wire)) \in Nat
  BY <1>1, <1>2
<1>4. DOMAIN wire = 1 .. Len(wire) /\ DOMAIN Tail(wire) = 1 .. Len(Tail(wire))
  BY <1>1, <1>2
<1>5. Head(wire) = wire[1]
  BY <1>1
<1> QED
  BY <1>1, <1>2, <1>3, <1>4, <1>5, StatusPageAssumption

LEMMA EventFields ==
  ASSUME NEW event \in Event
  PROVE  /\ event.about \in {"monitor", "incident"}
         /\ event.about = "monitor" => event.status \in Statuses
         /\ event.about = "incident" => event.posted \in 0 .. MaxHappenings
BY DEF Event

LEMMA InitTyped ==
  ASSUME Init
  PROVE  Typed
<1>1. queries \in [Queries -> [view : Views, request : Requests, error : {"none", "failed", "refused"}]]
  BY Constants DEF Init
<1>2. wire \in Seq(Event) /\ Len(wire) <= MaxSent
  BY StatusPageAssumption DEF Init
<1>3. {published, private, session, fallback} \subseteq BOOLEAN
  BY DEF Init
<1> QED
  BY <1>1, <1>2, <1>3, StatusPageAssumption, Constants DEF Init, Typed, TypeOK, ChangesHappen, Statuses

\* The bounds of the counters leave room for one more happening.
LEMMA OneMore ==
  ASSUME Typed, Happens
  PROVE  /\ happenings' \in 0 .. MaxHappenings /\ happenings' = happenings + 1
         /\ posted + 1 \in 0 .. MaxHappenings /\ posted + 1 <= happenings'
BY StatusPageAssumption DEF Typed, TypeOK, ChangesHappen, Happens

LEMMA ServerTyped ==
  ASSUME Typed, Server
  PROVE  Typed'
<1> USE DEF Typed, monitor, connection, viewer
<1>1. CASE Observe
  <2>1. PICK found \in Statuses :
          status' = found /\ wire' = Sent([about |-> "monitor", status |-> found])
    BY <1>1 DEF Observe
  <2>2. [about |-> "monitor", status |-> found] \in Event
    BY DEF Event
  <2>3. wire' \in Seq(Event) /\ Len(wire') <= MaxSent
    BY <1>1, <2>1, <2>2, SentType DEF Observe
  <2> QED
    BY <1>1, <2>1, <2>3, OneMore DEF Observe, TypeOK, ChangesHappen
<1>2. CASE ChangeIncident
  <2>1. [about |-> "incident", posted |-> posted'] \in Event
    BY <1>2, OneMore DEF ChangeIncident, Event
  <2>2. wire' \in Seq(Event) /\ Len(wire') <= MaxSent
    BY <1>2, <2>1, SentType DEF ChangeIncident
  <2>3. cache' \in Views
    BY <1>2, Constants DEF ChangeIncident, CacheAfterChange
  <2> QED
    BY <1>2, <2>2, <2>3, OneMore DEF ChangeIncident, TypeOK, ChangesHappen
<1>3. CASE DeleteIncident
  BY <1>3, OneMore DEF DeleteIncident, TypeOK, ChangesHappen
<1>4. CASE SaveLayout
  <2>1. published' \in BOOLEAN
    BY <1>4 DEF SaveLayout
  <2> QED
    BY <1>4, <2>1, OneMore DEF SaveLayout, TypeOK, ChangesHappen
<1>5. CASE SaveAccess
  <2>1. private' \in BOOLEAN
    BY <1>5 DEF SaveAccess
  <2>2. link' \in Live \cup {"none", "cut"}
    BY <1>5 DEF SaveAccess, StreamAfterSave, TypeOK
  <2> QED
    BY <1>5, <2>1, <2>2, OneMore DEF SaveAccess, TypeOK, ChangesHappen
<1>6. CASE SignOut \/ SessionExpires
  <2>1. link' \in Live \cup {"none", "cut"}
    BY <1>6 DEF SignOut, SessionExpires, TypeOK
  <2>2. session' \in BOOLEAN
    BY <1>6 DEF SignOut, SessionExpires
  <2> QED
    BY <1>6, <2>1, <2>2, OneMore DEF SignOut, SessionExpires, TypeOK, ChangesHappen
<1>7. CASE CacheExpires \/ KeepAlive
  BY <1>7, Constants DEF CacheExpires, KeepAlive, TypeOK, ChangesHappen
<1>8. CASE VisitorAsks
  BY <1>8, CurrentType DEF VisitorAsks, TypeOK, ChangesHappen, Queries
<1> QED
  BY <1>1, <1>2, <1>3, <1>4, <1>5, <1>6, <1>7, <1>8 DEF Server

\* The steps of the stream that change none of the queries.
StreamStep ==
  Connect \/ Accept \/ Opened \/ Refuse \/ Notice \/ Drop

LEMMA StreamTyped ==
  ASSUME Typed, StreamStep
  PROVE  Typed'
<1> USE DEF Typed, monitor, connection, viewer
<1>1. << >> \in Seq(Event) /\ Len(<< >>) <= MaxSent
  BY StatusPageAssumption
<1>2. CASE Connect \/ Accept \/ Opened
  BY <1>1, <1>2 DEF Connect, Accept, Opened, TypeOK, ChangesHappen, Live
<1>3. CASE Refuse \/ Notice
  <2>1. happenings' \in 0 .. MaxHappenings /\ posted <= happenings'
    BY <1>3, OneMore DEF Refuse, Notice, TypeOK, ChangesHappen
  <2>2. GoesDown
    BY <1>3 DEF Refuse, Notice
  <2> QED
    BY <1>1, <2>1, <2>2 DEF GoesDown, TypeOK, ChangesHappen
<1>4. CASE Drop
  BY <1>4, OneMore, Constants DEF Drop, TypeOK, ChangesHappen
<1> QED
  BY <1>2, <1>3, <1>4 DEF StreamStep

-----------------------------------------------------------------------------
(* The queries.                                                            *)

\* Some queries are asked again and the others stay as they are.
SomeAsked ==
  /\ queries' \in [Queries -> QueryStates]
  /\ \A q \in Queries : queries'[q] \in {queries[q], Asking(q)}

LEMMA NoneAsked ==
  ASSUME TypeOK, UNCHANGED queries
  PROVE  SomeAsked
BY DEF SomeAsked, TypeOK, QueryStates

LEMMA OneAsked ==
  ASSUME TypeOK, NEW q \in Queries, queries' = [queries EXCEPT ![q] = Asking(q)]
  PROVE  SomeAsked
<1>1. Asking(q) \in QueryStates /\ queries \in [Queries -> QueryStates]
  BY AskingType DEF TypeOK, QueryStates
<1> QED
  BY <1>1 DEF SomeAsked

LEMMA InvalidatedAsked ==
  ASSUME TypeOK, queries' = Invalidated
  PROVE  SomeAsked
BY QueryFields, AskingType DEF SomeAsked, Invalidated

LEMMA MountedAsked ==
  ASSUME TypeOK, MountPage
  PROVE  SomeAsked
<1>1. PICK fresh \in SUBSET Queries :
        queries' = [q \in Queries |->
                      IF q \in fresh \/ queries[q].request # Idle THEN queries[q] ELSE Asking(q)]
  BY DEF MountPage
<1> QED
  BY <1>1, QueryFields, AskingType DEF SomeAsked

\* The steps of the viewer that ask again at most.
PollingStep == Poll \/ IntervalElapses \/ Focus

LEMMA PollingAsks ==
  ASSUME TypeOK, PollingStep
  PROVE  SomeAsked
BY OneAsked, InvalidatedAsked DEF PollingStep, Poll, IntervalElapses, Intervals, Queries, Focus

LEMMA PollingTyped ==
  ASSUME Typed, PollingStep
  PROVE  Typed'
<1>1. queries' \in [Queries -> QueryStates]
  BY PollingAsks DEF Typed, SomeAsked
<1>2. happenings' \in 0 .. MaxHappenings /\ posted <= happenings'
  BY OneMore DEF PollingStep, Poll, IntervalElapses, Focus, Typed, TypeOK, ChangesHappen
<1>3. UNCHANGED <<status, published, posted, private, cache, session, link, wire, stream, live, fallback,
                  screen, access, heard>>
  BY DEF PollingStep, Poll, IntervalElapses, Focus, monitor, connection
<1> QED
  BY <1>1, <1>2, <1>3 DEF Typed, TypeOK, ChangesHappen, QueryStates

LEMMA DeliverTyped ==
  ASSUME Typed, Deliver
  PROVE  Typed'
<1>1. Head(wire) \in Event /\ wire' \in Seq(Event) /\ Len(wire') <= MaxSent
  BY DeliveredType DEF Deliver, Typed
<1>2. live' \in Statuses \cup {"unknown"}
  BY <1>1, EventFields DEF Deliver, Typed, TypeOK
<1>3. queries' \in [Queries -> QueryStates]
  BY InvalidatedAsked, NoneAsked DEF Deliver, Typed, SomeAsked
<1>4. heard' \in [Queries -> 0 .. MaxHappenings]
  BY <1>1, EventFields DEF Deliver, Typed, TypeOK
<1>5. UNCHANGED <<status, published, posted, private, cache, session, link, stream, fallback,
                  screen, access, happenings>>
  BY DEF Deliver, monitor
<1> QED
  BY <1>1, <1>2, <1>3, <1>4, <1>5 DEF Typed, TypeOK, ChangesHappen, QueryStates

\* The steps that sign in, show the page or the sign-in screen, or neither.
ScreenStep == SignIn \/ AccessAnswered \/ AccessFails

LEMMA ScreenAsks ==
  ASSUME TypeOK, ScreenStep
  PROVE  SomeAsked
BY MountedAsked, NoneAsked DEF ScreenStep, SignIn, AccessAnswered, UnmountPage, AccessFails

LEMMA ScreenTyped ==
  ASSUME Typed, ScreenStep
  PROVE  Typed'
<1>1. queries' \in [Queries -> QueryStates]
  BY ScreenAsks DEF Typed, SomeAsked
<1>2. happenings' \in 0 .. MaxHappenings /\ posted <= happenings'
  BY OneMore DEF ScreenStep, SignIn, AccessAnswered, AccessFails, Typed, TypeOK, ChangesHappen
<1>3. session' \in BOOLEAN /\ access' \in {"idle", "asked"} /\ screen' \in {"blank", "page", "signin"}
  BY DEF ScreenStep, SignIn, AccessAnswered, AccessFails, MountPage, UnmountPage, Typed, TypeOK
<1>4. << >> \in Seq(Event) /\ Len(<< >>) <= MaxSent
  BY StatusPageAssumption
<1>5. /\ wire' \in {wire, << >>} /\ link' \in {link, "none"} /\ live' \in {live, "unknown"}
      /\ stream' \in {stream, "off", "connecting"} /\ fallback' \in {fallback, FALSE}
  BY DEF ScreenStep, SignIn, AccessAnswered, AccessFails, MountPage, UnmountPage, connection
<1>6. UNCHANGED <<status, published, posted, private, cache, heard>>
  BY DEF ScreenStep, SignIn, AccessAnswered, AccessFails, monitor
<1> QED
  BY <1>1, <1>2, <1>3, <1>4, <1>5, <1>6 DEF Typed, TypeOK, ChangesHappen, QueryStates

\* What an answer says, whether it comes from the cache or is read.
AnsweredView(q) == IF q = "status" /\ cache # Unknown THEN cache ELSE Current(q)

RequestStep(q) == Answer(q) \/ Receive(q) \/ ReceiveRefusal(q) \/ RequestFails(q)

LEMMA RequestTyped ==
  ASSUME Typed, NEW q \in Queries, RequestStep(q)
  PROVE  Typed'
<1> USE DEF Typed
<1>1. queries[q] \in QueryStates /\ queries \in [Queries -> QueryStates]
  BY QueryFields DEF TypeOK, QueryStates
<1>2. AnsweredView(q) \in Views
  BY CurrentType DEF AnsweredView, TypeOK
<1>3. queries' \in [Queries -> QueryStates]
  <2>1. CASE Answer(q)
    <3>1. [at |-> "answered", view |-> AnsweredView(q)] \in Requests
      BY <1>2 DEF Requests
    <3>2. PICK request \in Requests : queries' = [queries EXCEPT ![q].request = request]
      BY <2>1, <3>1, Constants DEF Answer, AnsweredView
    <3> QED
      BY <1>1, <3>2 DEF QueryStates
  <2>2. CASE Receive(q)
    <3>1. queries[q].request.view \in Views
      BY <2>2, QueryFields, RequestFields DEF Receive
    <3>2. [view |-> queries[q].request.view, request |-> Idle, error |-> "none"] \in QueryStates
      BY <3>1, Constants DEF QueryStates
    <3> QED
      BY <1>1, <2>2, <3>2 DEF Receive
  <2>3. CASE ReceiveRefusal(q) \/ RequestFails(q)
    BY <1>1, <2>3, Constants DEF ReceiveRefusal, RequestFails, QueryStates
  <2> QED
    BY <2>1, <2>2, <2>3 DEF RequestStep
<1>4. cache' \in Views
  BY <1>2 DEF RequestStep, Answer, AnsweredView, Receive, ReceiveRefusal, RequestFails, TypeOK
<1>5. happenings' \in 0 .. MaxHappenings /\ posted <= happenings'
  BY OneMore DEF RequestStep, Answer, Receive, ReceiveRefusal, RequestFails, TypeOK, ChangesHappen
<1>6. access' \in {"idle", "asked"}
  BY DEF RequestStep, Answer, Receive, ReceiveRefusal, AccessAfterRefusal, RequestFails, TypeOK
<1>7. UNCHANGED <<status, published, posted, private, session, link, wire, stream, live, fallback,
                  screen, heard>>
  BY DEF RequestStep, Answer, Receive, ReceiveRefusal, RequestFails, monitor, connection
<1> QED
  BY <1>3, <1>4, <1>5, <1>6, <1>7 DEF TypeOK, ChangesHappen, QueryStates

-----------------------------------------------------------------------------
(* Every step is one of these.                                             *)

LEMMA Steps ==
  ASSUME [Next]_vars
  PROVE  \/ Server \/ StreamStep \/ Deliver \/ PollingStep \/ ScreenStep
         \/ \E q \in Queries : RequestStep(q)
         \/ UNCHANGED vars
BY DEF Next, Viewer, StreamStep, PollingStep, ScreenStep, RequestStep

LEMMA NextTyped ==
  ASSUME Typed, [Next]_vars
  PROVE  Typed'
<1>1. CASE UNCHANGED vars
  BY <1>1 DEF vars, monitor, connection, viewer, Typed, TypeOK, ChangesHappen
<1> QED
  BY <1>1, Steps, ServerTyped, StreamTyped, DeliverTyped, PollingTyped, ScreenTyped, RequestTyped

-----------------------------------------------------------------------------
(* What was heard is not hidden.                                           *)

\* Steps after which nothing is newer or further ahead than before: no change
\* happens, nothing is heard, the wire and the cache keep what they have or
\* lose it, and queries are asked again at most.
Quiet ==
  /\ UNCHANGED <<posted, heard>>
  /\ wire' \in {wire, << >>}
  /\ cache' \in {cache, Unknown}
  /\ SomeAsked

LEMMA QuietRefetching ==
  ASSUME Typed, Refetching, Quiet
  PROVE  Refetching'
<1>1. NothingAhead' /\ CacheIsNotBehind'
  BY DEF Quiet, Refetching, NothingAhead, CacheIsNotBehind
<1>2. ASSUME NEW q \in Queries
      PROVE  queries'[q] = queries[q] \/ queries'[q].request = Asked
  BY AskingType DEF Quiet, SomeAsked, Typed
<1>3. AnswersNotBehind'
  BY <1>2, Constants DEF Quiet, Refetching, AnswersNotBehind
<1>4. ChangeRefetched'
  BY <1>2, Constants DEF Quiet, Refetching, ChangeRefetched, Loaded
<1> QED
  BY <1>1, <1>3, <1>4 DEF Refetching

LEMMA ServerRefetching ==
  ASSUME Typed, Refetching, Server
  PROVE  Refetching'
<1> USE DEF monitor, connection, viewer
<1>1. CASE Observe
  <2>1. PICK found \in Statuses : wire' = Sent([about |-> "monitor", status |-> found])
    BY <1>1 DEF Observe
  <2>2. [about |-> "monitor", status |-> found] \in Event
    BY DEF Event
  <2>3. \A i \in DOMAIN wire' : wire'[i].about = "incident" => i \in DOMAIN wire /\ wire'[i] = wire[i]
    BY <1>1, <2>1, <2>2, SentType DEF Observe, Typed
  <2>4. UNCHANGED <<posted, heard, cache, queries>>
    BY <1>1 DEF Observe
  <2> QED
    BY <2>3, <2>4 DEF Refetching, NothingAhead, CacheIsNotBehind, AnswersNotBehind, ChangeRefetched, Loaded
<1>2. CASE ChangeIncident
  <2>1. posted' = posted + 1 /\ posted \in Nat /\ heard \in [Queries -> Nat]
    BY <1>2 DEF ChangeIncident, Typed, TypeOK
  <2>2. [about |-> "incident", posted |-> posted'] \in Event
    BY <1>2, OneMore DEF ChangeIncident, Event
  <2>3. \A i \in DOMAIN wire' :
          wire'[i].posted = posted' \/ (i \in DOMAIN wire /\ wire'[i] = wire[i])
    BY <1>2, <2>2, SentType DEF ChangeIncident, Typed
  <2>4. \A i \in DOMAIN wire : wire[i].about = "incident" => wire[i].posted \in Nat
    BY EventFields DEF Typed, TypeOK
  <2>5. cache' = Unknown /\ UNCHANGED <<heard, queries>>
    BY <1>2 DEF ChangeIncident, CacheAfterChange
  <2>6. NothingAhead'
    <3>1. ASSUME NEW i \in DOMAIN wire', wire'[i].about = "incident"
          PROVE  wire'[i].posted <= posted'
      BY <2>1, <2>3, <2>4, <3>1 DEF Refetching, NothingAhead
    <3> QED
      BY <2>1, <2>5, <3>1 DEF Refetching, NothingAhead
  <2> QED
    BY <2>5, <2>6 DEF Refetching, CacheIsNotBehind, AnswersNotBehind, ChangeRefetched, Loaded
<1>3. CASE DeleteIncident
  <2>1. posted' = posted + 1 /\ posted \in Nat /\ heard \in [Queries -> Nat]
    BY <1>3 DEF DeleteIncident, Typed, TypeOK
  <2>2. \A i \in DOMAIN wire : wire[i].about = "incident" => wire[i].posted \in Nat
    BY EventFields DEF Typed, TypeOK
  <2>3. UNCHANGED <<wire, heard, cache, queries>>
    BY <1>3 DEF DeleteIncident
  <2> QED
    BY <2>1, <2>2, <2>3
    DEF Refetching, NothingAhead, CacheIsNotBehind, AnswersNotBehind, ChangeRefetched, Loaded
<1>4. CASE VisitorAsks
  <2>1. cache'.posted = posted
    BY <1>4, CurrentType DEF VisitorAsks, Queries
  <2>2. UNCHANGED <<posted, wire, heard, queries>>
    BY <1>4 DEF VisitorAsks
  <2> QED
    BY <2>1, <2>2 DEF Refetching, NothingAhead, CacheIsNotBehind, AnswersNotBehind, ChangeRefetched, Loaded
<1>5. CASE SaveLayout \/ SaveAccess \/ CacheExpires \/ SignOut \/ SessionExpires \/ KeepAlive
  <2>1. /\ UNCHANGED <<posted, heard, wire, queries>>
        /\ cache' \in {cache, Unknown}
    BY <1>5 DEF SaveLayout, SaveAccess, CacheExpires, SignOut, SessionExpires, KeepAlive
  <2> QED
    BY <2>1, NoneAsked, QuietRefetching DEF Quiet, Typed
<1> QED
  BY <1>1, <1>2, <1>3, <1>4, <1>5 DEF Server

LEMMA StreamRefetching ==
  ASSUME Typed, Refetching, StreamStep
  PROVE  Refetching'
<1>1. /\ UNCHANGED <<posted, heard, queries>>
      /\ wire' \in {wire, << >>} /\ cache' \in {cache, Unknown}
  BY DEF StreamStep, Connect, Accept, Opened, Refuse, Notice, GoesDown, Drop, viewer
<1> QED
  BY <1>1, NoneAsked, QuietRefetching DEF Quiet, Typed

LEMMA ViewerRefetching ==
  ASSUME Typed, Refetching, PollingStep \/ ScreenStep
  PROVE  Refetching'
<1>1. CASE PollingStep
  <2>1. UNCHANGED <<posted, heard, wire, cache>>
    BY <1>1 DEF PollingStep, Poll, IntervalElapses, Focus, connection
  <2> QED
    BY <1>1, <2>1, PollingAsks, QuietRefetching DEF Quiet, Typed
<1>2. CASE ScreenStep
  <2>1. /\ UNCHANGED <<posted, heard, cache>>
        /\ wire' \in {wire, << >>}
    BY <1>2 DEF ScreenStep, SignIn, AccessAnswered, AccessFails, MountPage, UnmountPage, connection
  <2> QED
    BY <1>2, <2>1, ScreenAsks, QuietRefetching DEF Quiet, Typed
<1> QED
  BY <1>1, <1>2

\* An event that arrives is no newer than the cache, and what was on its way
\* before is asked again.
LEMMA DeliverRefetching ==
  ASSUME Typed, Refetching, Deliver
  PROVE  Refetching'
<1>1. /\ Head(wire) \in Event /\ 1 \in DOMAIN wire /\ Head(wire) = wire[1]
      /\ \A i \in DOMAIN wire' : i + 1 \in DOMAIN wire /\ wire'[i] = wire[i + 1]
  BY DeliveredType DEF Deliver, Typed
<1>2. UNCHANGED <<posted, cache>>
  BY DEF Deliver
<1>3. \A i \in DOMAIN wire' : wire'[i].about = "incident" =>
        wire'[i].posted <= posted /\ (cache # Unknown => wire'[i].posted <= cache.posted)
  BY <1>1 DEF Refetching, NothingAhead, CacheIsNotBehind
<1>4. CASE Head(wire).about = "monitor" /\ UNCHANGED <<queries, heard>>
  BY <1>2, <1>3, <1>4
  DEF Refetching, NothingAhead, CacheIsNotBehind, AnswersNotBehind, ChangeRefetched, Loaded
<1>5. CASE /\ Head(wire).about = "incident"
           /\ queries' = Invalidated
           /\ heard' = [q \in Queries |-> IF Loaded(q) THEN Head(wire).posted ELSE heard[q]]
  <2>1. Head(wire).posted <= posted /\ (cache # Unknown => Head(wire).posted <= cache.posted)
    BY <1>1, <1>5 DEF Refetching, NothingAhead, CacheIsNotBehind
  <2>2. NothingAhead' /\ CacheIsNotBehind'
    BY <1>2, <1>3, <1>5, <2>1 DEF Refetching, NothingAhead, CacheIsNotBehind
  <2>3. ASSUME NEW q \in Queries
        PROVE  \/ ~Loaded(q) /\ heard'[q] = heard[q] /\ queries'[q] = queries[q]
               \/ queries'[q].request = Asked
    BY <1>5, AskingType DEF Invalidated, Joins, Typed
  <2>4. AnswersNotBehind' /\ ChangeRefetched'
    BY <2>3, Constants DEF Refetching, AnswersNotBehind, ChangeRefetched, Loaded
  <2> QED
    BY <2>2, <2>4 DEF Refetching
<1> QED
  BY <1>4, <1>5 DEF Deliver

\* An answer knows what the cache and the server know; a query that was
\* refused or that failed has an error.
LEMMA RequestRefetching ==
  ASSUME Typed, Refetching, NEW q \in Queries, RequestStep(q)
  PROVE  Refetching'
<1>1. UNCHANGED <<posted, heard, wire>> /\ \A p \in Queries \ {q} : queries'[p] = queries[p]
  BY DEF RequestStep, Answer, Receive, ReceiveRefusal, RequestFails, connection, Typed, TypeOK
<1>2. queries[q] \in QueryStates /\ queries \in [Queries -> QueryStates]
  BY QueryFields DEF TypeOK, QueryStates, Typed
<1>3. CASE Answer(q)
  <2>1. AnsweredView(q).posted = posted \/ (cache # Unknown /\ AnsweredView(q) = cache)
    BY CurrentType DEF AnsweredView
  <2>2. \A p \in Queries : heard[p] <= AnsweredView(q).posted
    BY <2>1 DEF Refetching, NothingAhead, CacheIsNotBehind
  <2>3. queries'[q].request \in {[at |-> "answered", view |-> AnsweredView(q)], Refused}
    BY <1>2, <1>3 DEF Answer, AnsweredView, QueryStates
  <2>4. cache' = cache \/ (q = "status" /\ cache' = AnsweredView(q))
    BY <1>3 DEF Answer, AnsweredView
  <2>5. CacheIsNotBehind'
    <3>1. CASE cache' = AnsweredView(q)
      BY <1>1, <2>1, <2>2, <3>1 DEF Refetching, NothingAhead, CacheIsNotBehind
    <3> QED
      BY <1>1, <2>4, <3>1 DEF Refetching, CacheIsNotBehind
  <2>6. AnswersNotBehind' /\ ChangeRefetched'
    BY <1>1, <2>2, <2>3, Constants DEF Refetching, AnswersNotBehind, ChangeRefetched, Loaded, Idle
  <2> QED
    BY <1>1, <2>5, <2>6 DEF Refetching, NothingAhead
<1>4. CASE Receive(q)
  <2>1. queries'[q] = [view |-> queries[q].request.view, request |-> Idle, error |-> "none"]
    BY <1>2, <1>4 DEF Receive
  <2>2. heard[q] <= queries'[q].view.posted /\ queries'[q].request = Idle
    BY <1>4, <2>1 DEF Receive, Refetching, AnswersNotBehind
  <2> QED
    BY <1>1, <1>4, <2>2, Constants
    DEF Receive, Refetching, NothingAhead, CacheIsNotBehind, AnswersNotBehind, ChangeRefetched, Loaded
<1>5. CASE ReceiveRefusal(q) \/ RequestFails(q)
  <2>1. queries'[q].request = Idle /\ queries'[q].error # "none"
    BY <1>2, <1>5 DEF ReceiveRefusal, RequestFails, QueryStates
  <2>2. cache' = cache
    BY <1>5 DEF ReceiveRefusal, RequestFails
  <2> QED
    BY <1>1, <2>1, <2>2, Constants
    DEF Refetching, NothingAhead, CacheIsNotBehind, AnswersNotBehind, ChangeRefetched, Loaded
<1> QED
  BY <1>3, <1>4, <1>5 DEF RequestStep

LEMMA NextRefetching ==
  ASSUME Typed, Refetching, [Next]_vars
  PROVE  Refetching'
<1>1. CASE UNCHANGED vars
  <2>1. UNCHANGED <<posted, heard, wire, cache, queries>>
    BY <1>1 DEF vars, connection, viewer
  <2> QED
    BY <2>1, NoneAsked, QuietRefetching DEF Quiet, Typed
<1> QED
  BY <1>1, Steps, ServerRefetching, StreamRefetching, DeliverRefetching, ViewerRefetching, RequestRefetching

-----------------------------------------------------------------------------
(* Streams.                                                                *)

LEMMA NextAnonymous ==
  ASSUME TypeOK, AnonymousIsCut, [Next]_vars
  PROVE  AnonymousIsCut'
<1> USE DEF monitor, connection, viewer, AnonymousIsCut
<1>1. CASE Server
  <2>1. CASE SaveAccess
    BY <2>1 DEF SaveAccess, StreamAfterSave
  <2>2. CASE Observe \/ ChangeIncident \/ DeleteIncident \/ SaveLayout \/ CacheExpires \/ VisitorAsks
    BY <2>2 DEF Observe, ChangeIncident, DeleteIncident, SaveLayout, CacheExpires, VisitorAsks
  <2>3. CASE SignOut \/ SessionExpires \/ KeepAlive
    BY <2>3 DEF SignOut, SessionExpires, KeepAlive
  <2> QED
    BY <1>1, <2>1, <2>2, <2>3 DEF Server
<1>2. CASE StreamStep
  <2>1. CASE Accept
    BY <2>1 DEF Accept
  <2>2. CASE Connect \/ Opened \/ Refuse \/ Notice \/ Drop
    BY <2>2 DEF Connect, Opened, Refuse, Notice, GoesDown, Drop
  <2> QED
    BY <1>2, <2>1, <2>2 DEF StreamStep
<1>3. CASE Deliver \/ PollingStep
  BY <1>3 DEF Deliver, PollingStep, Poll, IntervalElapses, Focus
<1>4. CASE ScreenStep
  BY <1>4 DEF ScreenStep, SignIn, AccessAnswered, AccessFails, MountPage, UnmountPage
<1>5. ASSUME NEW q \in Queries, RequestStep(q)
      PROVE  AnonymousIsCut'
  BY <1>5 DEF RequestStep, Answer, Receive, ReceiveRefusal, RequestFails
<1>6. CASE UNCHANGED vars
  BY <1>6 DEF vars
<1> QED
  BY <1>1, <1>2, <1>3, <1>4, <1>5, <1>6, Steps

\* A page that is shown anew had no stream before; one that goes away ends it.
LEMMA NextStreamFits ==
  ASSUME TypeOK, StreamFitsPage, [Next]_vars
  PROVE  StreamFitsPage'
<1> USE DEF monitor, connection, viewer, StreamFitsPage
<1>1. CASE Server
  <2>1. CASE Observe \/ ChangeIncident
    <3>1. wire' = wire \/ link \in Live
      BY <2>1 DEF Observe, ChangeIncident, Sent
    <3> QED
      BY <2>1, <3>1 DEF Observe, ChangeIncident, Live
  <2>2. CASE DeleteIncident \/ SaveLayout \/ CacheExpires \/ VisitorAsks \/ SessionExpires
    BY <2>2 DEF DeleteIncident, SaveLayout, CacheExpires, VisitorAsks, SessionExpires
  <2>3. CASE SaveAccess \/ SignOut \/ KeepAlive
    BY <2>3 DEF SaveAccess, StreamAfterSave, SignOut, KeepAlive, Live
  <2> QED
    BY <1>1, <2>1, <2>2, <2>3 DEF Server
<1>2. CASE StreamStep
  <2>1. CASE Connect \/ Accept \/ Opened
    BY <2>1 DEF Connect, Accept, Opened, Live
  <2>2. CASE Refuse \/ Notice
    <3>1. GoesDown /\ stream # "off"
      BY <2>2 DEF Refuse, Notice
    <3> QED
      BY <3>1 DEF GoesDown
  <2>3. CASE Drop
    BY <2>3 DEF Drop, Live
  <2> QED
    BY <1>2, <2>1, <2>2, <2>3 DEF StreamStep
<1>3. CASE Deliver \/ PollingStep
  BY <1>3 DEF Deliver, PollingStep, Poll, IntervalElapses, Focus
<1>4. CASE ScreenStep
  BY <1>4 DEF ScreenStep, SignIn, AccessAnswered, AccessFails, MountPage, UnmountPage
<1>5. ASSUME NEW q \in Queries, RequestStep(q)
      PROVE  StreamFitsPage'
  BY <1>5 DEF RequestStep, Answer, Receive, ReceiveRefusal, RequestFails
<1>6. CASE UNCHANGED vars
  BY <1>6 DEF vars
<1> QED
  BY <1>1, <1>2, <1>3, <1>4, <1>5, <1>6, Steps

-----------------------------------------------------------------------------
(* Theorems.                                                               *)

LEMMA InitInvariant ==
  ASSUME Init
  PROVE  IInv /\ StreamFitsPage
<1>1. Refetching
  BY DEF Init, Refetching, NothingAhead, CacheIsNotBehind, AnswersNotBehind, ChangeRefetched, Loaded,
         Unknown, Idle
<1> QED
  BY <1>1, InitTyped DEF IInv, Init, AnonymousIsCut, StreamFitsPage

LEMMA Invariance == Spec => [](IInv /\ StreamFitsPage)
<1>1. IInv /\ StreamFitsPage /\ [Next]_vars => (IInv /\ StreamFitsPage)'
  BY NextTyped, NextRefetching, NextAnonymous, NextStreamFits DEF IInv, Typed
<1> QED
  BY InitInvariant, <1>1, PTL DEF Spec

\* Every variable keeps its type; the wire never holds more than MaxSent events.
THEOREM Typing == Spec => []TypeOK
BY Invariance, PTL DEF IInv, Typed

\* However changes, answers, expiries of the cache and lost connections
\* interleave, a query that rests without an error shows every change that an
\* event asked it to fetch.
THEOREM Refetched == Spec => []ChangeRefetched
BY Invariance, PTL DEF IInv, Refetching

\* No stream that was opened without a session is left on a private page.
THEOREM AnonymousStreamsEnd == Spec => []AnonymousIsCut
BY Invariance, PTL DEF IInv

\* The status of a stream is shown only while it is open, and whoever has lost
\* it polls.
THEOREM StreamAndFallback == Spec => []StreamFitsPage
BY Invariance, PTL
===============================================================================
