------------------------- MODULE CodeDiscovery_proofs --------------------------
(***************************************************************************)
(* What holds of discovery for any files, code, requests, and number of      *)
(* saves, faults and restarts: the code a request runs is fresh, but for the  *)
(* exceptions the code makes, a search finds what stayed as it was, and the   *)
(* answer of an endpoint call is the status of its execution row.            *)
(***************************************************************************)
EXTENDS CodeDiscovery, TLAPS

Phases == {"new", "loading", "running", "queued", "starting", "refused", "listed", "absent",
           "done", "killed", "returned", "raised", "Success", "Failed", "error"}
Statuses == {"none", "Running", "Success", "Failed"}
Entry == [code: Code, stamp: Nat]
Histories == [Files -> Seq(Entry)]
Load == [on: Requests \cup {Nobody}, places: {<<Home, Platform>>, <<Platform>>, <<>>},
         todo: SUBSET Files, file: Files \cup {Nobody}, read: Nat]
Request == [phase: Phases, since: [Files -> Nat], till: [Files -> Nat],
            file: Files \cup {Nobody}, main: Nat, got: SUBSET Got, listed: SUBSET Def]

\* A file's versions have stamps that never go back.
OKHistory(h) ==
    /\ h \in Histories
    /\ \A f \in Files :
          /\ Len(h[f]) \in Nat \ {0}
          /\ \A i, j \in 1..Len(h[f]) : i <= j => h[f][i].stamp <= h[f][j].stamp

\* Caches of versions that there are.
OKCache(h, c) ==
    /\ c \in Cache
    /\ \A f \in Files : c.pyc[f] <= Len(h[f])
    /\ c.imported <= Len(h[Helper]) /\ c.member <= Len(h[Helper])

TypeInv ==
    /\ setting \in Settings /\ OKHistory(text) /\ OKCache(text, cache)
    /\ job \in Load
    /\ req \in [Requests -> Request]
    /\ row \in [Requests -> Statuses]

\* A history that goes on from another.
GrownFrom(h, old) ==
    \A f \in Files : Len(h[f]) >= Len(old[f]) /\ \A v \in 1..Len(old[f]) : h[f][v] = old[f][v]

Heads(h) == [f \in Files |-> Len(h[f])]
Window(h, since, till) == \A f \in Files : since[f] \in 1..till[f] /\ till[f] <= Len(h[f])

\* Recent and Stayed, for any history and window, where k are the files whose .pyc could not be
\* deleted; and what a search finds in a file that stayed.
RecentIn(h, k, f, v, s) == v >= s \/ (f \in k /\ h[f][v].stamp = h[f][s].stamp)
StayedIn(h, k, since, till, f) ==
    LET code == h[f][till[f]].code IN
    /\ since[f] = till[f] /\ f \notin k /\ code.fine
    /\ code.helper # "none" => /\ since[Helper] = till[Helper] /\ Helper \notin k
                               /\ h[Helper][till[Helper]].code.fine
    /\ code.internal # "none" => f \in Platform /\ code.internal = "shared"
DueIn(h, k, since, till, task, f) ==
    IF StayedIn(h, k, since, till, f) THEN Matches(task, h[f][till[f]].code) ELSE {}

\* What is due has been listed, or there was nothing to find.
Given(task, due, listed) ==
    /\ task.op = "list" => {d \in due : d.sound} \subseteq listed
    /\ task.op # "list" => due = {}

\* What is listed was defined in the window.
Defined(h, k, since, till, listed) ==
    \A d \in listed : \E f \in Files : \E v \in 1..till[f] :
        RecentIn(h, k, f, v, since[f]) /\ d \in h[f][v].code.defs

\* What a request got by imports of the Helper is recent, where n says that the Helper's
\* directory has no __init__.py.
OKGot(h, k, n, since, got) ==
    \A g \in got :
        /\ g.version \in 1..Len(h[Helper])
        /\ (n => g.style = "module") => RecentIn(h, k, Helper, g.version, since[Helper])

\* A request q for task: when its load has ended, it was given what was due, and what it runs
\* is fresh.
Found(h, k, n, task, q) ==
    /\ q.main \in 1..q.till[q.file] /\ RecentIn(h, k, q.file, q.main, q.since[q.file])
    /\ OKGot(h, k, n, q.since, q.got)
    /\ \A f \in Files : Earlier(f, q.file) => DueIn(h, k, q.since, q.till, task, f) = {}
RequestOK(h, k, n, task, q) ==
    /\ \A f \in Files : q.since[f] <= Len(h[f])
    /\ q.phase \in {"new", "loading"} => q.file = Nobody /\ q.got = {}
    /\ q.phase = "new" => q.listed = {}
    /\ q.phase \in {"listed", "absent"} \/ q.file # Nobody => Window(h, q.since, q.till)
    /\ q.phase = "listed" => task.op = "list" /\ Defined(h, k, q.since, q.till, q.listed)
    /\ q.phase = "absent" => task.op # "list"
    /\ q.phase \in {"listed", "absent"} =>
          \A f \in Files : Given(task, DueIn(h, k, q.since, q.till, task, f), q.listed)
    /\ q.file # Nobody => Found(h, k, n, task, q)

\* A file the load j will still come to, or is at.
Ahead(j, f) ==
    \/ f = j.file \/ f \in j.todo
    \/ j.places = <<Home, Platform>>
    \/ j.places = <<Platform>> /\ f \in Platform

\* The load j of a request q for task: what is no longer ahead of it was given.
LoadOK(h, k, j, task, q) ==
    /\ q.phase = "loading" /\ task.op # "validate"
    /\ Window(h, q.since, Heads(h))
    /\ j.places = <<Home, Platform>> => j.todo = {} /\ j.file = Nobody
    /\ j.places = <<Platform>> => j.todo \subseteq Home /\ j.file \notin Platform
    /\ j.places = <<>> => j.todo \subseteq Platform /\ j.file \notin Home
    /\ \A f \in Files : Ahead(j, f) \/
          Given(task, DueIn(h, k, q.since, Heads(h), task, f), q.listed)
    /\ Defined(h, k, q.since, Heads(h), q.listed)

\* What is cached, or was read by the load in progress, is no older than a window, but for what
\* is in a .pyc that could not be deleted or came from there, and for the member that a directory
\* without __init__.py keeps.
Fits(h, k, n, c, since) ==
    /\ \A f \in Files : c.pyc[f] # 0 => c.pyc[f] >= since[f] \/ f \in k
    /\ c.imported # 0 => RecentIn(h, k, Helper, c.imported, since[Helper])
    /\ c.member # 0 => n \/ RecentIn(h, k, Helper, c.member, since[Helper])

CacheInv ==
    /\ \A r \in Requests : Fits(text, kept, setting.namespace, cache, req[r].since)
    /\ job.file # Nobody =>
          /\ job.read \in 1..Version(job.file)
          /\ \A r \in Requests : RecentIn(text, kept, job.file, job.read, req[r].since[job.file])
LoadInv ==
    /\ job.on = Nobody => job = Idle
    /\ job.on # Nobody => LoadOK(text, kept, job, TaskOf(job.on), req[job.on])
RequestsInv ==
    \A r \in Requests :
        /\ RequestOK(text, kept, setting.namespace, TaskOf(r), req[r])
        /\ req[r].phase = "loading" => job.on = r
DiscoveryInv == TypeInv /\ CacheInv /\ LoadInv /\ RequestsInv

-----------------------------------------------------------------------------
(* What holds of a request goes on to hold while files are saved, and while   *)
(* more .pyc files resist deletion: constant-level lemmas about histories,    *)
(* windows and searches.                                                    *)

LEMMA EntryType ==
    ASSUME NEW h, OKHistory(h), NEW f \in Files, NEW v \in 1..Len(h[f])
    PROVE  h[f][v] \in Entry /\ h[f][v].code \in Code
  <1>1. h[f] \in Seq(Entry)
    BY DEF OKHistory, Histories
  <1>2. h[f][v] \in Entry
    BY <1>1
  <1> QED
    BY <1>2 DEF Entry

\* A version of a longer history is the version it was.
LEMMA VersionKept ==
    ASSUME NEW h, NEW h2, GrownFrom(h2, h), NEW f \in Files, NEW v \in 1..Len(h[f])
    PROVE  h2[f][v] = h[f][v]
  BY DEF GrownFrom

LEMMA WindowKept ==
    ASSUME NEW h, NEW h2, OKHistory(h), OKHistory(h2), GrownFrom(h2, h), NEW since, NEW till,
           till \in [Files -> Nat], Window(h, since, till)
    PROVE  Window(h2, since, till)
  BY DEF GrownFrom, Window, OKHistory

LEMMA RecentKept ==
    ASSUME NEW h, NEW h2, OKHistory(h), GrownFrom(h2, h), NEW k, NEW k2, k \subseteq k2,
           NEW f \in Files, NEW v \in 1..Len(h[f]), NEW s \in Nat, s <= Len(h[f]),
           RecentIn(h, k, f, v, s)
    PROVE  RecentIn(h2, k2, f, v, s)
  <1> Len(h[f]) \in Nat
    BY DEF OKHistory
  <1> USE DEF RecentIn
  <1>1. CASE v >= s
    BY <1>1
  <1>2. CASE ~(v >= s)
    <2>1. s \in 1..Len(h[f])
      BY <1>2
    <2>2. h2[f][v] = h[f][v] /\ h2[f][s] = h[f][s]
      BY <2>1, VersionKept
    <2> QED
      BY <1>2, <2>2
  <1> QED
    BY <1>1, <1>2

\* What is due in a window does not depend on what was saved since.
LEMMA DueKept ==
    ASSUME NEW h, NEW h2, OKHistory(h), GrownFrom(h2, h), NEW k, NEW k2, k \subseteq k2,
           NEW since, NEW till, till \in [Files -> Nat], Window(h, since, till), NEW task,
           NEW f \in Files
    PROVE  DueIn(h2, k2, since, till, task, f) \subseteq DueIn(h, k, since, till, task, f)
  <1>1. till[f] \in 1..Len(h[f]) /\ till[Helper] \in 1..Len(h[Helper])
    BY DiscoveryAssumption DEF Window, OKHistory, Files
  <1>2. h2[f][till[f]] = h[f][till[f]] /\ h2[Helper][till[Helper]] = h[Helper][till[Helper]]
    BY <1>1, VersionKept, DiscoveryAssumption DEF Files
  <1>3. StayedIn(h2, k2, since, till, f) => StayedIn(h, k, since, till, f)
    BY <1>2 DEF StayedIn
  <1> QED
    BY <1>2, <1>3 DEF DueIn

\* And what is due up to now gets less.
LEMMA DueShrinks ==
    ASSUME NEW h, NEW h2, OKHistory(h), OKHistory(h2), GrownFrom(h2, h), NEW k, NEW k2,
           k \subseteq k2, NEW since, Window(h, since, Heads(h)), NEW task, NEW f \in Files
    PROVE  DueIn(h2, k2, since, Heads(h2), task, f) \subseteq DueIn(h, k, since, Heads(h), task, f)
  <1>1. /\ Helper \in Files
        /\ since[f] \in 1..Len(h[f]) /\ since[Helper] \in 1..Len(h[Helper])
        /\ Len(h[f]) \in Nat \ {0} /\ Len(h[Helper]) \in Nat \ {0}
        /\ Len(h2[f]) \in Nat /\ Len(h2[f]) >= Len(h[f])
        /\ Len(h2[Helper]) \in Nat /\ Len(h2[Helper]) >= Len(h[Helper])
    BY DiscoveryAssumption DEF Window, OKHistory, Files, GrownFrom, Heads
  <1>2. /\ Heads(h)[f] = Len(h[f]) /\ Heads(h)[Helper] = Len(h[Helper])
        /\ Heads(h2)[f] = Len(h2[f]) /\ Heads(h2)[Helper] = Len(h2[Helper])
    BY <1>1 DEF Heads
  <1> SUFFICES ASSUME StayedIn(h2, k2, since, Heads(h2), f)
               PROVE  DueIn(h2, k2, since, Heads(h2), task, f) = DueIn(h, k, since, Heads(h), task, f)
    BY DEF DueIn
  <1>3. since[f] = Len(h2[f]) /\ Len(h2[f]) = Len(h[f])
    BY <1>1, <1>2 DEF StayedIn
  <1>4. h2[f][Len(h[f])] = h[f][Len(h[f])]
    BY <1>1, VersionKept
  <1>5. h[f][Len(h[f])].code.helper # "none" =>
           Len(h2[Helper]) = Len(h[Helper]) /\ since[Helper] = Len(h[Helper])
    BY <1>1, <1>2, <1>3, <1>4 DEF StayedIn
  <1>6. h2[Helper][Len(h[Helper])] = h[Helper][Len(h[Helper])]
    BY <1>1, VersionKept
  <1>7. StayedIn(h, k, since, Heads(h), f)
    BY <1>1, <1>2, <1>3, <1>4, <1>5, <1>6 DEF StayedIn
  <1> QED
    BY <1>2, <1>3, <1>4, <1>7 DEF DueIn

LEMMA GivenLess ==
    ASSUME NEW task, NEW due, NEW less, less \subseteq due, NEW listed, NEW more,
           listed \subseteq more, Given(task, due, listed)
    PROVE  Given(task, less, more)
  BY DEF Given

LEMMA DefinedKept ==
    ASSUME NEW h, NEW h2, OKHistory(h), OKHistory(h2), GrownFrom(h2, h), NEW k, NEW k2,
           k \subseteq k2, NEW since \in [Files -> Nat], NEW till, NEW later, NEW listed,
           Window(h, since, till), till \in [Files -> Nat], later \in [Files -> Nat],
           \A f \in Files : till[f] <= later[f], Defined(h, k, since, till, listed)
    PROVE  Defined(h2, k2, since, later, listed)
  <1> SUFFICES ASSUME NEW d \in listed
               PROVE  \E f \in Files : \E v \in 1..later[f] :
                         RecentIn(h2, k2, f, v, since[f]) /\ d \in h2[f][v].code.defs
    BY DEF Defined
  <1>1. PICK f \in Files : \E v \in 1..till[f] :
           RecentIn(h, k, f, v, since[f]) /\ d \in h[f][v].code.defs
    BY DEF Defined
  <1>2. PICK v \in 1..till[f] : RecentIn(h, k, f, v, since[f]) /\ d \in h[f][v].code.defs
    BY <1>1
  <1>3. v \in 1..Len(h[f]) /\ v \in 1..later[f] /\ since[f] \in Nat /\ since[f] <= Len(h[f])
    BY DEF Window, OKHistory
  <1>4. d \in h2[f][v].code.defs
    BY <1>2, <1>3, VersionKept
  <1>5. RecentIn(h2, k2, f, v, since[f])
    BY <1>2, <1>3, RecentKept
  <1> QED
    BY <1>3, <1>4, <1>5

LEMMA GotKept ==
    ASSUME NEW h, NEW h2, OKHistory(h), OKHistory(h2), GrownFrom(h2, h), NEW k, NEW k2,
           k \subseteq k2, NEW n, NEW since \in [Files -> Nat],
           \A f \in Files : since[f] <= Len(h[f]), NEW got, OKGot(h, k, n, since, got)
    PROVE  OKGot(h2, k2, n, since, got)
  <1> SUFFICES ASSUME NEW g \in got
               PROVE  /\ g.version \in 1..Len(h2[Helper])
                      /\ (n => g.style = "module") =>
                            RecentIn(h2, k2, Helper, g.version, since[Helper])
    BY DEF OKGot
  <1>1. /\ g.version \in 1..Len(h[Helper])
        /\ (n => g.style = "module") => RecentIn(h, k, Helper, g.version, since[Helper])
    BY DEF OKGot
  <1>2. Helper \in Files /\ since[Helper] \in Nat /\ since[Helper] <= Len(h[Helper])
    BY DiscoveryAssumption DEF Files
  <1>3. Len(h[Helper]) \in Nat /\ Len(h2[Helper]) \in Nat /\ Len(h2[Helper]) >= Len(h[Helper])
    BY <1>2 DEF OKHistory, GrownFrom
  <1>4. (n => g.style = "module") => RecentIn(h2, k2, Helper, g.version, since[Helper])
    BY <1>1, <1>2, RecentKept
  <1> QED
    BY <1>1, <1>3, <1>4

LEMMA RequestGrown ==
    ASSUME NEW h, NEW h2, OKHistory(h), OKHistory(h2), GrownFrom(h2, h), NEW k, NEW k2,
           k \subseteq k2, NEW n, NEW task, NEW q \in Request, RequestOK(h, k, n, task, q)
    PROVE  RequestOK(h2, k2, n, task, q)
  <1>1. q.since \in [Files -> Nat] /\ q.till \in [Files -> Nat]
    BY DEF Request
  <1>2. \A f \in Files : q.since[f] <= Len(h2[f])
    BY <1>1 DEF RequestOK, GrownFrom, OKHistory
  <1>3. CASE q.phase \in {"listed", "absent"} \/ q.file # Nobody
    <2>1. Window(h, q.since, q.till)
      BY <1>3 DEF RequestOK
    <2>2. Window(h2, q.since, q.till)
      BY <2>1, <1>1, WindowKept
    <2>3. \A f \in Files : DueIn(h2, k2, q.since, q.till, task, f)
                              \subseteq DueIn(h, k, q.since, q.till, task, f)
      BY <2>1, <1>1, DueKept
    <2>4. Defined(h, k, q.since, q.till, q.listed) => Defined(h2, k2, q.since, q.till, q.listed)
      <3>1. \A f \in Files : q.till[f] <= q.till[f]
        BY <1>1
      <3> QED
        BY <2>1, <1>1, <3>1, DefinedKept
    <2>5. ASSUME q.file # Nobody, Found(h, k, n, task, q) PROVE Found(h2, k2, n, task, q)
      <3>1. q.file \in Files
        BY <2>5 DEF Request
      <3>2. q.main \in 1..Len(h[q.file]) /\ q.since[q.file] <= Len(h[q.file])
        BY <2>1, <2>5, <1>1, <3>1 DEF Found, Window, OKHistory
      <3>3. RecentIn(h2, k2, q.file, q.main, q.since[q.file])
        BY <1>1, <2>5, <3>1, <3>2, RecentKept DEF Found
      <3>4. OKGot(h2, k2, n, q.since, q.got)
        BY <1>1, <2>5, GotKept DEF Found, RequestOK
      <3> QED
        BY <2>3, <2>5, <3>3, <3>4 DEF Found
    <2>6. ASSUME NEW f \in Files, q.phase \in {"listed", "absent"}
          PROVE  Given(task, DueIn(h2, k2, q.since, q.till, task, f), q.listed)
      BY <2>3, <2>6, GivenLess DEF RequestOK
    <2> QED
      BY <1>2, <2>2, <2>4, <2>5, <2>6 DEF RequestOK
  <1>4. CASE ~(q.phase \in {"listed", "absent"} \/ q.file # Nobody)
    BY <1>2, <1>4 DEF RequestOK
  <1> QED
    BY <1>3, <1>4

\* A request moves on with what it has; a late import of the helper adds to it.
LEMMA RequestMoved ==
    ASSUME NEW h, NEW k, NEW n, NEW task, NEW q \in Request, RequestOK(h, k, n, task, q), NEW p,
           NEW more, q.phase \notin {"listed", "absent"},
           p \notin {"new", "loading", "listed", "absent"}, OKGot(h, k, n, q.since, more)
    PROVE  RequestOK(h, k, n, task, [q EXCEPT !.phase = p, !.got = @ \cup more])
  <1> DEFINE q2 == [q EXCEPT !.phase = p, !.got = @ \cup more]
  <1>1. /\ q2.phase = p /\ q2.got = q.got \cup more /\ q2.since = q.since /\ q2.till = q.till
        /\ q2.file = q.file /\ q2.main = q.main /\ q2.listed = q.listed
    BY DEF Request
  <1> SUFFICES RequestOK(h, k, n, task, q2)
    OBVIOUS
  <1> HIDE DEF q2
  <1>2. Found(h, k, n, task, q) => Found(h, k, n, task, q2)
    BY <1>1 DEF Found, OKGot
  <1> QED
    BY <1>1, <1>2 DEF RequestOK

\* A load in progress stands meanwhile.
LEMMA LoadGrown ==
    ASSUME NEW h, NEW h2, OKHistory(h), OKHistory(h2), GrownFrom(h2, h), NEW k, NEW k2,
           k \subseteq k2, NEW j, NEW task, NEW q \in Request, LoadOK(h, k, j, task, q)
    PROVE  LoadOK(h2, k2, j, task, q)
  <1>1. q.since \in [Files -> Nat] /\ Window(h, q.since, Heads(h))
    BY DEF Request, LoadOK
  <1>2. Heads(h) \in [Files -> Nat] /\ Heads(h2) \in [Files -> Nat]
    BY DEF Heads, OKHistory
  <1>3. \A f \in Files : Heads(h)[f] = Len(h[f]) /\ Heads(h2)[f] = Len(h2[f])
                         /\ Heads(h)[f] <= Heads(h2)[f]
    BY DEF Heads, GrownFrom
  <1>4. Window(h2, q.since, Heads(h2))
    BY <1>1, <1>3, <1>2 DEF Window, OKHistory
  <1>5. Defined(h2, k2, q.since, Heads(h2), q.listed)
    BY <1>1, <1>2, <1>3, DefinedKept DEF LoadOK
  <1>6. ASSUME NEW f \in Files, ~Ahead(j, f)
        PROVE  Given(task, DueIn(h2, k2, q.since, Heads(h2), task, f), q.listed)
    <2>1. Given(task, DueIn(h, k, q.since, Heads(h), task, f), q.listed)
      BY <1>6 DEF LoadOK
    <2>2. DueIn(h2, k2, q.since, Heads(h2), task, f) \subseteq DueIn(h, k, q.since, Heads(h), task, f)
      BY <1>1, DueShrinks
    <2> QED
      BY <2>1, <2>2, GivenLess
  <1> QED
    BY <1>4, <1>5, <1>6 DEF LoadOK

LEMMA SameHistory ==
    ASSUME NEW h, OKHistory(h)
    PROVE  GrownFrom(h, h)
  BY DEF GrownFrom, OKHistory

-----------------------------------------------------------------------------
(* Loads: what each step of a search does to what is ahead of it and to what *)
(* its request was given.                                                   *)

\* A file that is not on disk, or that cannot be imported now, owes nothing.
LEMMA NothingDue ==
    ASSUME NEW h, NEW k, NEW since, NEW till, NEW task, NEW f, ~h[f][till[f]].code.fine
    PROVE  DueIn(h, k, since, till, task, f) = {}
  BY DEF DueIn, StayedIn

LEMMA NothingGiven ==
    ASSUME NEW task, NEW listed
    PROVE  Given(task, {}, listed)
  BY DEF Given

\* A load begins: everything is ahead of it.
LEMMA LoadBegins ==
    ASSUME NEW h, NEW k, OKHistory(h), NEW r, NEW task, task.op # "validate", NEW q \in Request,
           q.phase = "loading", q.since = Heads(h), q.listed = {}
    PROVE  LoadOK(h, k, [Idle EXCEPT !.on = r, !.places = <<Home, Platform>>], task, q)
  <1> DEFINE j == [Idle EXCEPT !.on = r, !.places = <<Home, Platform>>]
  <1>1. j.places = <<Home, Platform>> /\ j.todo = {} /\ j.file = Nobody
    BY DEF Idle
  <1> SUFFICES LoadOK(h, k, j, task, q)
    OBVIOUS
  <1> HIDE DEF j
  <1>2. Window(h, q.since, Heads(h))
    BY DEF Window, Heads, OKHistory
  <1>3. Defined(h, k, q.since, Heads(h), q.listed)
    BY DEF Defined
  <1>4. <<Home, Platform>> # <<Platform>> /\ <<Home, Platform>> # <<>>
    OBVIOUS
  <1> QED
    BY <1>1, <1>2, <1>3, <1>4 DEF LoadOK, Ahead

\* A step of a load, which leaves the request or adds to its list: it is enough that it gave
\* what is no longer ahead, and that the directories stay in order.
LEMMA LoadStep ==
    ASSUME NEW h, NEW k, NEW j, NEW j2, NEW task, NEW q \in Request, LoadOK(h, k, j, task, q), NEW ds,
           j2.places = <<Home, Platform>> => j2.todo = {} /\ j2.file = Nobody,
           j2.places = <<Platform>> => j2.todo \subseteq Home /\ j2.file \notin Platform,
           j2.places = <<>> => j2.todo \subseteq Platform /\ j2.file \notin Home,
           \A f \in Files : Ahead(j, f) => Ahead(j2, f) \/
              Given(task, DueIn(h, k, q.since, Heads(h), task, f), q.listed \cup ds),
           Defined(h, k, q.since, Heads(h), ds)
    PROVE  LoadOK(h, k, j2, task, [q EXCEPT !.listed = @ \cup ds])
  <1> DEFINE q2 == [q EXCEPT !.listed = @ \cup ds]
  <1>1. q2.phase = q.phase /\ q2.since = q.since /\ q2.listed = q.listed \cup ds
    BY DEF Request
  <1> SUFFICES LoadOK(h, k, j2, task, q2)
    OBVIOUS
  <1> HIDE DEF q2
  <1>2. Defined(h, k, q.since, Heads(h), q2.listed)
    BY <1>1 DEF Defined, LoadOK
  <1>3. ASSUME NEW f \in Files, ~Ahead(j2, f)
        PROVE  Given(task, DueIn(h, k, q.since, Heads(h), task, f), q2.listed)
    <2>1. CASE Ahead(j, f)
      BY <1>1, <1>3, <2>1
    <2>2. CASE ~Ahead(j, f)
      <3>1. Given(task, DueIn(h, k, q.since, Heads(h), task, f), q.listed)
        BY <2>2 DEF LoadOK
      <3>2. q.listed \subseteq q2.listed
        BY <1>1
      <3> QED
        BY <3>1, <3>2, GivenLess
    <2> QED
      BY <2>1, <2>2
  <1> QED
    BY <1>1, <1>2, <1>3 DEF LoadOK

\* The same, for a step that leaves the request.
LEMMA LoadMoves ==
    ASSUME NEW h, NEW k, NEW j, NEW j2, NEW task, NEW q \in Request, LoadOK(h, k, j, task, q),
           j2.places = <<Home, Platform>> => j2.todo = {} /\ j2.file = Nobody,
           j2.places = <<Platform>> => j2.todo \subseteq Home /\ j2.file \notin Platform,
           j2.places = <<>> => j2.todo \subseteq Platform /\ j2.file \notin Home,
           \A f \in Files : Ahead(j, f) => Ahead(j2, f) \/
              DueIn(h, k, q.since, Heads(h), task, f) = {}
    PROVE  LoadOK(h, k, j2, task, q)
  <1>1. \A f \in Files : Ahead(j, f) => Ahead(j2, f) \/
           Given(task, DueIn(h, k, q.since, Heads(h), task, f), q.listed \cup {})
    BY NothingGiven
  <1>2. Defined(h, k, q.since, Heads(h), {})
    BY DEF Defined
  <1>3. LoadOK(h, k, j2, task, [q EXCEPT !.listed = @ \cup {}])
    BY <1>1, <1>2, LoadStep
  <1>4. [q EXCEPT !.listed = @ \cup {}] = q
    BY DEF Request
  <1> QED
    BY <1>3, <1>4

-----------------------------------------------------------------------------
(* Caches.                                                                  *)

LEMMA HelperVersions ==
    ASSUME OKHistory(text)
    PROVE  /\ Helper \in Files
           /\ Version(Helper) \in Nat \ {0} /\ Version(Helper) = Len(text[Helper])
           /\ \A f \in Files : Version(f) \in Nat \ {0} /\ Version(f) = Len(text[f])
  BY DiscoveryAssumption DEF OKHistory, Version, Files

\* What loading a file gives is recent: a .pyc that counts has the stamp of the last version, so
\* that all since are of that stamp.
LEMMA FromDiskIsRecent ==
    ASSUME OKHistory(text), NEW c, OKCache(text, c), NEW k, NEW n, NEW since \in [Files -> Nat],
           Fits(text, k, n, c, since), NEW f \in Files, since[f] <= Version(f)
    PROVE  /\ FromDisk(c, f) \in 1..Version(f)
           /\ RecentIn(text, k, f, FromDisk(c, f), since[f])
  <1>1. /\ Version(f) \in Nat \ {0} /\ Version(f) = Len(text[f]) /\ since[f] \in Nat
        /\ c.pyc[f] \in Nat /\ c.pyc[f] <= Version(f)
    BY HelperVersions DEF OKCache, Cache
  <1>2. CASE FromDisk(c, f) = Version(f)
    <2>1. FromDisk(c, f) >= since[f]
      BY <1>1, <1>2
    <2> QED
      BY <1>1, <1>2, <2>1 DEF RecentIn
  <1>3. CASE FromDisk(c, f) # Version(f)
    <2> DEFINE v == c.pyc[f]
               now == Version(f)
    <2>1. FromDisk(c, f) = v /\ v # 0 /\ text[f][v].stamp = text[f][now].stamp
      BY <1>3 DEF FromDisk
    <2>2. v \in 1..now
      BY <1>1, <2>1
    <2>3. v >= since[f] \/ f \in k
      BY <2>1 DEF Fits
    <2>4. ASSUME ~(v >= since[f])
          PROVE  text[f][v].stamp = text[f][since[f]].stamp
      <3>1. since[f] \in 1..now /\ now \in 1..now /\ v <= since[f]
        BY <1>1, <2>2, <2>4
      <3>2. /\ text[f][v].stamp <= text[f][since[f]].stamp
            /\ text[f][since[f]].stamp <= text[f][now].stamp
        BY <1>1, <2>2, <3>1 DEF OKHistory
      <3>3. text[f][v].stamp \in Nat /\ text[f][since[f]].stamp \in Nat
        BY <1>1, <2>2, <3>1, EntryType DEF Entry
      <3> HIDE DEF v, now
      <3> QED
        BY <2>1, <3>2, <3>3
    <2>5. v >= since[f] \/ (f \in k /\ text[f][v].stamp = text[f][since[f]].stamp)
      BY <2>3, <2>4
    <2>6. RecentIn(text, k, f, v, since[f])
      BY <2>5 DEF RecentIn
    <2> QED
      BY <2>1, <2>2, <2>6
  <1> QED
    BY <1>2, <1>3

\* What importing the Helper gives, and what it leaves in the caches.
LEMMA HelperIsRecent ==
    ASSUME OKHistory(text), NEW c, OKCache(text, c), NEW k, NEW n, NEW since \in [Files -> Nat],
           Fits(text, k, n, c, since), since[Helper] <= Version(Helper), NEW style \in Styles
    PROVE  /\ HelperFor(c, style) \in 1..Version(Helper)
           /\ (n => style = "module") =>
                 RecentIn(text, k, Helper, HelperFor(c, style), since[Helper])
  <1>1. /\ FromDisk(c, Helper) \in 1..Version(Helper)
        /\ RecentIn(text, k, Helper, FromDisk(c, Helper), since[Helper])
    BY HelperVersions, FromDiskIsRecent
  <1>2. /\ c.imported \in Nat /\ c.imported <= Version(Helper)
        /\ c.member \in Nat /\ c.member <= Version(Helper) /\ Version(Helper) \in Nat
    BY HelperVersions DEF OKCache, Cache
  <1>3. \/ HelperFor(c, style) = FromDisk(c, Helper)
        \/ HelperFor(c, style) = c.imported /\ c.imported # 0
        \/ HelperFor(c, style) = c.member /\ c.member # 0 /\ style = "member"
    BY DEF HelperFor, InMemory
  <1>4. "module" # "member"
    OBVIOUS
  <1>5. HelperFor(c, style) \in 1..Version(Helper)
    BY <1>1, <1>2, <1>3
  <1>6. (n => style = "module") => RecentIn(text, k, Helper, HelperFor(c, style), since[Helper])
    BY <1>1, <1>3, <1>4, Zenon DEF Fits
  <1> QED
    BY <1>5, <1>6

LEMMA WithHelperType ==
    ASSUME OKHistory(text), NEW c, OKCache(text, c), NEW style
    PROVE  OKCache(text, WithHelper(c, style))
  <1> DEFINE v == FromDisk(c, Helper)
             loaded == [pyc |-> [c.pyc EXCEPT ![Helper] = v], imported |-> v, member |-> v]
             tried == [c EXCEPT !.pyc[Helper] = v]
  <1>1. /\ c \in Cache /\ \A f \in Files : c.pyc[f] <= Len(text[f])
        /\ c.imported <= Len(text[Helper]) /\ c.member <= Len(text[Helper])
    BY DEF OKCache
  <1>2. v \in Nat /\ v <= Len(text[Helper])
    BY <1>1, HelperVersions DEF FromDisk, Cache
  <1>3. WithHelper(c, style) \in {c, loaded, tried}
    BY DEF WithHelper
  <1> HIDE DEF v
  <1>4. OKCache(text, loaded)
    BY <1>1, <1>2 DEF OKCache, Cache
  <1>5. OKCache(text, tried)
    <2>1. /\ tried.pyc = [c.pyc EXCEPT ![Helper] = v] /\ tried.imported = c.imported
          /\ tried.member = c.member /\ tried \in Cache
      BY <1>1, <1>2 DEF Cache
    <2> HIDE DEF tried
    <2> QED
      BY <1>1, <1>2, <2>1 DEF OKCache, Cache
  <1> QED
    BY <1>3, <1>4, <1>5

LEMMA WithHelperFits ==
    ASSUME OKHistory(text), NEW c, OKCache(text, c), NEW k, NEW n, NEW since \in [Files -> Nat],
           Fits(text, k, n, c, since), since[Helper] <= Version(Helper), NEW style
    PROVE  Fits(text, k, n, WithHelper(c, style), since)
  <1> DEFINE v == FromDisk(c, Helper)
             loaded == [pyc |-> [c.pyc EXCEPT ![Helper] = v], imported |-> v, member |-> v]
             tried == [c EXCEPT !.pyc[Helper] = v]
  <1>1. RecentIn(text, k, Helper, v, since[Helper])
    BY HelperVersions, FromDiskIsRecent
  <1>2. v >= since[Helper] \/ Helper \in k
    BY <1>1 DEF RecentIn
  <1>3. WithHelper(c, style) \in {c, loaded, tried}
    BY DEF WithHelper
  <1>4. c \in Cache
    BY DEF OKCache
  <1> HIDE DEF v
  <1>5. \A f \in Files : LET p == [c.pyc EXCEPT ![Helper] = v] IN
           p[f] # 0 => p[f] >= since[f] \/ f \in k
    BY <1>2, <1>4 DEF Fits, Cache
  <1>6. Fits(text, k, n, loaded, since)
    BY <1>1, <1>5 DEF Fits
  <1>7. Fits(text, k, n, tried, since)
    <2>1. /\ tried.pyc = [c.pyc EXCEPT ![Helper] = v] /\ tried.imported = c.imported
          /\ tried.member = c.member
      BY <1>4 DEF Cache
    <2> HIDE DEF tried
    <2> QED
      BY <1>5, <2>1 DEF Fits
  <1> QED
    BY <1>3, <1>6, <1>7

\* Running a file leaves caches that fit, if what was read of it does.
LEMMA RanType ==
    ASSUME OKHistory(text), NEW c, OKCache(text, c), NEW f \in Files \cup {Nobody}, NEW v, NEW code,
           f \in Files => v \in 1..Version(f)
    PROVE  OKCache(text, Ran(c, f, v, code))
  <1> DEFINE used == IF code.fine /\ code.helper # "none" THEN WithHelper(c, code.helper) ELSE c
             ran == [used EXCEPT !.pyc[f] = v,
                                 !.imported = IF f = Helper /\ code.fine THEN v ELSE @]
  <1>1. OKCache(text, used)
    BY WithHelperType
  <1>2. Ran(c, f, v, code) = IF f = Nobody THEN used ELSE ran
    BY DEF Ran
  <1> HIDE DEF used
  <1>3. ASSUME f # Nobody PROVE OKCache(text, ran)
    <2>1. f \in Files /\ v \in Nat /\ v <= Len(text[f]) /\ used \in Cache
      BY <1>1, <1>3, HelperVersions DEF OKCache
    <2>2. /\ ran \in Cache /\ ran.pyc = [used.pyc EXCEPT ![f] = v] /\ ran.member = used.member
          /\ ran.imported \in {v, used.imported} /\ (ran.imported # used.imported => f = Helper)
      BY <2>1 DEF Cache
    <2> HIDE DEF ran
    <2> QED
      BY <1>1, <2>1, <2>2 DEF OKCache, Cache
  <1> QED
    BY <1>1, <1>2, <1>3

LEMMA RanFits ==
    ASSUME OKHistory(text), NEW c, OKCache(text, c), NEW k, NEW n, NEW since \in [Files -> Nat],
           Fits(text, k, n, c, since), since[Helper] <= Version(Helper),
           NEW f \in Files \cup {Nobody}, NEW v, NEW code,
           f \in Files => v \in 1..Version(f) /\ RecentIn(text, k, f, v, since[f])
    PROVE  Fits(text, k, n, Ran(c, f, v, code), since)
  <1> DEFINE used == IF code.fine /\ code.helper # "none" THEN WithHelper(c, code.helper) ELSE c
             ran == [used EXCEPT !.pyc[f] = v,
                                 !.imported = IF f = Helper /\ code.fine THEN v ELSE @]
  <1>1. Fits(text, k, n, used, since) /\ OKCache(text, used)
    BY WithHelperType, WithHelperFits
  <1>2. Ran(c, f, v, code) = IF f = Nobody THEN used ELSE ran
    BY DEF Ran
  <1> HIDE DEF used
  <1>3. ASSUME f # Nobody PROVE Fits(text, k, n, ran, since)
    <2>1. f \in Files /\ v \in Nat /\ used \in Cache
      BY <1>1, <1>3, HelperVersions DEF OKCache
    <2>2. /\ ran.pyc = [used.pyc EXCEPT ![f] = v] /\ ran.member = used.member
          /\ (ran.imported = used.imported \/ (ran.imported = v /\ f = Helper))
      BY <2>1 DEF Cache
    <2>3. RecentIn(text, k, f, v, since[f]) /\ (v >= since[f] \/ f \in k)
      BY <2>1 DEF RecentIn
    <2>4. ASSUME NEW g \in Files, ran.pyc[g] # 0 PROVE ran.pyc[g] >= since[g] \/ g \in k
      <3>1. CASE g = f
        BY <2>1, <2>2, <2>3, <3>1 DEF Cache
      <3>2. CASE g # f
        BY <1>1, <2>1, <2>2, <2>4, <3>2 DEF Cache, Fits
      <3> QED BY <3>1, <3>2
    <2>5. ran.imported # 0 => RecentIn(text, k, Helper, ran.imported, since[Helper])
      BY <1>1, <2>2, <2>3 DEF Fits
    <2>6. ran.member # 0 => n \/ RecentIn(text, k, Helper, ran.member, since[Helper])
      BY <1>1, <2>2 DEF Fits
    <2> HIDE DEF ran
    <2> QED
      BY <2>4, <2>5, <2>6 DEF Fits
  <1> QED
    BY <1>1, <1>2, <1>3

\* Clearing leaves what fits every window, with what could not be deleted.
LEMMA ClearedFits ==
    ASSUME DiscoveryInv, NEW left, Keep(left), NEW since
    PROVE  /\ OKCache(text, Cleared(cache, left))
           /\ Fits(text, kept', setting.namespace, Cleared(cache, left), since)
           /\ kept \subseteq kept'
  <1> DEFINE c == Cleared(cache, left)
  <1>1. /\ cache \in Cache /\ \A f \in Files : cache.pyc[f] <= Len(text[f])
        /\ cache.imported <= Len(text[Helper]) /\ cache.member <= Len(text[Helper])
        /\ \A f \in Files : Len(text[f]) \in Nat /\ Helper \in Files
    BY DiscoveryAssumption DEF DiscoveryInv, TypeInv, OKCache, OKHistory, Files
  <1>2. /\ c.pyc = [f \in Files |-> IF f \in left THEN cache.pyc[f] ELSE 0]
        /\ c.imported = 0 /\ c.member = (IF setting.namespace THEN cache.member ELSE 0)
        /\ c \in Cache
    BY <1>1 DEF Cleared, Cache
  <1> HIDE DEF c
  <1>3. OKCache(text, c)
    BY <1>1, <1>2 DEF OKCache
  <1>4. \A f \in Files : c.pyc[f] # 0 => f \in kept'
    BY <1>1, <1>2 DEF Keep
  <1>5. Fits(text, kept', setting.namespace, c, since)
    BY <1>2, <1>4 DEF Fits
  <1> QED
    BY <1>3, <1>5 DEF c, Keep

\* What fits goes on to fit.
LEMMA FitsKept ==
    ASSUME NEW h, NEW h2, OKHistory(h), GrownFrom(h2, h), NEW k, NEW k2, k \subseteq k2, NEW n,
           NEW c, OKCache(h, c), NEW since \in [Files -> Nat],
           \A f \in Files : since[f] <= Len(h[f]), Fits(h, k, n, c, since)
    PROVE  Fits(h2, k2, n, c, since)
  <1>1. Helper \in Files /\ Len(h[Helper]) \in Nat /\ since[Helper] \in Nat
        /\ since[Helper] <= Len(h[Helper])
    BY DiscoveryAssumption DEF Files, OKHistory
  <1>2. c.imported # 0 => RecentIn(h2, k2, Helper, c.imported, since[Helper])
    <2>1. c.imported # 0 => c.imported \in 1..Len(h[Helper])
      BY <1>1 DEF OKCache, Cache
    <2> QED
      BY <1>1, <2>1, RecentKept DEF Fits
  <1>3. c.member # 0 => n \/ RecentIn(h2, k2, Helper, c.member, since[Helper])
    <2>1. c.member # 0 => c.member \in 1..Len(h[Helper])
      BY <1>1 DEF OKCache, Cache
    <2> QED
      BY <1>1, <2>1, RecentKept DEF Fits
  <1> QED
    BY <1>2, <1>3 DEF Fits

\* A file that stayed and has what is looked for can be imported.
LEMMA WhatStayedWorks ==
    ASSUME NEW since \in [Files -> Nat], Window(text, since, Versions), OKHistory(text),
           NEW c, OKCache(text, c), NEW n, Fits(text, kept, n, c, since), NEW task,
           NEW f \in Files, NEW v \in 1..Version(f), RecentIn(text, kept, f, v, since[f]),
           DueIn(text, kept, since, Versions, task, f) # {}
    PROVE  /\ Importable(c, f, CodeAt(f, v))
           /\ Matches(task, CodeAt(f, v)) = DueIn(text, kept, since, Versions, task, f)
  <1>1. StayedIn(text, kept, since, Versions, f)
    BY DEF DueIn
  <1>2. /\ Versions[f] = Version(f) /\ Versions[Helper] = Version(Helper) /\ Helper \in Files
        /\ Version(f) \in Nat /\ Version(Helper) \in Nat
        /\ since[f] \in 1..Version(f) /\ since[Helper] \in 1..Version(Helper)
    BY HelperVersions DEF Versions, Window
  <1>3. v = Version(f)
    <2>1. f \notin kept /\ since[f] = Version(f)
      BY <1>1, <1>2 DEF StayedIn
    <2>2. v >= since[f]
      BY <2>1 DEF RecentIn
    <2> QED
      BY <1>2, <2>1, <2>2
  <1>4. CodeAt(f, v) = text[f][Versions[f]].code
    BY <1>2, <1>3 DEF CodeAt
  <1>5. ASSUME CodeAt(f, v).helper # "none" PROVE HelperWorks(c, CodeAt(f, v).helper)
    <2>1. /\ since[Helper] = Version(Helper) /\ CodeAt(Helper, Version(Helper)).fine
          /\ Helper \notin kept
      BY <1>1, <1>2, <1>4, <1>5 DEF StayedIn, CodeAt
    <2>2. FromDisk(c, Helper) = Version(Helper)
      <3>1. c.pyc[Helper] \in Nat /\ c.pyc[Helper] <= Version(Helper)
        BY <1>2, HelperVersions DEF OKCache, Cache
      <3>2. c.pyc[Helper] # 0 => c.pyc[Helper] >= Version(Helper)
        BY <1>2, <2>1 DEF Fits
      <3>3. c.pyc[Helper] # 0 => c.pyc[Helper] = Version(Helper)
        BY <1>2, <3>1, <3>2
      <3> QED
        BY <3>3 DEF FromDisk
    <2>3. CodeAt(Helper, Version(Helper)) # Deleted
      BY <2>1 DEF Deleted
    <2> QED
      BY <2>1, <2>2, <2>3 DEF HelperWorks, OnDisk
  <1>6. Importable(c, f, CodeAt(f, v))
    BY <1>1, <1>4, <1>5 DEF StayedIn, Importable, Permitted
  <1> QED
    BY <1>1, <1>4, <1>6 DEF DueIn

\* What the load in progress reads.
LEMMA ReadIsFresh ==
    ASSUME DiscoveryInv, job.file # Nobody
    PROVE  /\ job.file \in Files /\ job.on \in Requests
           /\ job.read \in 1..Version(job.file) /\ Version(job.file) \in Nat
           /\ \A r \in Requests : RecentIn(text, kept, job.file, job.read, req[r].since[job.file])
           /\ CodeAt(job.file, job.read) \in Code
  <1>1. job.file \in Files /\ job.on \in Requests
    BY DEF DiscoveryInv, TypeInv, Load, LoadInv, Idle
  <1>2. /\ job.read \in 1..Version(job.file)
        /\ \A r \in Requests : RecentIn(text, kept, job.file, job.read, req[r].since[job.file])
    BY DEF DiscoveryInv, CacheInv
  <1>3. Version(job.file) \in Nat
    BY <1>1, HelperVersions DEF DiscoveryInv, TypeInv
  <1>4. text[job.file][job.read].code \in Code
    BY <1>1, <1>2, EntryType DEF DiscoveryInv, TypeInv, Version
  <1> QED
    BY <1>1, <1>2, <1>3, <1>4 DEF CodeAt

\* The window of a request has begun, if it has one.
LEMMA Sinces ==
    ASSUME DiscoveryInv, NEW r \in Requests
    PROVE  /\ req[r].since \in [Files -> Nat]
           /\ \A f \in Files : req[r].since[f] <= Version(f) /\ req[r].since[f] <= Len(text[f])
           /\ req[r].since[Helper] <= Version(Helper)
           /\ Fits(text, kept, setting.namespace, cache, req[r].since)
  BY HelperVersions DEF DiscoveryInv, TypeInv, Request, RequestsInv, RequestOK, CacheInv, Version

LEMMA Apart ==
    /\ Home \cap Platform = {} /\ Nobody \notin Home /\ Nobody \notin Platform
    /\ Nobody \notin Requests /\ Nobody \notin Files
  BY DiscoveryAssumption DEF Files

-----------------------------------------------------------------------------
(* Steps.                                                                  *)

\* Saving goes on with the history of a file.
LEMMA SaveGrows ==
    ASSUME DiscoveryInv, SaveFile
    PROVE  OKHistory(text') /\ GrownFrom(text', text)
  <1>1. PICK f \in Files, code \in {s[2] : s \in setting.saves} \cup {Deleted} :
           \E stamp \in {text[f][Version(f)].stamp + 1} \cup
                        (IF setting.hasty THEN {text[f][Version(f)].stamp} ELSE {}) :
              Save(f, code, stamp)
    BY DEF SaveFile
  <1>2. PICK stamp \in {text[f][Version(f)].stamp + 1, text[f][Version(f)].stamp} :
           Save(f, code, stamp)
    BY <1>1
  <1>3. text[f] \in Seq(Entry) /\ Version(f) \in Nat \ {0} /\ Version(f) = Len(text[f])
    BY DEF DiscoveryInv, TypeInv, OKHistory, Histories, Version
  <1>4. text[f][Version(f)] \in Entry
    BY <1>3, EntryType DEF DiscoveryInv, TypeInv, Version
  <1>5. stamp \in Nat /\ text[f][Version(f)].stamp \in Nat /\ text[f][Version(f)].stamp <= stamp
    BY <1>4 DEF Entry
  <1>6. code \in Code
    <2>1. Deleted \in Code
      BY DEF Deleted, Code
    <2>2. setting.saves \subseteq Files \X Code
      BY DiscoveryAssumption DEF DiscoveryInv, TypeInv
    <2> QED
      BY <2>1, <2>2
  <1> DEFINE new == [code |-> code, stamp |-> stamp]
  <1>7. new \in Entry /\ new.stamp = stamp
    BY <1>5, <1>6 DEF Entry
  <1>8. text' = [text EXCEPT ![f] = Append(text[f], new)]
    BY <1>2 DEF Save
  <1> HIDE DEF new
  <1>9. /\ Append(text[f], new) \in Seq(Entry)
        /\ Len(Append(text[f], new)) = Len(text[f]) + 1
        /\ \A v \in 1..Len(text[f]) : Append(text[f], new)[v] = text[f][v]
        /\ Append(text[f], new)[Len(text[f]) + 1] = new
    BY <1>3, <1>7
  <1>10. text \in [Files -> Seq(Entry)] /\ \A g \in Files : Len(text[g]) \in Nat \ {0}
    BY DEF DiscoveryInv, TypeInv, OKHistory, Histories
  <1>11. text'[f] = Append(text[f], new) /\ \A g \in Files \ {f} : text'[g] = text[g]
    BY <1>8, <1>10
  <1>12. text' \in [Files -> Seq(Entry)]
    BY <1>8, <1>9, <1>10
  <1>13. \A g \in Files : Len(text'[g]) \in Nat \ {0} /\ Len(text'[g]) >= Len(text[g])
    <2>1. Len(text'[f]) = Len(text[f]) + 1
      BY <1>9, <1>11
    <2>2. \A g \in Files \ {f} : Len(text'[g]) = Len(text[g])
      BY <1>11
    <2> QED
      BY <2>1, <2>2, <1>10
  <1>14. \A g \in Files : \A v \in 1..Len(text[g]) : text'[g][v] = text[g][v]
    BY <1>9, <1>11
  <1>15. ASSUME NEW g \in Files, NEW i \in 1..Len(text'[g]), NEW j \in 1..Len(text'[g]), i <= j
         PROVE  text'[g][i].stamp <= text'[g][j].stamp
    <2>1. CASE j \in 1..Len(text[g])
      <3>1. i \in 1..Len(text[g])
        BY <2>1, <1>10, <1>13, <1>15
      <3>2. text[g][i].stamp <= text[g][j].stamp
        BY <1>15, <2>1, <3>1 DEF DiscoveryInv, TypeInv, OKHistory
      <3> QED
        BY <2>1, <3>1, <3>2, <1>14
    <2>2. CASE j \notin 1..Len(text[g])
      <3>1. g = f /\ j = Len(text[f]) + 1
        BY <2>2, <1>9, <1>10, <1>11
      <3>2. text'[g][j].stamp = stamp
        BY <3>1, <1>7, <1>9, <1>11
      <3>3. CASE i = j
        BY <3>2, <3>3, <1>5
      <3>4. CASE i # j
        <4>1. i \in 1..Len(text[f]) /\ Len(text[f]) \in 1..Len(text[f]) /\ i <= Len(text[f])
          BY <3>1, <3>4, <1>3, <1>9, <1>11, <1>15
        <4>2. text[f][i].stamp <= text[f][Len(text[f])].stamp
          BY <4>1 DEF DiscoveryInv, TypeInv, OKHistory
        <4>3. text[f][i].stamp \in Nat
          BY <4>1, EntryType DEF DiscoveryInv, TypeInv, Entry
        <4>4. text'[g][i].stamp = text[f][i].stamp
          BY <3>1, <4>1, <1>14
        <4> QED
          BY <4>2, <4>3, <4>4, <3>2, <1>3, <1>5
      <3> QED
        BY <3>3, <3>4
    <2> QED
      BY <2>1, <2>2
  <1> QED
    BY <1>12, <1>13, <1>14, <1>15 DEF OKHistory, Histories, GrownFrom

LEMMA SaveFileStep ==
    ASSUME DiscoveryInv, SaveFile
    PROVE  DiscoveryInv'
  <1>1. OKHistory(text) /\ OKHistory(text') /\ GrownFrom(text', text) /\ kept \subseteq kept
    BY SaveGrows DEF DiscoveryInv, TypeInv
  <1>2. UNCHANGED <<setting, cache, kept, internals, job, req, row>>
    BY DEF SaveFile
  <1>3. \A f \in Files : Len(text[f]) \in Nat /\ Len(text'[f]) \in Nat /\ Len(text'[f]) >= Len(text[f])
    BY <1>1 DEF GrownFrom, OKHistory
  <1>4. TypeInv'
    <2>1. Helper \in Files
      BY DiscoveryAssumption DEF Files
    <2>2. OKCache(text', cache)
      BY <1>3, <2>1 DEF DiscoveryInv, TypeInv, OKCache, Cache
    <2> QED
      BY <1>1, <1>2, <2>2 DEF DiscoveryInv, TypeInv
  <1>5. CacheInv'
    <2>1. ASSUME NEW r \in Requests
          PROVE  Fits(text', kept, setting.namespace, cache, req[r].since)
      BY <1>1, Sinces, FitsKept DEF DiscoveryInv, TypeInv
    <2>2. ASSUME job.file # Nobody
          PROVE  /\ job.read \in 1..Len(text'[job.file])
                 /\ \A r \in Requests :
                       RecentIn(text', kept, job.file, job.read, req[r].since[job.file])
      <3>1. /\ job.file \in Files /\ job.read \in 1..Len(text[job.file])
            /\ \A r \in Requests :
                  RecentIn(text, kept, job.file, job.read, req[r].since[job.file])
        BY <2>2, ReadIsFresh DEF Version
      <3>2. ASSUME NEW r \in Requests
            PROVE  RecentIn(text', kept, job.file, job.read, req[r].since[job.file])
        <4>1. req[r].since[job.file] \in Nat /\ req[r].since[job.file] <= Len(text[job.file])
          BY <3>1, Sinces
        <4> QED
          BY <1>1, <3>1, <4>1, RecentKept
      <3> QED
        BY <3>1, <3>2, <1>3
    <2> QED
      BY <1>2, <2>1, <2>2 DEF CacheInv, Version
  <1>6. LoadInv'
    <2>1. ASSUME job.on # Nobody
          PROVE  LoadOK(text', kept, job, TaskOf(job.on), req[job.on])
      <3>1. job.on \in Requests /\ req[job.on] \in Request
        BY <2>1 DEF DiscoveryInv, TypeInv, Load
      <3>2. LoadOK(text, kept, job, TaskOf(job.on), req[job.on])
        BY <2>1 DEF DiscoveryInv, LoadInv
      <3> QED
        BY <3>1, <3>2, <1>1, LoadGrown
    <2> QED
      BY <1>2, <2>1 DEF DiscoveryInv, LoadInv, TaskOf
  <1>7. RequestsInv'
    <2>1. ASSUME NEW r \in Requests
          PROVE  RequestOK(text', kept, setting.namespace, TaskOf(r), req[r])
      <3>1. req[r] \in Request /\ RequestOK(text, kept, setting.namespace, TaskOf(r), req[r])
        BY DEF DiscoveryInv, TypeInv, RequestsInv
      <3> QED
        BY <3>1, <1>1, RequestGrown
    <2> QED
      BY <1>2, <2>1 DEF DiscoveryInv, RequestsInv, TaskOf
  <1> QED
    BY <1>4, <1>5, <1>6, <1>7 DEF DiscoveryInv

\* A request moves on without a search: its phase changes, and perhaps what it got by importing
\* the helper late.
Moved(k, q, q2) ==
    /\ q.phase \notin {"listed", "absent"}
    /\ \E p \in Phases \ {"new", "loading", "listed", "absent"}, more \in SUBSET Got :
          /\ OKGot(text, k, setting.namespace, q.since, more)
          /\ q2 = [q EXCEPT !.phase = p, !.got = @ \cup more]

LEMMA MovesOn ==
    ASSUME NEW k, NEW q \in Request, NEW p \in Phases \ {"new", "loading", "listed", "absent"},
           q.phase \notin {"listed", "absent"}
    PROVE  Moved(k, q, [q EXCEPT !.phase = p])
  <1>1. [q EXCEPT !.phase = p] = [q EXCEPT !.phase = p, !.got = @ \cup {}]
    BY DEF Request
  <1>2. OKGot(text, k, setting.namespace, q.since, {}) /\ {} \in SUBSET Got
    BY DEF OKGot
  <1> QED
    BY <1>1, <1>2 DEF Moved

LEMMA MovedKeeps ==
    ASSUME NEW k, NEW task, NEW q \in Request, NEW q2, Moved(k, q, q2),
           RequestOK(text, k, setting.namespace, task, q)
    PROVE  /\ q2.since = q.since /\ q2.phase # "loading" /\ q2 \in Request
           /\ RequestOK(text, k, setting.namespace, task, q2)
  <1>1. PICK p \in Phases \ {"new", "loading", "listed", "absent"}, more \in SUBSET Got :
           /\ OKGot(text, k, setting.namespace, q.since, more)
           /\ q2 = [q EXCEPT !.phase = p, !.got = @ \cup more]
    BY DEF Moved
  <1>2. q2.since = q.since /\ q2.phase = p /\ q2 \in Request
    BY <1>1 DEF Request
  <1>3. RequestOK(text, k, setting.namespace, task, q2)
    BY <1>1, RequestMoved DEF Moved
  <1> QED
    BY <1>2, <1>3

\* What requests were given, and what a load has read, lasts when more .pyc files resist.
LEMMA KeptMore ==
    ASSUME DiscoveryInv, kept \subseteq kept'
    PROVE  /\ \A r \in Requests : RequestOK(text, kept', setting.namespace, TaskOf(r), req[r])
           /\ job.on # Nobody => LoadOK(text, kept', job, TaskOf(job.on), req[job.on])
           /\ job.file # Nobody => \A r \in Requests :
                 RecentIn(text, kept', job.file, job.read, req[r].since[job.file])
  <1>1. OKHistory(text) /\ GrownFrom(text, text)
    BY SameHistory DEF DiscoveryInv, TypeInv
  <1>2. ASSUME NEW r \in Requests
        PROVE  RequestOK(text, kept', setting.namespace, TaskOf(r), req[r])
    <2>1. req[r] \in Request /\ RequestOK(text, kept, setting.namespace, TaskOf(r), req[r])
      BY DEF DiscoveryInv, TypeInv, RequestsInv
    <2> QED
      BY <1>1, <2>1, RequestGrown
  <1>3. ASSUME job.on # Nobody
        PROVE  LoadOK(text, kept', job, TaskOf(job.on), req[job.on])
    <2>1. /\ job.on \in Requests /\ req[job.on] \in Request
          /\ LoadOK(text, kept, job, TaskOf(job.on), req[job.on])
      BY <1>3 DEF DiscoveryInv, TypeInv, Load, LoadInv
    <2> QED
      BY <1>1, <2>1, LoadGrown
  <1>4. ASSUME job.file # Nobody, NEW r \in Requests
        PROVE  RecentIn(text, kept', job.file, job.read, req[r].since[job.file])
    BY <1>4, ReadIsFresh DEF RecentIn
  <1> QED
    BY <1>2, <1>3, <1>4

\* Such steps keep the invariant, if they leave caches that fit and the load in progress alone
\* or end it.
LEMMA MovesStep ==
    ASSUME DiscoveryInv, UNCHANGED <<setting, text>>, kept \subseteq kept',
           OKCache(text, cache'),
           \A r \in Requests : Fits(text, kept', setting.namespace, cache', req[r].since),
           row' \in [Requests -> Statuses], req' \in [Requests -> Request],
           \A r \in Requests : req'[r] = req[r] \/ Moved(kept', req[r], req'[r]),
           \/ job' = job /\ (job.on # Nobody => req'[job.on] = req[job.on])
           \/ (job' = Idle /\ \A r \in Requests : req'[r].phase # "loading")
    PROVE  DiscoveryInv'
  <1>1. \A r \in Requests : /\ RequestOK(text, kept', setting.namespace, TaskOf(r), req'[r])
                            /\ req'[r].since = req[r].since
                            /\ (req'[r].phase = "loading" => req[r].phase = "loading")
    <2> TAKE r \in Requests
    <2>1. RequestOK(text, kept', setting.namespace, TaskOf(r), req[r]) /\ req[r] \in Request
      BY KeptMore DEF DiscoveryInv, TypeInv
    <2> QED
      BY <2>1, MovedKeeps
  <1>2. Idle.on = Nobody /\ Idle.file = Nobody /\ Idle \in Load
    BY DEF Idle, Load
  <1>3. TypeInv'
    BY <1>2 DEF DiscoveryInv, TypeInv
  <1>4. CacheInv'
    <2>1. job'.file # Nobody => job' = job
      BY <1>2
    <2>2. job.file # Nobody => job.read \in 1..Version(job.file)
      BY DEF DiscoveryInv, CacheInv
    <2> QED
      BY <2>1, <2>2, <1>1, KeptMore DEF CacheInv, Version
  <1>5. LoadInv'
    <2>1. job.on # Nobody => LoadOK(text, kept', job, TaskOf(job.on), req[job.on])
      BY KeptMore
    <2> QED
      BY <1>2, <2>1 DEF DiscoveryInv, LoadInv, TaskOf
  <1>6. RequestsInv'
    <2> SUFFICES ASSUME NEW r \in Requests
                 PROVE  /\ RequestOK(text, kept', setting.namespace, TaskOf(r), req'[r])
                        /\ req'[r].phase = "loading" => job'.on = r
      BY DEF RequestsInv, TaskOf
    <2>1. req[r].phase = "loading" => job.on = r
      BY DEF DiscoveryInv, RequestsInv
    <2> QED
      BY <2>1, <1>1
  <1> QED
    BY <1>3, <1>4, <1>5, <1>6 DEF DiscoveryInv

\* Nobody loads while no load is in progress.
LEMMA NobodyLoads ==
    ASSUME DiscoveryInv, job.on = Nobody, NEW r \in Requests
    PROVE  req[r].phase # "loading"
  BY DiscoveryAssumption DEF DiscoveryInv, RequestsInv

\* A request r moves on to phase p, and nothing else changes but its row.
LEMMA PhaseStep ==
    ASSUME DiscoveryInv, NEW r \in Requests, job.on = Nobody,
           NEW p \in Phases \ {"new", "loading", "listed", "absent"},
           req[r].phase \notin {"listed", "absent"}, req' = [req EXCEPT ![r].phase = p],
           row' \in [Requests -> Statuses],
           UNCHANGED <<setting, text, cache, kept, job>>
    PROVE  DiscoveryInv'
  <1>1. req \in [Requests -> Request]
    BY DEF DiscoveryInv, TypeInv
  <1>2. [req[r] EXCEPT !.phase = p] \in Request
    BY <1>1 DEF Request
  <1>3. req' = [req EXCEPT ![r] = [req[r] EXCEPT !.phase = p]]
    OBVIOUS
  <1>4. Moved(kept', req[r], [req[r] EXCEPT !.phase = p])
    BY <1>1, MovesOn
  <1>5. /\ req' \in [Requests -> Request]
        /\ \A s \in Requests : req'[s] = req[s] \/ Moved(kept', req[s], req'[s])
    BY <1>1, <1>2, <1>3, <1>4
  <1>6. /\ OKCache(text, cache')
        /\ \A s \in Requests : Fits(text, kept', setting.namespace, cache', req[s].since)
    BY DEF DiscoveryInv, TypeInv, CacheInv
  <1> QED
    BY <1>5, <1>6, MovesStep

\* Clearing and then running a file, or a temporary file, leaves caches that fit.
LEMMA ClearedAndRan ==
    ASSUME DiscoveryInv, NEW left, Keep(left), NEW f \in Files \cup {Nobody}, NEW v, NEW code,
           f \in Files => v = FromDisk(Cleared(cache, left), f)
    PROVE  LET ran == Ran(Cleared(cache, left), f, v, code) IN
           /\ OKCache(text, ran) /\ kept \subseteq kept'
           /\ \A r \in Requests : Fits(text, kept', setting.namespace, ran, req[r].since)
  <1> DEFINE c == Cleared(cache, left)
  <1>1. OKHistory(text) /\ OKCache(text, c) /\ kept \subseteq kept'
    BY ClearedFits DEF DiscoveryInv, TypeInv
  <1>2. ASSUME f \in Files PROVE v \in 1..Version(f)
    <2>1. Fits(text, kept', setting.namespace, c, [g \in Files |-> 0])
      BY ClearedFits
    <2>2. [g \in Files |-> 0] \in [Files -> Nat] /\ [g \in Files |-> 0][f] <= Version(f)
      BY <1>1, <1>2, HelperVersions
    <2> HIDE DEF c
    <2> QED
      BY <1>1, <1>2, <2>1, <2>2, FromDiskIsRecent DEF c
  <1>3. OKCache(text, Ran(c, f, v, code))
    BY <1>1, <1>2, RanType
  <1>4. ASSUME NEW r \in Requests
        PROVE  Fits(text, kept', setting.namespace, Ran(c, f, v, code), req[r].since)
    <2>1. Fits(text, kept', setting.namespace, c, req[r].since)
      BY ClearedFits
    <2>2. /\ req[r].since \in [Files -> Nat] /\ req[r].since[Helper] <= Version(Helper)
          /\ \A g \in Files : req[r].since[g] <= Version(g)
      BY Sinces
    <2>3. f \in Files => RecentIn(text, kept', f, v, req[r].since[f])
      BY <1>1, <2>1, <2>2, FromDiskIsRecent
    <2> QED
      BY <1>1, <1>2, <2>1, <2>2, <2>3, RanFits
  <1> QED
    BY <1>1, <1>3, <1>4

LEMMA ValidateStep ==
    ASSUME DiscoveryInv, NEW r \in Requests, Validate(r)
    PROVE  DiscoveryInv'
  <1>1. req \in [Requests -> Request]
    BY DEF DiscoveryInv, TypeInv
  <1>2. [req[r] EXCEPT !.phase = "done"] \in Request
    BY <1>1 DEF Request, Phases
  <1>3. req' = [req EXCEPT ![r] = [req[r] EXCEPT !.phase = "done"]]
    BY DEF Validate
  <1>4. Moved(kept', req[r], [req[r] EXCEPT !.phase = "done"])
    <2>1. req[r].phase = "new"
      BY DEF Validate
    <2> QED
      BY <1>1, <2>1, MovesOn DEF Phases
  <1>5. /\ req' \in [Requests -> Request]
        /\ \A s \in Requests : req'[s] = req[s] \/ Moved(kept', req[s], req'[s])
    BY <1>1, <1>2, <1>3, <1>4
  <1>6. /\ row' \in [Requests -> Statuses] /\ job' = job /\ job.on = Nobody
        /\ UNCHANGED <<setting, text>>
    BY DEF Validate, Unmoved, DiscoveryInv, TypeInv
  <1>7. /\ OKCache(text, cache') /\ kept \subseteq kept'
        /\ \A s \in Requests : Fits(text, kept', setting.namespace, cache', req[s].since)
    <2>1. CASE UNCHANGED <<cache, kept>>
      BY <2>1 DEF DiscoveryInv, TypeInv, CacheInv
    <2>2. CASE \E left \in SUBSET setting.locked :
                  /\ Keep(left)
                  /\ \/ \E f \in Files : Imports(Cleared(cache, left), f,
                           FromDisk(Cleared(cache, left), f),
                           CodeAt(f, FromDisk(Cleared(cache, left), f)))
                     \/ \E s \in setting.saves : Imports(Cleared(cache, left), Nobody, 0, s[2])
      <3>1. PICK left : Keep(left) /\
                  \/ \E f \in Files : Imports(Cleared(cache, left), f,
                           FromDisk(Cleared(cache, left), f),
                           CodeAt(f, FromDisk(Cleared(cache, left), f)))
                  \/ \E s \in setting.saves : Imports(Cleared(cache, left), Nobody, 0, s[2])
        BY <2>2
      <3>2. PICK f \in Files \cup {Nobody} : \E v, code :
               /\ f \in Files => v = FromDisk(Cleared(cache, left), f)
               /\ cache' = Ran(Cleared(cache, left), f, v, code)
        BY <3>1, Apart DEF Imports
      <3>3. PICK v, code :
               /\ f \in Files => v = FromDisk(Cleared(cache, left), f)
               /\ cache' = Ran(Cleared(cache, left), f, v, code)
        BY <3>2
      <3> QED
        BY <3>1, <3>3, ClearedAndRan
    <2> QED
      BY <2>1, <2>2 DEF Validate
  <1> QED
    BY <1>5, <1>6, <1>7, MovesStep

LEMMA ImportLateStep ==
    ASSUME DiscoveryInv, NEW r \in Requests, NEW style \in Styles, ImportLate(r, style)
    PROVE  DiscoveryInv'
  <1> DEFINE v == HelperFor(cache, style)
             more == {[style |-> style, version |-> v]}
             new == [req[r] EXCEPT !.got = @ \cup more]
  <1>1. req \in [Requests -> Request] /\ OKHistory(text) /\ OKCache(text, cache)
    BY DEF DiscoveryInv, TypeInv
  <1>2. /\ v \in 1..Version(Helper) /\ Version(Helper) \in Nat /\ Version(Helper) = Len(text[Helper])
        /\ (setting.namespace => style = "module") =>
              RecentIn(text, kept, Helper, v, req[r].since[Helper])
    BY <1>1, Sinces, HelperIsRecent, HelperVersions
  <1>3. /\ job.on = Nobody /\ req[r].phase = "running" /\ cache' = WithHelper(cache, style)
        /\ req' = [req EXCEPT ![r] = new] /\ UNCHANGED <<kept, job, setting, text, row>>
    BY DEF ImportLate, Unmoved
  <1> HIDE DEF v
  <1>4. OKGot(text, kept, setting.namespace, req[r].since, more) /\ more \in SUBSET Got
    BY <1>2 DEF OKGot, Got
  <1> HIDE DEF more
  <1>5. new \in Request /\ new = [req[r] EXCEPT !.phase = "running", !.got = @ \cup more]
    BY <1>1, <1>3, <1>4 DEF Request
  <1>6. Moved(kept', req[r], new)
    <2>1. "running" \in Phases \ {"new", "loading", "listed", "absent"}
      BY DEF Phases
    <2> QED
      BY <2>1, <1>3, <1>4, <1>5 DEF Moved
  <1> HIDE DEF new
  <1>7. /\ req' \in [Requests -> Request]
        /\ \A s \in Requests : req'[s] = req[s] \/ Moved(kept', req[s], req'[s])
    BY <1>1, <1>3, <1>5, <1>6
  <1>8. /\ OKCache(text, cache')
        /\ \A s \in Requests : Fits(text, kept', setting.namespace, cache', req[s].since)
    BY <1>1, <1>3, Sinces, WithHelperType, WithHelperFits
  <1>9. row' \in [Requests -> Statuses] /\ kept \subseteq kept'
    BY <1>3 DEF DiscoveryInv, TypeInv
  <1> QED
    BY <1>3, <1>7, <1>8, <1>9, MovesStep

LEMMA UseInternalStep ==
    ASSUME DiscoveryInv, UseInternal
    PROVE  DiscoveryInv'
  BY DEF UseInternal, Unmoved, DiscoveryInv, TypeInv, CacheInv, LoadInv, RequestsInv, Version, TaskOf

LEMMA EndStep ==
    ASSUME DiscoveryInv, NEW r \in Requests, End(r)
    PROVE  DiscoveryInv'
  <1>1. /\ job.on = Nobody /\ req[r].phase = "running" /\ req' = [req EXCEPT ![r].phase = "done"]
        /\ UNCHANGED <<setting, text, cache, kept, job, row>>
    BY DEF End, Unmoved
  <1>2. row' \in [Requests -> Statuses] /\ "done" \in Phases \ {"new", "loading", "listed", "absent"}
    BY <1>1 DEF DiscoveryInv, TypeInv, Phases
  <1> QED
    BY <1>1, <1>2, PhaseStep

LEMMA RecycleStep ==
    ASSUME DiscoveryInv, Recycle
    PROVE  DiscoveryInv'
  <1> DEFINE dies(r) == req[r].phase \in {"loading", "starting", "running", "returned", "raised"}
             new(r) == [req[r] EXCEPT !.phase = "killed"]
             c == [cache EXCEPT !.imported = 0, !.member = 0]
  <1>1. req \in [Requests -> Request]
    BY DEF DiscoveryInv, TypeInv
  <1>2. /\ req' = [r \in Requests |-> IF dies(r) THEN new(r) ELSE req[r]]
        /\ job' = Idle /\ cache' = c /\ UNCHANGED <<setting, text, kept, row>>
    BY DEF Recycle
  <1>3. ASSUME NEW r \in Requests, dies(r)
        PROVE  new(r) \in Request /\ new(r).phase = "killed" /\ Moved(kept, req[r], new(r))
    <2>1. new(r) \in Request /\ new(r).phase = "killed"
      BY <1>1 DEF Request, Phases
    <2>2. "killed" \in Phases \ {"new", "loading", "listed", "absent"}
      BY DEF Phases
    <2> QED
      BY <1>1, <1>3, <2>1, <2>2, MovesOn
  <1>4. \A r \in Requests : ~dies(r) => req[r].phase # "loading"
    OBVIOUS
  <1> HIDE DEF dies, new
  <1>5. /\ req' \in [Requests -> Request]
        /\ \A r \in Requests : /\ req'[r] = req[r] \/ Moved(kept, req[r], req'[r])
                               /\ req'[r].phase # "loading"
    BY <1>1, <1>2, <1>3, <1>4
  <1>6. /\ c.pyc = cache.pyc /\ c.imported = 0 /\ c.member = 0 /\ c \in Cache
        /\ \A f \in Files : Len(text[f]) \in Nat
        /\ Helper \in Files
    BY HelperVersions DEF DiscoveryInv, TypeInv, OKCache, OKHistory, Cache
  <1> HIDE DEF c
  <1>7. OKCache(text, c)
    BY <1>6 DEF DiscoveryInv, TypeInv, OKCache
  <1>8. \A s \in Requests : Fits(text, kept, setting.namespace, c, req[s].since)
    BY <1>6 DEF DiscoveryInv, CacheInv, Fits
  <1>9. row' \in [Requests -> Statuses] /\ kept' = kept
    BY <1>2 DEF DiscoveryInv, TypeInv
  <1> QED
    BY <1>2, <1>5, <1>7, <1>8, <1>9, MovesStep

\* What a request to storage leaves.
LEMMA WritesType ==
    ASSUME DiscoveryInv, NEW r \in Requests, NEW status \in Statuses, NEW exists, NEW then,
           NEW raising, Writes(r, status, exists, then, raising)
    PROVE  /\ row' \in [Requests -> Statuses]
           /\ \/ req' = [req EXCEPT ![r].phase = then]
              \/ req' = [req EXCEPT ![r].phase = raising]
  BY DEF Writes, DiscoveryInv, TypeInv

LEMMA WritesStep ==
    ASSUME DiscoveryInv, NEW r \in Requests, NEW status \in Statuses, NEW exists,
           NEW then \in Phases \ {"new", "loading", "listed", "absent"},
           NEW raising \in Phases \ {"new", "loading", "listed", "absent"},
           req[r].phase \notin {"listed", "absent"}, job.on = Nobody,
           Writes(r, status, exists, then, raising), Still
    PROVE  DiscoveryInv'
  <1>1. UNCHANGED <<setting, text, cache, kept, job>>
    BY DEF Still
  <1> QED
    BY <1>1, WritesType, PhaseStep

LEMMA RowSteps ==
    ASSUME DiscoveryInv, NEW r \in Requests,
           CreateRow(r) \/ CallEnds(r) \/ RecordReturn(r) \/ RecordRaise(r)
    PROVE  DiscoveryInv'
  <1> DEFINE Later == Phases \ {"new", "loading", "listed", "absent"}
  <1>1. {"running", "raised", "returned", "Success", "Failed", "error"} \subseteq Later
    BY DEF Phases
  <1>2. {"Running", "Success", "Failed"} \subseteq Statuses
    BY DEF Statuses
  <1>3. CASE CreateRow(r)
    BY <1>1, <1>2, <1>3, WritesStep DEF CreateRow
  <1>4. CASE CallEnds(r)
    <2>1. PICK how \in {"returned", "raised"} : req' = [req EXCEPT ![r].phase = how]
      BY <1>4 DEF CallEnds
    <2>2. /\ job.on = Nobody /\ req[r].phase = "running"
          /\ UNCHANGED <<setting, text, cache, kept, job, row>>
      BY <1>4 DEF CallEnds, Still
    <2>3. row' \in [Requests -> Statuses]
      BY <2>2 DEF DiscoveryInv, TypeInv
    <2> QED
      BY <1>1, <2>1, <2>2, <2>3, PhaseStep
  <1>5. CASE RecordReturn(r)
    BY <1>1, <1>2, <1>5, WritesStep DEF RecordReturn
  <1>6. CASE RecordRaise(r)
    BY <1>1, <1>2, <1>6, WritesStep DEF RecordRaise
  <1> QED
    BY <1>3, <1>4, <1>5, <1>6

-----------------------------------------------------------------------------
(* The steps of a load.                                                    *)

\* A load begins with a new window, which what is left in the caches fits.
LEMMA BeginStep ==
    ASSUME DiscoveryInv, NEW r \in Requests, Begin(r)
    PROVE  DiscoveryInv'
  <1> DEFINE j == [Idle EXCEPT !.on = r, !.places = Workspaces]
             new == [req[r] EXCEPT !.phase = "loading", !.since = Versions]
  <1>1. /\ job.on = Nobody /\ req[r].phase = "new" /\ TaskOf(r).op # "validate"
        /\ job' = j /\ req' = [req EXCEPT ![r] = new]
        /\ \E left : Keep(left) /\ cache' = Cleared(cache, left)
        /\ UNCHANGED <<setting, text, row>>
    BY DEF Begin, Unmoved
  <1>2. req \in [Requests -> Request] /\ OKHistory(text) /\ r # Nobody
    BY DiscoveryAssumption DEF DiscoveryInv, TypeInv
  <1>3. Versions = Heads(text) /\ Versions \in [Files -> Nat]
    BY <1>2 DEF Versions, Heads, Version, OKHistory
  <1>4. /\ new \in Request /\ new.phase = "loading" /\ new.since = Heads(text)
        /\ new.listed = req[r].listed /\ new.file = req[r].file /\ new.got = req[r].got
    BY <1>2, <1>3 DEF Request, Phases
  <1>5. new.listed = {} /\ new.file = Nobody /\ new.got = {}
    BY <1>1, <1>4 DEF DiscoveryInv, RequestsInv, RequestOK
  <1>6. j \in Load /\ j.on = r /\ j.file = Nobody
    BY DEF Idle, Load, Workspaces
  <1>7. LoadOK(text, kept', j, TaskOf(r), new)
    BY <1>1, <1>2, <1>4, <1>5, LoadBegins DEF Workspaces
  <1> HIDE DEF j, new
  <1>8. /\ OKCache(text, cache') /\ kept \subseteq kept'
        /\ \A since : Fits(text, kept', setting.namespace, cache', since)
    BY <1>1, ClearedFits
  <1>9. TypeInv'
    <2>1. req' \in [Requests -> Request]
      BY <1>1, <1>2, <1>4
    <2> QED
      BY <1>1, <1>6, <1>8, <2>1 DEF DiscoveryInv, TypeInv
  <1>10. CacheInv'
    BY <1>1, <1>6, <1>8 DEF CacheInv
  <1>11. LoadInv'
    BY <1>1, <1>2, <1>6, <1>7 DEF LoadInv, TaskOf
  <1>12. RequestsInv'
    <2> SUFFICES ASSUME NEW s \in Requests
                 PROVE  /\ RequestOK(text, kept', setting.namespace, TaskOf(s), req'[s])
                        /\ req'[s].phase = "loading" => j.on = s
      BY <1>1 DEF RequestsInv, TaskOf
    <2>1. CASE s = r
      <3>1. \A f \in Files : new.since[f] <= Len(text[f])
        BY <1>2, <1>4 DEF OKHistory, Heads
      <3>2. RequestOK(text, kept', setting.namespace, TaskOf(r), new)
        BY <1>4, <1>5, <3>1 DEF RequestOK
      <3> QED
        BY <2>1, <3>2, <1>1, <1>2, <1>6
    <2>2. CASE s # r
      <3>1. req'[s] = req[s]
        BY <1>1, <1>2, <2>2
      <3> QED
        BY <3>1, <1>1, <1>8, NobodyLoads, KeptMore
    <2> QED
      BY <2>1, <2>2
  <1> QED
    BY <1>9, <1>10, <1>11, <1>12 DEF DiscoveryInv

\* A step of a load that leaves its request alone.
LEMMA LoadStepKeeps ==
    ASSUME DiscoveryInv, job.on # Nobody, job' \in Load, job'.on = job.on, kept \subseteq kept',
           LoadOK(text, kept', job', TaskOf(job.on), req[job.on]), OKCache(text, cache'),
           \A r \in Requests : Fits(text, kept', setting.namespace, cache', req[r].since),
           job'.file # Nobody =>
              /\ job'.read \in 1..Version(job'.file)
              /\ \A r \in Requests :
                    RecentIn(text, kept', job'.file, job'.read, req[r].since[job'.file]),
           UNCHANGED <<setting, text, req, row>>
    PROVE  DiscoveryInv'
  <1>1. TypeInv'
    BY DEF DiscoveryInv, TypeInv
  <1>2. CacheInv'
    BY DEF CacheInv, Version
  <1>3. LoadInv'
    BY DEF LoadInv, TaskOf
  <1>4. RequestsInv'
    BY KeptMore DEF DiscoveryInv, RequestsInv, TaskOf
  <1> QED
    BY <1>1, <1>2, <1>3, <1>4 DEF DiscoveryInv

LEMMA LoadInProgress ==
    ASSUME DiscoveryInv, job.on # Nobody
    PROVE  /\ job.on \in Requests /\ req[job.on] \in Request /\ job \in Load
           /\ LoadOK(text, kept, job, TaskOf(job.on), req[job.on])
  BY DEF DiscoveryInv, TypeInv, Load, LoadInv

\* The places a load has left, as values that differ.
LEMMA PlacesDiffer ==
    /\ <<Home, Platform>> # <<Platform>> /\ <<Home, Platform>> # <<>> /\ <<Platform>> # <<>>
    /\ Tail(<<Home, Platform>>) = <<Platform>> /\ Tail(<<Platform>>) = <<>>
    /\ Head(<<Home, Platform>>) = Home /\ Head(<<Platform>>) = Platform
  OBVIOUS

LEMMA ListDirectoryStep ==
    ASSUME DiscoveryInv, ListDirectory
    PROVE  DiscoveryInv'
  <1> DEFINE dir == Head(job.places)
             j == [job EXCEPT !.places = Tail(@), !.todo = {f \in dir : OnDisk(f)}]
             q == req[job.on]
  <1>1. /\ job.on # Nobody /\ job.file = Nobody /\ job.todo = {} /\ job.places # <<>> /\ job' = j
        /\ UNCHANGED <<cache, kept, setting, text, req, row>>
    BY DEF ListDirectory, Unmoved
  <1>2. /\ job \in Load /\ q \in Request /\ LoadOK(text, kept, job, TaskOf(job.on), q)
    BY <1>1, LoadInProgress
  <1>3. \/ job.places = <<Home, Platform>> /\ dir = Home /\ Tail(job.places) = <<Platform>>
        \/ job.places = <<Platform>> /\ dir = Platform /\ Tail(job.places) = <<>>
    BY <1>1, <1>2, PlacesDiffer DEF Load
  <1> HIDE DEF dir
  <1>4. /\ j.on = job.on /\ j.file = Nobody /\ j.read = job.read /\ j.places = Tail(job.places)
        /\ j.todo = {f \in dir : OnDisk(f)} /\ j \in Load
    <2>1. {f \in dir : OnDisk(f)} \subseteq Files /\ Tail(job.places) \in {<<Platform>>, <<>>}
      BY <1>3 DEF Files
    <2> QED
      BY <1>1, <1>2, <2>1 DEF Load
  <1> HIDE DEF j
  <1>5. ASSUME NEW f \in Files, ~OnDisk(f)
        PROVE  DueIn(text, kept, q.since, Heads(text), TaskOf(job.on), f) = {}
    <2>1. ~text[f][Heads(text)[f]].code.fine
      BY <1>5 DEF OnDisk, CodeAt, Version, Heads, Deleted
    <2> QED
      BY <2>1, NothingDue
  <1>6. ASSUME NEW f \in Files, Ahead(job, f)
        PROVE  Ahead(j, f) \/ ~OnDisk(f)
    <2>1. CASE job.places = <<Home, Platform>>
      BY <2>1, <1>3, <1>4, PlacesDiffer DEF Ahead, Files
    <2>2. CASE job.places = <<Platform>>
      <3>1. f \in Platform
        BY <2>2, <1>1, <1>6, Apart, PlacesDiffer DEF Ahead
      <3> QED
        BY <2>2, <3>1, <1>3, <1>4, PlacesDiffer DEF Ahead
    <2> QED
      BY <1>3, <2>1, <2>2
  <1>7. LoadOK(text, kept, j, TaskOf(job.on), q)
    <2>1. /\ j.places = <<Home, Platform>> => j.todo = {} /\ j.file = Nobody
          /\ j.places = <<Platform>> => j.todo \subseteq Home /\ j.file \notin Platform
          /\ j.places = <<>> => j.todo \subseteq Platform /\ j.file \notin Home
      BY <1>3, <1>4, PlacesDiffer, Apart
    <2> QED
      BY <2>1, <1>2, <1>5, <1>6, LoadMoves
  <1>8. /\ OKCache(text, cache')
        /\ \A r \in Requests : Fits(text, kept', setting.namespace, cache', req[r].since)
    BY <1>1 DEF DiscoveryInv, TypeInv, CacheInv
  <1> QED
    BY <1>1, <1>4, <1>7, <1>8, LoadStepKeeps

LEMMA ReadFileStep ==
    ASSUME DiscoveryInv, NEW g \in Files, ReadFile(g)
    PROVE  DiscoveryInv'
  <1>1. PICK left : /\ Keep(left) /\ cache' = Cleared(cache, left)
                    /\ job' = IF OnDisk(g)
                              THEN [job EXCEPT !.todo = @ \ {g}, !.file = g,
                                               !.read = FromDisk(Cleared(cache, left), g)]
                              ELSE [job EXCEPT !.todo = @ \ {g}]
    BY DEF ReadFile
  <1> DEFINE v == FromDisk(Cleared(cache, left), g)
             j == IF OnDisk(g) THEN [job EXCEPT !.todo = @ \ {g}, !.file = g, !.read = v]
                  ELSE [job EXCEPT !.todo = @ \ {g}]
             q == req[job.on]
  <1>2. /\ job.on # Nobody /\ job.file = Nobody /\ g \in job.todo /\ job' = j
        /\ UNCHANGED <<setting, text, req, row>>
    BY <1>1 DEF ReadFile, Unmoved
  <1>3. /\ OKCache(text, cache') /\ kept \subseteq kept' /\ OKHistory(text)
        /\ \A r \in Requests : Fits(text, kept', setting.namespace, cache', req[r].since)
    BY <1>1, ClearedFits DEF DiscoveryInv, TypeInv
  <1>4. /\ job \in Load /\ q \in Request /\ LoadOK(text, kept', job, TaskOf(job.on), q)
        /\ job.on \in Requests
    BY <1>2, <1>3, LoadInProgress, KeptMore
  <1>5. v \in 1..Version(g) /\ \A r \in Requests : RecentIn(text, kept', g, v, req[r].since[g])
    <2>1. ASSUME NEW r \in Requests
          PROVE  v \in 1..Version(g) /\ RecentIn(text, kept', g, v, req[r].since[g])
      BY <1>1, <1>3, Sinces, FromDiskIsRecent
    <2> QED
      BY <1>4, <2>1
  <1> HIDE DEF v
  <1>6. v \in Nat
    BY <1>3, <1>5, HelperVersions
  <1>7. /\ j.on = job.on /\ j.places = job.places /\ j.todo = job.todo \ {g}
        /\ j.file = (IF OnDisk(g) THEN g ELSE Nobody) /\ j \in Load
        /\ j.file # Nobody => j.file = g /\ j.read = v
    BY <1>2, <1>4, <1>6 DEF Load
  <1> HIDE DEF j
  <1>8. ASSUME NEW f \in Files, Ahead(job, f)
        PROVE  Ahead(j, f) \/ DueIn(text, kept', q.since, Heads(text), TaskOf(job.on), f) = {}
    <2>1. CASE f = g /\ ~OnDisk(g)
      <3>1. ~text[f][Heads(text)[f]].code.fine
        BY <2>1 DEF OnDisk, CodeAt, Version, Heads, Deleted
      <3> QED
        BY <3>1, NothingDue
    <2>2. CASE f = g /\ OnDisk(g)
      BY <2>2, <1>7 DEF Ahead
    <2>3. CASE f # g
      BY <2>3, <1>2, <1>7, <1>8, Apart DEF Ahead
    <2> QED
      BY <2>1, <2>2, <2>3
  <1>9. LoadOK(text, kept', j, TaskOf(job.on), q)
    <2>1. /\ job.places = <<Home, Platform>> => job.todo = {}
          /\ job.places = <<Platform>> => job.todo \subseteq Home
          /\ job.places = <<>> => job.todo \subseteq Platform
      BY <1>4 DEF LoadOK
    <2>2. /\ j.places = <<Home, Platform>> => j.todo = {} /\ j.file = Nobody
          /\ j.places = <<Platform>> => j.todo \subseteq Home /\ j.file \notin Platform
          /\ j.places = <<>> => j.todo \subseteq Platform /\ j.file \notin Home
      BY <1>2, <1>7, <2>1, Apart
    <2> QED
      BY <2>2, <1>4, <1>8, LoadMoves
  <1> QED
    BY <1>2, <1>3, <1>5, <1>7, <1>9, LoadStepKeeps

\* The end of a load: its request has moved on to q2.
LEMMA LoadEnds ==
    ASSUME DiscoveryInv, job.on # Nobody, NEW q2 \in Request, q2.since = req[job.on].since,
           q2.phase # "loading", RequestOK(text, kept, setting.namespace, TaskOf(job.on), q2),
           req' = [req EXCEPT ![job.on] = q2], job' = Idle, OKCache(text, cache'),
           \A r \in Requests : Fits(text, kept, setting.namespace, cache', req[r].since),
           UNCHANGED <<setting, text, kept, row>>
    PROVE  DiscoveryInv'
  <1>1. Idle.on = Nobody /\ Idle.file = Nobody /\ Idle \in Load
    BY DEF Idle, Load
  <1>2. job.on \in Requests /\ req \in [Requests -> Request]
    BY LoadInProgress DEF DiscoveryInv, TypeInv
  <1>3. \A r \in Requests : /\ req'[r].since = req[r].since
                            /\ r # job.on => req'[r] = req[r]
    BY <1>2
  <1>4. TypeInv'
    BY <1>1, <1>2 DEF DiscoveryInv, TypeInv
  <1>5. CacheInv'
    BY <1>1, <1>3 DEF CacheInv
  <1>6. LoadInv'
    BY <1>1 DEF LoadInv
  <1>7. RequestsInv'
    <2>1. ASSUME NEW r \in Requests, r # job.on
          PROVE  /\ RequestOK(text, kept, setting.namespace, TaskOf(r), req'[r])
                 /\ req'[r].phase # "loading"
      BY <2>1, <1>3 DEF DiscoveryInv, RequestsInv
    <2>2. req'[job.on] = q2
      BY <1>2
    <2> QED
      BY <2>1, <2>2 DEF RequestsInv, TaskOf
  <1> QED
    BY <1>4, <1>5, <1>6, <1>7 DEF DiscoveryInv

LEMMA RunOutStep ==
    ASSUME DiscoveryInv, RunOut
    PROVE  DiscoveryInv'
  <1> DEFINE q == req[job.on]
             task == TaskOf(job.on)
             p == IF task.op = "list" THEN "listed" ELSE "absent"
             q2 == [q EXCEPT !.till = Versions, !.phase = p]
  <1>1. /\ job.on # Nobody /\ job.file = Nobody /\ job.todo = {} /\ job.places = <<>>
        /\ job' = Idle /\ UNCHANGED <<cache, kept, setting, text, row>>
    BY DEF RunOut, Unmoved
  <1>2. /\ job.on \in Requests /\ q \in Request /\ LoadOK(text, kept, job, task, q)
    BY <1>1, LoadInProgress
  <1>3. req' = [req EXCEPT ![job.on] = q2]
    BY <1>2 DEF RunOut, DiscoveryInv, TypeInv
  <1>4. Versions = Heads(text) /\ Versions \in [Files -> Nat]
    BY DEF Versions, Heads, Version, OKHistory, DiscoveryInv, TypeInv
  <1>5. /\ q2 \in Request /\ q2.phase = p /\ q2.since = q.since /\ q2.till = Heads(text)
        /\ q2.file = q.file /\ q2.listed = q.listed
    BY <1>2, <1>4 DEF Request, Phases
  <1>6. q.file = Nobody /\ \A f \in Files : q.since[f] <= Len(text[f])
    BY <1>2 DEF DiscoveryInv, RequestsInv, RequestOK, LoadOK
  <1> HIDE DEF q2
  <1>7. \A f \in Files : Given(task, DueIn(text, kept, q.since, Heads(text), task, f), q.listed)
    <2>1. \A f \in Files : ~Ahead(job, f)
      BY <1>1, PlacesDiffer, Apart DEF Ahead
    <2> QED
      BY <2>1, <1>2 DEF LoadOK
  <1>8. RequestOK(text, kept, setting.namespace, task, q2)
    BY <1>2, <1>5, <1>6, <1>7 DEF RequestOK, LoadOK
  <1>9. p # "loading"
    OBVIOUS
  <1>10. /\ OKCache(text, cache')
         /\ \A r \in Requests : Fits(text, kept, setting.namespace, cache', req[r].since)
    BY <1>1 DEF DiscoveryInv, TypeInv, CacheInv
  <1> HIDE DEF q, task, p
  <1> QED
    BY <1>1, <1>3, <1>5, <1>8, <1>9, <1>10, LoadEnds DEF q, task

\* What running the file that was read leaves in the caches.
LEMMA RunLeaves ==
    ASSUME DiscoveryInv, job.file # Nobody, NEW code,
           cache' = Ran(cache, job.file, job.read, code)
    PROVE  /\ OKCache(text, cache')
           /\ \A r \in Requests : Fits(text, kept, setting.namespace, cache', req[r].since)
  <1>1. OKHistory(text) /\ OKCache(text, cache) /\ job.file \in Files
        /\ job.read \in 1..Version(job.file)
    BY ReadIsFresh DEF DiscoveryInv, TypeInv
  <1>2. OKCache(text, cache')
    BY <1>1, RanType
  <1>3. ASSUME NEW r \in Requests
        PROVE  Fits(text, kept, setting.namespace, cache', req[r].since)
    <2>1. RecentIn(text, kept, job.file, job.read, req[r].since[job.file])
      BY ReadIsFresh
    <2> QED
      BY <1>1, <2>1, Sinces, RanFits
  <1> QED
    BY <1>2, <1>3

\* A file is run that has nothing the load looks for, or what it lists.
LEMMA RunFileGoesOn ==
    ASSUME DiscoveryInv, RunFile, NEW ds, job.file # Nobody,
           LET code == CodeAt(job.file, job.read)
               works == Importable(cache, job.file, code)
               defs == IF works THEN Matches(TaskOf(job.on), code) ELSE {}
           IN  /\ TaskOf(job.on).op = "list" \/ defs = {}
               /\ ds = {d \in defs : Converts(d)}
               /\ job' = After(job.file, job.read, works)
               /\ req' = [req EXCEPT ![job.on].listed = @ \cup ds],
           Imports(cache, job.file, job.read, CodeAt(job.file, job.read)),
           UNCHANGED <<setting, text, kept, row>>
    PROVE  DiscoveryInv'
  <1> DEFINE q == req[job.on]
             task == TaskOf(job.on)
             f == job.file
             code == CodeAt(f, job.read)
             works == Importable(cache, f, code)
             defs == IF works THEN Matches(task, code) ELSE {}
             q2 == [q EXCEPT !.listed = @ \cup ds]
             j == [job EXCEPT !.file = Nobody, !.read = 0]
  <1>1. /\ job.on \in Requests /\ q \in Request /\ LoadOK(text, kept, job, task, q) /\ job \in Load
        /\ job.on # Nobody
    <2>1. job.on # Nobody
      BY ReadIsFresh, Apart
    <2> QED
      BY <2>1, LoadInProgress
  <1>2. /\ f \in Files /\ job.read \in 1..Version(f) /\ Version(f) \in Nat
        /\ RecentIn(text, kept, f, job.read, q.since[f]) /\ code \in Code
    BY <1>1, ReadIsFresh
  <1>3. /\ OKHistory(text) /\ OKCache(text, cache) /\ q.since \in [Files -> Nat]
        /\ Fits(text, kept, setting.namespace, cache, q.since)
    BY <1>1, Sinces DEF DiscoveryInv, TypeInv
  <1>4. /\ job' = j /\ req' = [req EXCEPT ![job.on] = q2] /\ defs \subseteq Def
        /\ ds = {d \in defs : Converts(d)} /\ (task.op = "list" \/ defs = {})
    <2>1. req \in [Requests -> Request]
      BY DEF DiscoveryInv, TypeInv
    <2>2. defs \subseteq Def
      BY <1>2 DEF Code, Matches
    <2> QED
      BY <2>1, <2>2, <1>1 DEF After
  <1>5. ds \subseteq defs /\ ds \subseteq Def
    BY <1>4
  <1>6. Defined(text, kept, q.since, Heads(text), ds)
    <2>1. ASSUME NEW d \in ds
          PROVE  d \in text[f][job.read].code.defs
      BY <2>1, <1>5 DEF Matches, CodeAt
    <2>2. job.read \in 1..Heads(text)[f]
      BY <1>2 DEF Heads, Version
    <2> QED
      BY <1>2, <2>1, <2>2 DEF Defined
  <1>7. Given(task, DueIn(text, kept, q.since, Heads(text), task, f), q.listed \cup ds)
    <2>1. Versions = Heads(text)
      BY DEF Versions, Heads, Version
    <2>2. CASE DueIn(text, kept, q.since, Heads(text), task, f) = {}
      BY <2>2, NothingGiven
    <2>3. CASE DueIn(text, kept, q.since, Heads(text), task, f) # {}
      <3>1. works /\ Matches(task, code) = DueIn(text, kept, q.since, Heads(text), task, f)
        BY <1>1, <1>2, <1>3, <2>1, <2>3, WhatStayedWorks DEF LoadOK
      <3>2. defs = DueIn(text, kept, q.since, Heads(text), task, f)
        BY <3>1
      <3> HIDE DEF defs, task
      <3> QED
        BY <1>4, <2>3, <3>2 DEF Given, Converts
    <2> QED
      BY <2>2, <2>3
  <1>8. /\ OKCache(text, cache')
        /\ \A r \in Requests : Fits(text, kept, setting.namespace, cache', req[r].since)
    BY RunLeaves DEF Imports
  <1> HIDE DEF defs, works, code
  <1>9. /\ j.on = job.on /\ j.places = job.places /\ j.todo = job.todo /\ j.file = Nobody
        /\ j \in Load
    BY <1>1 DEF Load
  <1> HIDE DEF j
  <1>10. LoadOK(text, kept, j, task, q2)
    <2>1. /\ j.places = <<Home, Platform>> => j.todo = {} /\ j.file = Nobody
          /\ j.places = <<Platform>> => j.todo \subseteq Home /\ j.file \notin Platform
          /\ j.places = <<>> => j.todo \subseteq Platform /\ j.file \notin Home
      BY <1>1, <1>9, Apart DEF LoadOK
    <2>2. \A g \in Files : Ahead(job, g) => Ahead(j, g) \/
             Given(task, DueIn(text, kept, q.since, Heads(text), task, g), q.listed \cup ds)
      <3> SUFFICES ASSUME NEW g \in Files, Ahead(job, g), g # f
                   PROVE  Ahead(j, g)
        BY <1>7
      <3> QED
        BY <1>9 DEF Ahead
    <2> HIDE DEF task, q, q2
    <2>3. LoadOK(text, kept, j, task, [q EXCEPT !.listed = @ \cup ds])
      BY <1>1, <1>6, <2>1, <2>2, LoadStep
    <2> QED
      BY <2>3 DEF q2
  <1>11. /\ q2 \in Request /\ q2.since = q.since /\ q2.phase = "loading" /\ q2.till = q.till
         /\ q2.file = q.file /\ q2.got = q.got /\ q2.main = q.main
    BY <1>1, <1>5 DEF Request, LoadOK
  <1> HIDE DEF q2
  <1>12. \A r \in Requests : /\ req'[r].since = req[r].since
                             /\ r # job.on => req'[r] = req[r]
    BY <1>1, <1>4, <1>11 DEF DiscoveryInv, TypeInv
  <1>13. req' \in [Requests -> Request] /\ req'[job.on] = q2
    BY <1>1, <1>4, <1>11 DEF DiscoveryInv, TypeInv
  <1>14. TypeInv'
    BY <1>4, <1>8, <1>9, <1>13 DEF DiscoveryInv, TypeInv
  <1>15. CacheInv'
    BY <1>4, <1>8, <1>9, <1>12 DEF CacheInv
  <1>16. LoadInv'
    BY <1>1, <1>4, <1>9, <1>10, <1>13 DEF LoadInv, TaskOf
  <1>17. RequestsInv'
    <2>1. ASSUME NEW r \in Requests, r # job.on
          PROVE  /\ RequestOK(text, kept, setting.namespace, TaskOf(r), req'[r])
                 /\ req'[r].phase # "loading"
      BY <2>1, <1>12 DEF DiscoveryInv, RequestsInv
    <2>2. RequestOK(text, kept, setting.namespace, task, q2)
      <3>1. RequestOK(text, kept, setting.namespace, task, q) /\ q.phase = "loading"
        BY <1>1 DEF DiscoveryInv, RequestsInv, LoadOK
      <3> HIDE DEF q, task
      <3> QED
        BY <3>1, <1>11 DEF RequestOK
    <2> QED
      BY <2>1, <2>2, <1>4, <1>9, <1>13 DEF RequestsInv, TaskOf
  <1> QED
    BY <1>14, <1>15, <1>16, <1>17 DEF DiscoveryInv

LEMMA AnsweredPhase ==
    ASSUME NEW task \in Task, task.op \notin {"list", "validate"}, NEW d \in Def
    PROVE  Answered(task, d) \in {"running", "refused", "queued", "starting"}
  <1>1. task.op \in {"execute", "options", "call"}
    BY DEF Task
  <1>2. d.open \in {"closed", "async", "sync"}
    BY DEF Def
  <1> QED
    BY <1>1, <1>2 DEF Answered, Accepted, Dispatched

LEMMA LoadedTask ==
    ASSUME DiscoveryInv, job.on # Nobody
    PROVE  TaskOf(job.on) \in Task /\ TaskOf(job.on).op # "validate"
  <1>1. setting.tasks \in [Requests -> Task]
    BY DiscoveryAssumption DEF DiscoveryInv, TypeInv
  <1> QED
    BY <1>1, LoadInProgress DEF TaskOf, LoadOK

\* A file is run that has what the load looks for: the request has code to run.
LEMMA RunFileFinds ==
    ASSUME DiscoveryInv, job.file # Nobody, TaskOf(job.on).op # "list", NEW code,
           code = CodeAt(job.file, job.read), NEW d \in Matches(TaskOf(job.on), code),
           job' = Idle, NEW got,
           got = {[style |-> style, version |-> HelperFor(cache, style)] :
                     style \in Styles \cap {code.helper}},
           req' = [req EXCEPT ![job.on].phase = Answered(TaskOf(job.on), d),
                              ![job.on].till = Versions,
                              ![job.on].file = job.file, ![job.on].main = job.read,
                              ![job.on].got = got],
           Imports(cache, job.file, job.read, code),
           UNCHANGED <<setting, text, kept, row>>
    PROVE  DiscoveryInv'
  <1> DEFINE q == req[job.on]
             task == TaskOf(job.on)
             f == job.file
             n == setting.namespace
             p == Answered(task, d)
             q2 == [q EXCEPT !.phase = p, !.till = Versions, !.file = f, !.main = job.read,
                             !.got = got]
  <1>1. /\ job.on \in Requests /\ q \in Request /\ LoadOK(text, kept, job, task, q) /\ job \in Load
        /\ job.on # Nobody
    <2>1. job.on # Nobody
      BY ReadIsFresh, Apart
    <2> QED
      BY <2>1, LoadInProgress
  <1>2. /\ f \in Files /\ job.read \in 1..Version(f) /\ Version(f) \in Nat
        /\ RecentIn(text, kept, f, job.read, q.since[f]) /\ code \in Code
    BY <1>1, ReadIsFresh
  <1>3. OKGot(text, kept, n, q.since, got) /\ got \in SUBSET Got
    <2>1. ASSUME NEW style \in Styles
          PROVE  /\ HelperFor(cache, style) \in 1..Len(text[Helper]) /\ HelperFor(cache, style) \in Nat
                 /\ (n => style = "module") =>
                       RecentIn(text, kept, Helper, HelperFor(cache, style), q.since[Helper])
      <3>1. OKHistory(text) /\ OKCache(text, cache)
        BY DEF DiscoveryInv, TypeInv
      <3> QED
        BY <1>1, <3>1, Sinces, HelperIsRecent, HelperVersions
    <2> QED
      BY <2>1 DEF OKGot, Got
  <1>4. p \in {"running", "refused", "queued", "starting"}
    <2>1. d \in Def
      BY <1>2 DEF Matches, Code
    <2> QED
      BY <1>1, <2>1, LoadedTask, AnsweredPhase
  <1>5. Versions = Heads(text) /\ Versions \in [Files -> Nat]
    BY DEF Versions, Heads, Version, OKHistory, DiscoveryInv, TypeInv
  <1> HIDE DEF p
  <1>6. /\ q2 \in Request /\ q2.phase = p /\ q2.since = q.since /\ q2.till = Heads(text)
        /\ q2.file = f /\ q2.main = job.read /\ q2.got = got /\ q2.listed = q.listed
    <2>1. p \in Phases
      BY <1>4 DEF Phases
    <2>2. job.read \in Nat
      BY <1>2
    <2>3. q2 = [q EXCEPT !.phase = p, !.till = Heads(text), !.file = f, !.main = job.read,
                         !.got = got]
      BY <1>5
    <2>4. /\ q \in Request /\ f \in Files /\ got \in SUBSET Got /\ Heads(text) \in [Files -> Nat]
      BY <1>1, <1>2, <1>3, <1>5
    <2> HIDE DEF q, q2, f
    <2> QED
      BY <2>1, <2>2, <2>3, <2>4 DEF Request
  <1>7. req' = [req EXCEPT ![job.on] = q2]
    BY <1>1 DEF p, DiscoveryInv, TypeInv
  <1> HIDE DEF q2
  <1>8. \A g \in Files : q.since[g] <= Len(text[g])
    BY <1>1 DEF DiscoveryInv, RequestsInv, RequestOK
  <1>9. ASSUME NEW g \in Files, Earlier(g, f)
        PROVE  DueIn(text, kept, q.since, Heads(text), task, g) = {}
    <2>1. f \in Platform /\ g \in Home
      BY <1>9 DEF Earlier
    <2>2. job.places = <<>> /\ job.todo \subseteq Platform
      BY <1>1, <2>1, Apart DEF LoadOK, Load
    <2>3. ~Ahead(job, g)
      BY <2>1, <2>2, Apart, PlacesDiffer DEF Ahead
    <2>4. Given(task, DueIn(text, kept, q.since, Heads(text), task, g), q.listed)
      BY <1>1, <2>3 DEF LoadOK
    <2> QED
      BY <2>4 DEF Given
  <1>10. RequestOK(text, kept, n, task, q2)
    <2>1. job.read \in 1..Heads(text)[f]
      BY <1>2 DEF Heads, Version
    <2>2. Found(text, kept, n, task, q2)
      BY <1>2, <1>3, <1>6, <1>9, <2>1 DEF Found
    <2>3. Window(text, q2.since, q2.till)
      BY <1>1, <1>6 DEF LoadOK
    <2> QED
      BY <1>4, <1>6, <1>8, <2>2, <2>3 DEF RequestOK
  <1>11. /\ OKCache(text, cache')
         /\ \A r \in Requests : Fits(text, kept, setting.namespace, cache', req[r].since)
    BY RunLeaves DEF Imports
  <1> QED
    BY <1>1, <1>4, <1>6, <1>7, <1>10, <1>11, LoadEnds

LEMMA RunFileStep ==
    ASSUME DiscoveryInv, RunFile
    PROVE  DiscoveryInv'
  <1> DEFINE code == CodeAt(job.file, job.read)
             works == Importable(cache, job.file, code)
             defs == IF works THEN Matches(TaskOf(job.on), code) ELSE {}
             got == {[style |-> style, version |-> HelperFor(cache, style)] :
                        style \in Styles \cap {code.helper}}
  <1>1. /\ job.file # Nobody /\ Imports(cache, job.file, job.read, code)
        /\ UNCHANGED <<setting, text, kept, row>>
    BY DEF RunFile, Unmoved
  <1>2. CASE TaskOf(job.on).op = "list" \/ defs = {}
    <2>1. /\ job' = After(job.file, job.read, works)
          /\ req' = [req EXCEPT ![job.on].listed = @ \cup {d \in defs : Converts(d)}]
      BY <1>2 DEF RunFile
    <2> QED
      BY <1>1, <1>2, <2>1, RunFileGoesOn
  <1>3. CASE ~(TaskOf(job.on).op = "list" \/ defs = {})
    <2>1. PICK d \in defs :
             req' = [req EXCEPT ![job.on].phase = Answered(TaskOf(job.on), d),
                                ![job.on].till = Versions,
                                ![job.on].file = job.file, ![job.on].main = job.read,
                                ![job.on].got = got]
      BY <1>3 DEF RunFile
    <2>2. d \in Matches(TaskOf(job.on), code) /\ job' = Idle
      BY <1>3 DEF RunFile
    <2> QED
      BY <1>1, <1>3, <2>1, <2>2, RunFileFinds
  <1> QED
    BY <1>2, <1>3

\* What a request comes to when a file is run.
LEMMA RunFilePhase ==
    ASSUME DiscoveryInv, RunFile
    PROVE  /\ row' = row /\ \A r \in Requests \ {job.on} : req'[r] = req[r]
           /\ job.on \in Requests =>
                 req'[job.on].phase \in {"loading", "running", "refused", "queued", "starting"}
  <1> DEFINE q == req[job.on]
             code == CodeAt(job.file, job.read)
             defs == IF Importable(cache, job.file, code)
                     THEN Matches(TaskOf(job.on), code) ELSE {}
  <1>1. job.file # Nobody /\ row' = row
    BY DEF RunFile, Unmoved
  <1>2. job.on # Nobody /\ q.phase = "loading"
    BY <1>1, ReadIsFresh, Apart, LoadInProgress DEF LoadOK
  <1>3. req \in [Requests -> Request]
    BY DEF DiscoveryInv, TypeInv
  <1>4. CASE TaskOf(job.on).op = "list" \/ defs = {}
    <2>1. req' = [req EXCEPT ![job.on].listed = @ \cup {d \in defs : Converts(d)}]
      BY <1>4 DEF RunFile
    <2> HIDE DEF defs
    <2> QED
      BY <1>1, <1>2, <1>3, <2>1 DEF Request
  <1>5. CASE ~(TaskOf(job.on).op = "list" \/ defs = {})
    <2>1. PICK d \in defs :
             req' = [req EXCEPT ![job.on].phase = Answered(TaskOf(job.on), d),
                                ![job.on].till = Versions,
                                ![job.on].file = job.file, ![job.on].main = job.read,
                                ![job.on].got =
                                   {[style |-> style, version |-> HelperFor(cache, style)] :
                                       style \in Styles \cap {code.helper}}]
      BY <1>5 DEF RunFile
    <2>2. d \in Def
      BY <1>1, ReadIsFresh DEF Matches, Code
    <2>3. Answered(TaskOf(job.on), d) \in {"running", "refused", "queued", "starting"}
      BY <1>2, <1>5, <2>2, LoadedTask, AnsweredPhase
    <2>4. job.on \in Requests => req'[job.on].phase = Answered(TaskOf(job.on), d)
      BY <1>3, <2>1 DEF Request
    <2>5. \A r \in Requests \ {job.on} : req'[r] = req[r]
      BY <1>3, <2>1
    <2> QED
      BY <1>1, <2>3, <2>4, <2>5
  <1> QED
    BY <1>4, <1>5

-----------------------------------------------------------------------------
(* The theorems.                                                           *)

LEMMA InitHolds ==
    ASSUME DiscoveryInit
    PROVE  DiscoveryInv /\ AnsweredIsRecorded
  <1>1. setting.files \in [Files -> Code] /\ setting \in Settings
    BY DiscoveryAssumption DEF DiscoveryInit
  <1>2. text = [f \in Files |-> <<[code |-> setting.files[f], stamp |-> 1]>>]
    BY DEF DiscoveryInit
  <1>3. ASSUME NEW f \in Files
        PROVE  text[f] \in Seq(Entry) /\ Len(text[f]) = 1
    <2> DEFINE e == [code |-> setting.files[f], stamp |-> 1]
    <2>1. e \in Entry
      BY <1>1 DEF Entry
    <2>2. text[f] = <<e>>
      BY <1>2
    <2> HIDE DEF e
    <2> QED
      BY <2>1, <2>2
  <1>4. OKHistory(text)
    <2>1. ASSUME NEW f \in Files, NEW i \in 1..Len(text[f]), NEW j \in 1..Len(text[f])
          PROVE  text[f][i].stamp <= text[f][j].stamp
      <3>1. i = 1 /\ j = 1 /\ text[f][1].stamp = 1
        BY <1>2, <1>3
      <3> QED
        BY <3>1
    <2>2. text \in Histories /\ \A f \in Files : Len(text[f]) \in Nat \ {0}
      BY <1>2, <1>3 DEF Histories
    <2> QED
      BY <2>1, <2>2 DEF OKHistory
  <1>5. Idle \in Load /\ Idle.on = Nobody /\ Idle.file = Nobody
    BY DEF Idle, Load
  <1>6. /\ Fresh \in Request /\ Fresh.phase = "new" /\ Fresh.file = Nobody /\ Fresh.got = {}
        /\ Fresh.listed = {} /\ \A f \in Files : Fresh.since[f] = 0
    BY DEF Fresh, Request, Phases
  <1>7. TypeInv
    <2>1. cache = [pyc |-> [f \in Files |-> 0], imported |-> 0, member |-> 0]
      BY DEF DiscoveryInit
    <2>2. OKCache(text, cache)
      BY <1>4, <2>1, HelperVersions DEF OKCache, OKHistory, Cache
    <2> QED
      BY <1>1, <1>4, <1>5, <1>6, <2>2 DEF TypeInv, DiscoveryInit, Statuses
  <1>8. CacheInv
    BY <1>5 DEF DiscoveryInit, CacheInv, Fits
  <1>9. LoadInv
    BY <1>5 DEF DiscoveryInit, LoadInv
  <1>10. RequestsInv
    BY <1>4, <1>6 DEF DiscoveryInit, RequestsInv, RequestOK, OKHistory
  <1>11. AnsweredIsRecorded
    BY <1>6 DEF DiscoveryInit, AnsweredIsRecorded
  <1> QED
    BY <1>7, <1>8, <1>9, <1>10, <1>11 DEF DiscoveryInv

LEMMA NextKeeps ==
    ASSUME DiscoveryInv, [DiscoveryNext]_vars
    PROVE  DiscoveryInv'
  <1>1. CASE DiscoveryNext
    BY <1>1, SaveFileStep, BeginStep, ListDirectoryStep, ReadFileStep, RunFileStep, RunOutStep,
       ValidateStep, ImportLateStep, UseInternalStep, EndStep, RecycleStep, RowSteps
    DEF DiscoveryNext
  <1>2. CASE UNCHANGED vars
    BY <1>2 DEF vars, DiscoveryInv, TypeInv, CacheInv, LoadInv, RequestsInv, Version, TaskOf
  <1> QED
    BY <1>1, <1>2

\* The invariant of discovery, for any files, code, requests and bounds.
THEOREM DiscoveryInvariant == DiscoverySpec => []DiscoveryInv
  <1>1. DiscoveryInit => DiscoveryInv
    BY InitHolds
  <1>2. DiscoveryInv /\ [DiscoveryNext]_vars => DiscoveryInv'
    BY NextKeeps
  <1> QED
    BY <1>1, <1>2, PTL DEF DiscoverySpec

\* Whatever ran, was validated or imported in the process before, the code a request runs, the
\* helper its file imported and the ones it imports late are what the files held when its load
\* began or something saved since, with the code's two exceptions: a .pyc that could not be
\* deleted and still matches by time and size, and a helper taken as member of a directory
\* without __init__.py.
THEOREM CodeIsFreshAlways == DiscoverySpec => []CodeIsFresh
  <1>1. DiscoveryInv => CodeIsFresh
    <2> SUFFICES ASSUME DiscoveryInv, NEW r \in Requests, req[r].file # Nobody
                 PROVE  /\ req[r].main <= req[r].till[req[r].file]
                        /\ Recent(r, req[r].file, req[r].main)
                        /\ \A g \in req[r].got : (setting.namespace => g.style = "module") =>
                              Recent(r, Helper, g.version)
      BY DEF CodeIsFresh
    <2>1. Found(text, kept, setting.namespace, TaskOf(r), req[r])
      BY DEF DiscoveryInv, RequestsInv, RequestOK
    <2>2. req[r].main <= req[r].till[req[r].file]
      <3>1. req[r].file \in Files /\ req[r].till \in [Files -> Nat] /\ req[r].main \in Nat
        BY DEF DiscoveryInv, TypeInv, Request
      <3> QED
        BY <2>1, <3>1 DEF Found
    <2>3. Recent(r, req[r].file, req[r].main)
      BY <2>1, Zenon DEF Found, Recent, RecentIn
    <2>4. ASSUME NEW g \in req[r].got, setting.namespace => g.style = "module"
          PROVE  Recent(r, Helper, g.version)
      BY <2>1, <2>4, Zenon DEF Found, OKGot, Recent, RecentIn
    <2> QED
      BY <2>2, <2>3, <2>4
  <1> QED
    BY <1>1, DiscoveryInvariant, PTL

\* Files that are saved, deleted or cannot be imported hide nothing that is defined in a file
\* that stayed as it was during the whole load.
THEOREM FindsWhatStayedAlways == DiscoverySpec => []FindsWhatStayed
  <1>1. ASSUME DiscoveryInv, NEW r \in Requests, NEW f \in Files
        PROVE  (IF Stayed(r, f) THEN Matches(TaskOf(r), CodeAt(f, req[r].till[f])) ELSE {})
                  = DueIn(text, kept, req[r].since, req[r].till, TaskOf(r), f)
    BY DEF Stayed, StayedIn, DueIn, CodeAt
  <1>2. ASSUME DiscoveryInv, NEW r \in Requests
        PROVE  RequestOK(text, kept, setting.namespace, TaskOf(r), req[r])
    BY <1>2 DEF DiscoveryInv, RequestsInv
  <1>3. DiscoveryInv => FindsWhatStayed
    <2> SUFFICES ASSUME DiscoveryInv, NEW r \in Requests
                 PROVE  LET due(f) == DueIn(text, kept, req[r].since, req[r].till, TaskOf(r), f)
                        IN  /\ req[r].phase = "listed" =>
                                 /\ \A f \in Files : {d \in due(f) : d.sound} \subseteq req[r].listed
                                 /\ \A d \in req[r].listed : \E f \in Files :
                                       \E v \in 1..req[r].till[f] :
                                          Recent(r, f, v) /\ d \in CodeAt(f, v).defs
                            /\ req[r].phase = "absent" => \A f \in Files : due(f) = {}
                            /\ req[r].file # Nobody =>
                                  \A f \in Files : Earlier(f, req[r].file) => due(f) = {}
      BY <1>1 DEF FindsWhatStayed
    <2> QED
      BY <1>2 DEF RequestOK, Given, Found, Defined, CodeAt, Recent, RecentIn
  <1> QED
    BY <1>3, DiscoveryInvariant, PTL

\* Whichever requests to storage fail, the status a synchronous endpoint call is answered with
\* is the status of its execution row.
THEOREM AnsweredIsRecordedAlways == DiscoverySpec => []AnsweredIsRecorded
  <1>1. ASSUME DiscoveryInv, AnsweredIsRecorded, [DiscoveryNext]_vars
        PROVE  AnsweredIsRecorded'
    <2> SUFFICES ASSUME NEW r \in Requests, req'[r].phase \in {"Success", "Failed"}
                 PROVE  row'[r] = req'[r].phase
      BY DEF AnsweredIsRecorded
    <2> DEFINE Kept == row'[r] = row[r] /\ req'[r].phase = req[r].phase
    <2>1. req \in [Requests -> Request] /\ row \in [Requests -> Statuses]
      BY <1>1 DEF DiscoveryInv, TypeInv
    <2>2. Kept => row'[r] = req'[r].phase
      BY <1>1 DEF AnsweredIsRecorded
    <2>3. CASE UNCHANGED <<req, row>>
      BY <2>2, <2>3
    <2>4. ASSUME NEW s \in Requests, row' = row, req'[s].phase \notin {"Success", "Failed"},
                 \A t \in Requests \ {s} : req'[t] = req[t]
          PROVE  row'[r] = req'[r].phase
      BY <2>2, <2>4
    <2>5. ASSUME NEW s \in Requests, CreateRow(s) \/ RecordReturn(s) \/ RecordRaise(s)
          PROVE  row'[r] = req'[r].phase
      <3>1. CASE s # r
        <4>1. Kept
          BY <2>1, <2>5, <3>1 DEF CreateRow, RecordReturn, RecordRaise, Writes
        <4> QED
          BY <4>1, <2>2
      <3>2. CASE s = r
        BY <2>1, <2>5, <3>2 DEF CreateRow, RecordReturn, RecordRaise, Writes, Request
      <3> QED
        BY <3>1, <3>2
    <2>6. CASE SaveFile \/ ListDirectory \/ UseInternal \/ (\E f \in Files : ReadFile(f))
      BY <2>3, <2>6 DEF SaveFile, ListDirectory, UseInternal, ReadFile, Unmoved
    <2>7. CASE UNCHANGED vars
      BY <2>3, <2>7 DEF vars
    <2>8. ASSUME NEW s \in Requests, \/ Begin(s) \/ Validate(s) \/ End(s) \/ CallEnds(s)
                                     \/ \E style \in Styles : ImportLate(s, style)
          PROVE  row'[r] = req'[r].phase
      <3>1. row' = row /\ \A t \in Requests \ {s} : req'[t] = req[t]
        BY <2>1, <2>8 DEF Begin, Validate, ImportLate, End, CallEnds, Unmoved, Still
      <3>2. req'[s].phase \in {"loading", "done", "running", "returned", "raised"}
        BY <2>1, <2>8 DEF Begin, Validate, ImportLate, End, CallEnds, Request
      <3> QED
        BY <3>1, <3>2, <2>4
    <2>9. CASE RunFile \/ RunOut
      <3>1. job.on \in Requests
        BY <1>1, <2>9, ReadIsFresh, LoadInProgress DEF RunFile, RunOut
      <3>2. row' = row /\ \A t \in Requests \ {job.on} : req'[t] = req[t]
        BY <1>1, <2>1, <2>9, RunFilePhase DEF RunOut, Unmoved
      <3>3. req'[job.on].phase \notin {"Success", "Failed"}
        <4>1. CASE RunFile
          BY <1>1, <3>1, <4>1, RunFilePhase
        <4>2. CASE RunOut
          BY <2>1, <3>1, <4>2 DEF RunOut, Request
        <4> QED
          BY <2>9, <4>1, <4>2
      <3> QED
        BY <3>1, <3>2, <3>3, <2>4
    <2>10. CASE Recycle
      <3>1. row' = row /\ (req'[r] = req[r] \/ req'[r].phase = "killed")
        BY <2>1, <2>10 DEF Recycle, Request
      <3> QED
        BY <2>2, <3>1
    <2> QED
      BY <1>1, <2>5, <2>6, <2>7, <2>8, <2>9, <2>10 DEF DiscoveryNext
  <1> QED
    BY <1>1, InitHolds, DiscoveryInvariant, PTL DEF DiscoverySpec
=============================================================================
