--------------------------- MODULE ReportingProofs ---------------------------
(***************************************************************************)
(* Theorems about the two components that answer the dashboard's questions *)
(* of the cameras and of the events.                                       *)
(*                                                                         *)
(* CameraDirectory, for every set of threads, registry and set of answers, *)
(* every time to live and timeout, and every bound.  The age of what is    *)
(* served rests on two facts about list and stamp, which are stored apart: *)
(* whoever stores a list stores one the site gave less than FetchTime ago, *)
(* so no stamp anyone holds or has stored is more than FetchTime ahead of  *)
(* the list in the cache.                                                  *)
(*                                                                         *)
(* Analytics, for every ground truth, samples, registry, lists of cameras, *)
(* queries, times the process starts and every bound: what seeding leaves  *)
(* in the table, and that every report agrees with itself, with the        *)
(* drill-down and with the calendar.  The sums rest on one lemma,          *)
(* CountsAddUp: counted by a label, the elements of a set add up to their  *)
(* number.                                                                 *)
(***************************************************************************)
EXTENDS CameraDirectory, Analytics, TLAPS, FiniteSetTheorems, SequenceTheorems

-----------------------------------------------------------------------------
(* CameraDirectory.                                                        *)

\* The stamp (or the time a request is going to store) is not far ahead of the list.
Behind(now, list) == list.ids # {} => now <= list.got + FetchTime

\* The list may be served to a request that looked into the cache at now.
Servable(now, list) == list.ids # {} => list.got > now - TTL - FetchTime

CachesOK ==
    /\ stamp # None => stamp <= clock /\ Behind(stamp, cameras)
    /\ catStamp # None => catStamp <= clock /\ Behind(catStamp, catalogue)

\* Where a request may be, and what it holds there.
PlaceOK(r) ==
    /\ r.at \in {"unstamp", "look"} => r.op = "sync"
    /\ r.at \in {"unstamp", "look", "compare", "fetch"} => r.own = None
    /\ r.at \in {"keep", "stamp"} => r.own # None /\ (r.op = "summary" => r.own.ids # {})

\* The times of a request.
TimesOK(r) ==
    /\ r.began <= r.now /\ r.now <= clock /\ clock <= r.now + FetchTime
    /\ r.own # None => r.now <= r.own.got /\ r.own.got <= clock

\* What the caches hold for a request.
ViewOK(r) ==
    /\ r.at = "stamp" => Behind(r.now, IF r.op = "summary" THEN catalogue ELSE cameras)
    /\ r.at = "serve" /\ r.op # "summary" => Servable(r.now, cameras)
    /\ r.at = "serve" /\ r.op = "summary" /\ (r.own = None \/ r.own.ids # {}) =>
          Servable(r.now, catalogue)
    /\ r.at \in {"compare", "serve"} /\ r.op = "summary" /\ r.own = None =>
          catalogue.ids # {}

RequestOK(r) == PlaceOK(r) /\ TimesOK(r) /\ ViewOK(r)

IInv ==
    /\ TypeOK
    /\ CachesOK
    /\ \A t \in Threads : req[t] # None => RequestOK(req[t])
    /\ ServedAge

-----------------------------------------------------------------------------
(* Type correctness.                                                       *)

LEMMA FetchedIsList ==
    ASSUME TypeOK, NEW a \in Answers
    PROVE  Fetched(a) \in List
<1>1. a \in Answer
  BY DirectoryConstants
<1>2. Parsed(a.entries) \subseteq STRING
  BY <1>1 DEF Answer, Parsed, IsCamera
<1>3. FetchedIds(a) \in SUBSET STRING
  BY <1>2, DirectoryConstants DEF FetchedIds, Provisional
<1> QED
  BY <1>3 DEF Fetched, List, TypeOK

LEMMA BlankIsList == ASSUME TypeOK PROVE Blank \in List
  BY DirectoryConstants DEF Blank, List, TypeOK

LEMMA InitTypeOK == Init => TypeOK
<1> SUFFICES ASSUME Init PROVE TypeOK
  OBVIOUS
<1>1. 0 \in 0 .. MaxClock /\ 0 \in 0 .. MaxRequests
  BY DirectoryConstants
<1>2. PICK a \in Answers : cameras = Fetched(a)
  BY DEF Init
<1>3. a \in Answer
  BY DirectoryConstants
<1>4. Parsed(a.entries) \subseteq STRING
  BY <1>3 DEF Answer, Parsed, IsCamera
<1>5. FetchedIds(a) \in SUBSET STRING
  BY <1>4, DirectoryConstants DEF FetchedIds, Provisional
<1>6. cameras \in List
  BY <1>1, <1>2, <1>5 DEF Fetched, List, Init
<1>7. catalogue \in List
  BY <1>1 DEF Blank, List, Init
<1> QED
  BY <1>1, <1>6, <1>7 DEF Init, TypeOK

\* What is kept and served is a list because of what a request holds there.
LEMMA NextTypeOK == IInv /\ [Next]_vars => TypeOK'
<1> SUFFICES ASSUME IInv, [Next]_vars PROVE TypeOK'
  OBVIOUS
<1> USE DirectoryConstants
<1>0. TypeOK
  BY DEF IInv
<1>1. CASE Tick
  BY <1>0, <1>1 DEF Tick, TypeOK, mainCache, catCache, List, Request
<1>2. ASSUME NEW t \in Threads, SyncBegin(t) PROVE TypeOK'
  <2>1. [op |-> "sync", began |-> clock, now |-> clock,
         own |-> None, at |-> "unstamp"] \in Request
    BY <1>0 DEF TypeOK, Request
  <2> QED
    BY <1>0, <1>2, <2>1, BlankIsList DEF SyncBegin, Begin, TypeOK, catCache
<1>3. ASSUME NEW t \in Threads, SyncUnstamp(t) PROVE TypeOK'
  <2>1. [req[t] EXCEPT !.at = "look"] \in Request
    BY <1>0, <1>3 DEF SyncUnstamp, IsAt, TypeOK, Request
  <2> QED
    BY <1>0, <1>3, <2>1 DEF SyncUnstamp, Unmoved, TypeOK, catCache
<1>4. ASSUME NEW t \in Threads, SyncLook(t) PROVE TypeOK'
  <2>1. \A place \in {"fetch", "compare"} :
           [req[t] EXCEPT !.now = clock, !.at = place] \in Request
    BY <1>0, <1>4 DEF SyncLook, IsAt, TypeOK, Request
  <2>2. PICK place \in {"fetch", "compare"} :
           req' = [req EXCEPT ![t].now = clock, ![t].at = place]
    BY <1>0, <1>4 DEF SyncLook
  <2>3. req' = [req EXCEPT ![t] = [req[t] EXCEPT !.now = clock, !.at = place]]
    BY <1>0, <2>2 DEF TypeOK
  <2> QED
    BY <1>0, <1>4, <2>1, <2>3, Zenon DEF SyncLook, Unmoved, TypeOK, mainCache, catCache
<1>5. ASSUME NEW t \in Threads, ListLook(t) PROVE TypeOK'
  <2>1. \A place \in {"fetch", "compare"} :
          [op |-> "list", began |-> clock, now |-> clock,
           own |-> None, at |-> place] \in Request
    BY <1>0 DEF TypeOK, Request
  <2> QED
    BY <1>0, <1>5, <2>1 DEF ListLook, Begin, TypeOK, mainCache, catCache
<1>6. ASSUME NEW t \in Threads, Compare(t) PROVE TypeOK'
  <2>1. \A place \in {"serve", "fetch"} : [req[t] EXCEPT !.at = place] \in Request
    BY <1>0, <1>6 DEF Compare, IsAt, TypeOK, Request
  <2> QED
    BY <1>0, <1>6, <2>1 DEF Compare, Unmoved, TypeOK, mainCache, catCache
<1>7. ASSUME NEW t \in Threads, SummaryLook(t) PROVE TypeOK'
  <2>1. \A place \in {"fetch", "compare"} :
          [op |-> "summary", began |-> clock, now |-> clock,
           own |-> None, at |-> place] \in Request
    BY <1>0 DEF TypeOK, Request
  <2> QED
    BY <1>0, <1>7, <2>1 DEF SummaryLook, Begin, TypeOK, mainCache, catCache
<1>8. ASSUME NEW t \in Threads, Fetch(t) PROVE TypeOK'
  <2>1. PICK a \in Answers, place \in {"serve", "keep"} :
           req' = [req EXCEPT ![t].own = Fetched(a), ![t].at = place]
    BY <1>0, <1>8 DEF Fetch
  <2>2. Fetched(a) \in List
    BY <1>0, FetchedIsList
  <2>3. [req[t] EXCEPT !.own = Fetched(a), !.at = place] \in Request
    BY <1>0, <1>8, <2>2 DEF Fetch, IsAt, TypeOK, Request
  <2>4. req' = [req EXCEPT ![t] = [req[t] EXCEPT !.own = Fetched(a), !.at = place]]
    BY <1>0, <2>1 DEF TypeOK
  <2> QED
    BY <1>0, <1>8, <2>3, <2>4 DEF Fetch, Unmoved, TypeOK, mainCache, catCache
<1>9. ASSUME NEW t \in Threads, Keep(t) PROVE TypeOK'
  <2>1. req[t] \in Request /\ req[t].own \in List
    BY <1>0, <1>9 DEF Keep, IsAt, TypeOK, Request, IInv, RequestOK, PlaceOK
  <2>2. [req[t] EXCEPT !.at = "stamp"] \in Request
    BY <2>1 DEF Request
  <2> QED
    BY <1>0, <1>9, <2>1, <2>2 DEF Keep, Goto, Unmoved, TypeOK
<1>10. ASSUME NEW t \in Threads, Stamp(t) PROVE TypeOK'
  <2>1. req[t] \in Request /\ req[t].own \in List
    BY <1>0, <1>10 DEF Stamp, IsAt, TypeOK, Request, IInv, RequestOK, PlaceOK
  <2>2. [req[t] EXCEPT !.at = "serve"] \in Request
    BY <2>1 DEF Request
  <2>3. [op |-> req[t].op, began |-> req[t].began,
         own |-> req[t].own, list |-> req[t].own] \in Reply
    BY <2>1 DEF Request, Reply
  <2>4. req[t].now \in 0 .. MaxClock
    BY <2>1 DEF Request
  <2> QED
    BY <1>0, <1>10, <2>2, <2>3, <2>4 DEF Stamp, Goto, Unmoved, Respond, TypeOK
<1>11. ASSUME NEW t \in Threads, Serve(t) PROVE TypeOK'
  <2>1. req[t] \in Request
    BY <1>0, <1>11 DEF Serve, IsAt, TypeOK
  <2>2. [op |-> req[t].op, began |-> req[t].began,
         own |-> req[t].own, list |-> cameras] \in Reply
    BY <1>0, <2>1 DEF Request, Reply, TypeOK
  <2> QED
    BY <1>0, <1>11, <2>2 DEF Serve, Respond, TypeOK, mainCache, catCache
<1>12. ASSUME NEW t \in Threads, SummaryServe(t) PROVE TypeOK'
  <2> DEFINE list == IF catalogue.ids # {} THEN catalogue ELSE req[t].own
  <2>1. req[t] \in Request /\ list \in List
    BY <1>0, <1>12 DEF SummaryServe, IsAt, IsFor, TypeOK, Request, IInv, RequestOK, ViewOK
  <2>2. [op |-> req[t].op, began |-> req[t].began,
         own |-> req[t].own, list |-> list] \in Reply
    BY <2>1 DEF Request, Reply
  <2> QED
    BY <1>0, <1>12, <2>2 DEF SummaryServe, Respond, TypeOK, mainCache, catCache
<1>13. ASSUME NEW t \in Threads, SummaryCompare(t) PROVE TypeOK'
  <2>1. \A place \in {"serve", "fetch"} : [req[t] EXCEPT !.at = place] \in Request
    BY <1>0, <1>13 DEF SummaryCompare, IsAt, TypeOK, Request
  <2> QED
    BY <1>0, <1>13, <2>1 DEF SummaryCompare, Goto, Unmoved, TypeOK, mainCache, catCache
<1>14. CASE UNCHANGED vars
  BY <1>0, <1>14 DEF vars, mainCache, catCache, TypeOK
<1> QED
  BY <1>1, <1>2, <1>3, <1>4, <1>5, <1>6, <1>7, <1>8, <1>9, <1>10, <1>11, <1>12, <1>13,
     <1>14 DEF Next

-----------------------------------------------------------------------------
(* The invariant is inductive.                                             *)

\* A list that a step stores was given by the site not long ago.
Recent(list) == clock <= list.got + FetchTime

\* What a step may do to the two caches' lists.
ListsStep ==
    /\ cameras' = cameras \/ cameras'.ids = {} \/ Recent(cameras')
    /\ catalogue' = catalogue \/ (catalogue'.ids # {} /\ Recent(catalogue'))

\* Such a step disturbs no other request.
LEMMA Frame ==
    ASSUME TypeOK, TypeOK', clock' = clock, ListsStep,
           NEW r \in Request, RequestOK(r)
    PROVE  RequestOK(r)'
<1> USE DirectoryConstants
<1>1. PlaceOK(r)'
  BY DEF RequestOK, PlaceOK
<1>2. TimesOK(r)'
  BY DEF RequestOK, TimesOK
<1>3. /\ r.now \in Nat /\ clock \in Nat /\ FetchTime \in Nat /\ TTL \in Nat \ {0}
      /\ cameras.got \in Nat /\ cameras'.got \in Nat
      /\ catalogue.got \in Nat /\ catalogue'.got \in Nat
  BY DEF TypeOK, Request, List
<1>4. r.now <= clock
  BY DEF RequestOK, TimesOK
<1>5. ASSUME Behind(r.now, cameras) PROVE Behind(r.now, cameras')
  BY <1>3, <1>4, <1>5 DEF Behind, ListsStep, Recent
<1>6. ASSUME Behind(r.now, catalogue) PROVE Behind(r.now, catalogue')
  BY <1>3, <1>4, <1>6 DEF Behind, ListsStep, Recent
<1>7. ASSUME Servable(r.now, cameras) PROVE Servable(r.now, cameras')
  BY <1>3, <1>4, <1>7 DEF Servable, ListsStep, Recent
<1>8. ASSUME Servable(r.now, catalogue) PROVE Servable(r.now, catalogue')
  BY <1>3, <1>4, <1>8 DEF Servable, ListsStep, Recent
<1>9. ViewOK(r)
  BY DEF RequestOK
<1>10. catalogue.ids # {} => catalogue'.ids # {}
  BY DEF ListsStep
<1>11. ViewOK(r)'
  <2>1. (r.at = "stamp" =>
           Behind(r.now, IF r.op = "summary" THEN catalogue ELSE cameras))'
    BY <1>5, <1>6, <1>9 DEF ViewOK, Behind
  <2>2. (r.at = "serve" /\ r.op # "summary" => Servable(r.now, cameras))'
    BY <1>7, <1>9 DEF ViewOK, Servable
  <2>3. (r.at = "serve" /\ r.op = "summary" /\ (r.own = None \/ r.own.ids # {}) =>
            Servable(r.now, catalogue))'
    BY <1>8, <1>9 DEF ViewOK, Servable
  <2>4. (r.at \in {"compare", "serve"} /\ r.op = "summary" /\ r.own = None =>
            catalogue.ids # {})'
    BY <1>9, <1>10 DEF ViewOK
  <2> QED
    BY <2>1, <2>2, <2>3, <2>4 DEF ViewOK
<1> QED
  BY <1>1, <1>2, <1>11 DEF RequestOK

\* A step of one request that leaves it in order leaves all of them in order.
LEMMA OneRequest ==
    ASSUME IInv, TypeOK', clock' = clock, ListsStep,
           NEW t \in Threads, NEW next \in Request \cup {None},
           req' = [req EXCEPT ![t] = next],
           next # None => RequestOK(next)'
    PROVE  (\A u \in Threads : req[u] # None => RequestOK(req[u]))'
<1> SUFFICES ASSUME NEW u \in Threads, req'[u] # None
             PROVE  RequestOK(req[u])'
  OBVIOUS
<1>1. TypeOK
  BY DEF IInv
<1>2. CASE u = t
  <2>1. req'[u] = next
    BY <1>1, <1>2 DEF TypeOK
  <2>2. RequestOK(next)'
    BY <2>1
  <2> QED
    BY <2>1, <2>2
       DEF RequestOK, PlaceOK, TimesOK, ViewOK, Behind, Servable
<1>3. CASE u # t
  <2>1. req'[u] = req[u]
    BY <1>1, <1>3 DEF TypeOK
  <2>2. PICK r \in Request : r = req[u] /\ RequestOK(r)
    BY <1>1, <2>1 DEF TypeOK, IInv
  <2>3. RequestOK(r)'
    BY <1>1, <2>2, Frame
  <2> QED
    BY <2>1, <2>2, <2>3
       DEF RequestOK, PlaceOK, TimesOK, ViewOK, Behind, Servable
<1> QED
  BY <1>2, <1>3

\* The times a request begins with.
LEMMA NewTimes ==
    ASSUME TypeOK, clock' = clock, NEW r \in Request, r.began = clock,
           r.now = clock, r.own = None
    PROVE  TimesOK(r)'
  BY DirectoryConstants DEF TypeOK, TimesOK

LEMMA InitIInv == Init => IInv
<1> SUFFICES ASSUME Init PROVE IInv
  OBVIOUS
<1> USE DirectoryConstants
<1>1. TypeOK
  BY InitTypeOK
<1>2. PICK a \in Answers : cameras = Fetched(a)
  BY DEF Init
<1>3. CachesOK
  BY <1>1, <1>2 DEF Init, CachesOK, Behind, Fetched, TypeOK
<1>4. ServedAge
  BY DEF Init, ServedAge
<1> QED
  BY <1>1, <1>3, <1>4 DEF IInv, Init

LEMMA TickIInv == IInv /\ TypeOK' /\ Tick => IInv'
<1> SUFFICES ASSUME IInv, TypeOK', Tick PROVE IInv'
  OBVIOUS
<1> USE DirectoryConstants
<1>1. TypeOK
  BY DEF IInv
<1>2. CachesOK'
  BY <1>1 DEF Tick, IInv, CachesOK, Behind, mainCache, catCache, TypeOK, List
<1>3. (\A t \in Threads : req[t] # None => RequestOK(req[t]))'
  <2> SUFFICES ASSUME NEW t \in Threads, req'[t] # None PROVE RequestOK(req[t])'
    OBVIOUS
  <2>1. req' = req /\ cameras' = cameras /\ catalogue' = catalogue
    BY DEF Tick, mainCache, catCache
  <2>2. PICK r \in Request : r = req[t] /\ RequestOK(r)
    BY <1>1, <2>1 DEF TypeOK, IInv
  <2>3. PlaceOK(r)' /\ ViewOK(r)'
    BY <2>1, <2>2 DEF RequestOK, PlaceOK, ViewOK, Behind, Servable
  <2>4. clock' = clock + 1 /\ clock < r.now + FetchTime
    BY <2>1, <2>2 DEF Tick
  <2>5. TimesOK(r)'
    <3>1. r.own # None => r.own.got \in Nat
      BY DEF Request, List
    <3> QED
      BY <1>1, <2>2, <2>4, <3>1 DEF RequestOK, TimesOK, TypeOK, Request
  <2> QED
    BY <2>1, <2>2, <2>3, <2>5
       DEF RequestOK, PlaceOK, TimesOK, ViewOK, Behind, Servable
<1>4. ServedAge'
  BY DEF Tick, ServedAge
<1> QED
  BY <1>2, <1>3, <1>4 DEF IInv

LEMMA SyncIInv ==
    ASSUME IInv, TypeOK', NEW t \in Threads,
           SyncBegin(t) \/ SyncUnstamp(t) \/ SyncLook(t)
    PROVE  IInv'
<1> USE DirectoryConstants
<1>1. TypeOK
  BY DEF IInv
<1>2. CASE SyncBegin(t)
  <2>1. PICK r : r = [op |-> "sync", began |-> clock, now |-> clock,
                      own |-> None, at |-> "unstamp"]
    OBVIOUS
  <2>2. r \in Request /\ req' = [req EXCEPT ![t] = r]
    BY <1>1, <1>2, <2>1 DEF SyncBegin, Begin, Request, TypeOK
  <2>3. RequestOK(r)'
    BY <1>1, <1>2, <2>1, <2>2, NewTimes
       DEF SyncBegin, Begin, RequestOK, PlaceOK, ViewOK
  <2>4. ListsStep /\ clock' = clock
    BY <1>2 DEF SyncBegin, Begin, ListsStep, Blank, catCache
  <2>5. CachesOK'
    BY <1>2, <2>4 DEF SyncBegin, IInv, CachesOK, Behind, Blank, catCache
  <2>6. ServedAge'
    BY <1>2 DEF SyncBegin, Begin, ServedAge
  <2> QED
    BY <2>2, <2>3, <2>4, <2>5, <2>6, OneRequest DEF IInv
<1>3. CASE SyncUnstamp(t)
  <2>1. PICK r : r = [req[t] EXCEPT !.at = "look"]
    OBVIOUS
  <2>2. req[t] \in Request /\ RequestOK(req[t]) /\ req[t].at = "unstamp"
    BY <1>1, <1>3 DEF SyncUnstamp, IsAt, TypeOK, IInv
  <2>3. r \in Request /\ req' = [req EXCEPT ![t] = r]
    BY <1>3, <2>1, <2>2 DEF SyncUnstamp, Request
  <2>4. ListsStep /\ clock' = clock
    BY <1>3 DEF SyncUnstamp, Unmoved, ListsStep, catCache
  <2>5. RequestOK(r)'
    BY <2>1, <2>2, <2>4 DEF RequestOK, PlaceOK, TimesOK, ViewOK, Request
  <2>6. CachesOK'
    BY <1>3, <2>4 DEF SyncUnstamp, IInv, CachesOK, Behind, catCache
  <2>7. ServedAge'
    BY <1>3 DEF SyncUnstamp, Unmoved, ServedAge
  <2> QED
    BY <2>3, <2>4, <2>5, <2>6, <2>7, OneRequest DEF IInv
<1>4. CASE SyncLook(t)
  <2>1. PICK place \in {"fetch", "compare"} :
           req' = [req EXCEPT ![t].now = clock, ![t].at = place]
    BY <1>4 DEF SyncLook
  <2>2. PICK r : r = [req[t] EXCEPT !.now = clock, !.at = place]
    OBVIOUS
  <2>3. req[t] \in Request /\ RequestOK(req[t]) /\ req[t].at = "look"
    BY <1>1, <1>4 DEF SyncLook, IsAt, TypeOK, IInv
  <2>4. r \in Request /\ req' = [req EXCEPT ![t] = r]
    BY <1>1, <2>1, <2>2, <2>3 DEF Request, TypeOK
  <2>5. ListsStep /\ clock' = clock
    BY <1>4 DEF SyncLook, Unmoved, ListsStep, mainCache, catCache
  <2>6. /\ r.op = "sync" /\ r.own = None /\ r.at = place /\ r.now = clock
        /\ r.began = req[t].began
    BY <2>2, <2>3 DEF RequestOK, PlaceOK, Request
  <2>7. req[t].began <= clock
    BY <1>1, <2>3 DEF RequestOK, TimesOK, Request, TypeOK
  <2>8. TimesOK(r)'
    BY <1>1, <2>5, <2>6, <2>7 DEF TimesOK, TypeOK
  <2>9. RequestOK(r)'
    BY <2>6, <2>8 DEF RequestOK, PlaceOK, ViewOK
  <2>10. CachesOK'
    BY <1>4, <2>5 DEF SyncLook, IInv, CachesOK, mainCache, catCache
  <2>11. ServedAge'
    BY <1>4 DEF SyncLook, Unmoved, ServedAge
  <2> QED
    BY <2>4, <2>5, <2>9, <2>10, <2>11, OneRequest DEF IInv
<1> QED
  BY <1>2, <1>3, <1>4

LEMMA LookIInv ==
    ASSUME IInv, TypeOK', NEW t \in Threads, ListLook(t) \/ SummaryLook(t)
    PROVE  IInv'
<1> USE DirectoryConstants
<1>1. TypeOK
  BY DEF IInv
<1>2. /\ ListsStep /\ clock' = clock /\ reply' = None
      /\ UNCHANGED <<mainCache, catCache>>
  BY DEF ListLook, SummaryLook, Begin, ListsStep, mainCache, catCache
<1>3. CachesOK'
  BY <1>2 DEF IInv, CachesOK, mainCache, catCache
<1>4. ServedAge'
  BY <1>2 DEF ServedAge
<1>5. ASSUME NEW r \in Request, req' = [req EXCEPT ![t] = r], RequestOK(r)'
      PROVE  IInv'
  BY <1>2, <1>3, <1>4, <1>5, OneRequest DEF IInv
<1>6. CASE ListLook(t)
  <2>1. PICK r : /\ r = [op |-> "list", began |-> clock, now |-> clock, own |-> None,
                         at |-> IF stamp = None THEN "fetch" ELSE "compare"]
    OBVIOUS
  <2>2. r \in Request /\ req' = [req EXCEPT ![t] = r]
    BY <1>1, <1>6, <2>1 DEF ListLook, Begin, Request, TypeOK
  <2>3. RequestOK(r)'
    BY <1>1, <1>2, <2>1, <2>2, NewTimes DEF RequestOK, PlaceOK, ViewOK
  <2> QED
    BY <1>5, <2>2, <2>3
<1>7. CASE SummaryLook(t)
  <2>1. PICK r : /\ r = [op |-> "summary", began |-> clock, now |-> clock, own |-> None,
                         at |-> IF catalogue.ids # {} THEN "compare" ELSE "fetch"]
    OBVIOUS
  <2>2. r \in Request /\ req' = [req EXCEPT ![t] = r]
    BY <1>1, <1>7, <2>1 DEF SummaryLook, Begin, Request, TypeOK
  <2>3. catalogue' = catalogue
    BY <1>2 DEF catCache
  <2>4. PlaceOK(r)' /\ ViewOK(r)'
    BY <2>1, <2>3 DEF PlaceOK, ViewOK
  <2>5. TimesOK(r)'
    BY <1>1, <1>2, <2>1, <2>2, NewTimes
  <2> QED
    BY <1>5, <2>2, <2>4, <2>5 DEF RequestOK
<1> QED
  BY <1>6, <1>7

LEMMA SummaryCompareIInv ==
    ASSUME IInv, TypeOK', NEW t \in Threads, SummaryCompare(t)
    PROVE  IInv'
<1> USE DirectoryConstants
<1>1. TypeOK
  BY DEF IInv
<1>2. /\ ListsStep /\ clock' = clock /\ reply' = None
      /\ UNCHANGED <<mainCache, catCache>>
  BY DEF SummaryCompare, Unmoved, ListsStep, mainCache, catCache
<1>3. CachesOK'
  BY <1>2 DEF IInv, CachesOK, mainCache, catCache
<1>4. ServedAge'
  BY <1>2 DEF ServedAge
<1>5. PICK now, fresh : now = req[t].now /\ fresh = IsFresh(now, catStamp)
  OBVIOUS
<1>6. PICK r : r = [req[t] EXCEPT !.at = IF fresh THEN "serve" ELSE "fetch"]
  OBVIOUS
<1>7. /\ req[t] \in Request /\ RequestOK(req[t])
      /\ req[t].at = "compare" /\ req[t].op = "summary"
  BY <1>1 DEF SummaryCompare, IsAt, IsFor, TypeOK, IInv
<1>8. /\ r \in Request /\ req' = [req EXCEPT ![t] = r]
      /\ r.own = req[t].own /\ r.began = req[t].began /\ r.now = now
      /\ r.op = "summary" /\ r.at = IF fresh THEN "serve" ELSE "fetch"
  BY <1>1, <1>5, <1>6, <1>7 DEF SummaryCompare, Goto, Request, TypeOK
<1>9. r.own = None /\ catalogue.ids # {}
  BY <1>7, <1>8 DEF RequestOK, PlaceOK, ViewOK
<1>10. PlaceOK(r)' /\ TimesOK(r)'
  BY <1>2, <1>5, <1>7, <1>8, <1>9 DEF RequestOK, PlaceOK, TimesOK
<1>11. ASSUME fresh PROVE Servable(now, catalogue)
  <2>1. IsFresh(now, catStamp)
    BY <1>5, <1>11
  <2>2. catStamp \in Nat /\ now \in Nat /\ now - catStamp < TTL
    BY <1>1, <1>5, <1>7, <2>1 DEF IsFresh, Request, TypeOK
  <2>3. Behind(catStamp, catalogue)
    BY <2>1 DEF IsFresh, IInv, CachesOK
  <2> QED
    BY <1>1, <2>2, <2>3 DEF Servable, Behind, TypeOK, List
<1>12. ViewOK(r)'
  <2>1. catalogue' = catalogue
    BY <1>2 DEF catCache
  <2> QED
    BY <1>8, <1>9, <1>11, <2>1 DEF ViewOK, Servable
<1> QED
  BY <1>2, <1>3, <1>4, <1>8, <1>10, <1>12, OneRequest DEF IInv, RequestOK

LEMMA CompareIInv ==
    ASSUME IInv, TypeOK', NEW t \in Threads, Compare(t)
    PROVE  IInv'
<1> USE DirectoryConstants
<1>1. TypeOK
  BY DEF IInv
<1>2. /\ ListsStep /\ clock' = clock /\ reply' = None
      /\ UNCHANGED <<mainCache, catCache>>
  BY DEF Compare, Unmoved, ListsStep, mainCache, catCache
<1>3. CachesOK'
  BY <1>2 DEF IInv, CachesOK, mainCache, catCache
<1>4. ServedAge'
  BY <1>2 DEF ServedAge
<1>5. ASSUME NEW r \in Request \cup {None}, req' = [req EXCEPT ![t] = r],
             r # None => RequestOK(r)'
      PROVE  IInv'
  BY <1>2, <1>3, <1>4, <1>5, OneRequest DEF IInv
<1>6. CASE stamp = None
  BY <1>5, <1>6 DEF Compare
<1>7. CASE stamp # None
  <2>1. PICK r : r = [req[t] EXCEPT !.at =
                         IF IsFresh(req[t].now, stamp) THEN "serve" ELSE "fetch"]
    OBVIOUS
  <2>2. req[t] \in Request /\ RequestOK(req[t]) /\ req[t].at = "compare"
    BY <1>1 DEF Compare, IsAt, TypeOK, IInv
  <2>3. r \in Request /\ req' = [req EXCEPT ![t] = r]
    BY <1>7, <2>1, <2>2 DEF Compare, Request
  <2>4. PlaceOK(r)' /\ TimesOK(r)'
    BY <1>2, <2>1, <2>2 DEF RequestOK, PlaceOK, TimesOK, Request
  <2>5. ViewOK(r)'
    <3>1. cameras' = cameras
      BY <1>2 DEF mainCache
    <3>2. r.op # "summary" /\ r.now = req[t].now /\ r.now \in Nat
      BY <2>1, <2>2, <2>3 DEF Compare, IsFor, Request
    <3>3. CASE IsFresh(req[t].now, stamp)
      <4>1. stamp \in Nat /\ r.now - stamp < TTL
        BY <1>1, <1>7, <3>2, <3>3 DEF IsFresh, TypeOK
      <4>2. Behind(stamp, cameras)
        BY <1>7 DEF IInv, CachesOK
      <4>3. Servable(r.now, cameras)
        BY <1>1, <3>2, <4>1, <4>2 DEF Servable, Behind, TypeOK, List
      <4> QED
        BY <2>1, <2>2, <3>1, <3>2, <3>3, <4>3 DEF ViewOK, Servable, Request
    <3>4. CASE ~IsFresh(req[t].now, stamp)
      BY <2>1, <2>2, <3>4 DEF ViewOK, Request
    <3> QED
      BY <3>3, <3>4
  <2> QED
    BY <1>5, <2>3, <2>4, <2>5 DEF RequestOK
<1> QED
  BY <1>6, <1>7

LEMMA FetchIInv ==
    ASSUME IInv, TypeOK', NEW t \in Threads, Fetch(t)
    PROVE  IInv'
<1> USE DirectoryConstants
<1>1. TypeOK
  BY DEF IInv
<1>2. /\ ListsStep /\ clock' = clock /\ reply' = None
      /\ UNCHANGED <<mainCache, catCache>>
  BY DEF Fetch, Unmoved, ListsStep, mainCache, catCache
<1>3. CachesOK'
  BY <1>2 DEF IInv, CachesOK, mainCache, catCache
<1>4. ServedAge'
  BY <1>2 DEF ServedAge
<1>5. PICK a \in Answers :
         req' = [req EXCEPT ![t].own = Fetched(a),
                            ![t].at = IF req[t].op = "summary" /\ FetchedIds(a) = {}
                                      THEN "serve" ELSE "keep"]
  BY DEF Fetch
<1>6. PICK own : own = Fetched(a)
  OBVIOUS
<1>7. own \in List /\ own # None /\ own.ids = FetchedIds(a) /\ own.got = clock
  BY <1>1, <1>6, FetchedIsList DEF Fetched
<1>8. PICK r : r = [req[t] EXCEPT !.own = own,
                                  !.at = IF req[t].op = "summary" /\ FetchedIds(a) = {}
                                         THEN "serve" ELSE "keep"]
  OBVIOUS
<1>9. req[t] \in Request /\ RequestOK(req[t]) /\ req[t].at = "fetch"
  BY <1>1 DEF Fetch, IsAt, TypeOK, IInv
<1>10. /\ r \in Request /\ req' = [req EXCEPT ![t] = r]
       /\ r.own = own /\ r.now = req[t].now /\ r.began = req[t].began /\ r.op = req[t].op
       /\ r.at = IF r.op = "summary" /\ own.ids = {} THEN "serve" ELSE "keep"
  BY <1>1, <1>5, <1>6, <1>7, <1>8, <1>9 DEF Request, TypeOK
<1>11. PlaceOK(r)'
  BY <1>7, <1>10 DEF PlaceOK
<1>12. TimesOK(r)'
  BY <1>1, <1>2, <1>7, <1>9, <1>10 DEF RequestOK, TimesOK, TypeOK
<1>13. ViewOK(r)'
  BY <1>7, <1>10 DEF ViewOK
<1> QED
  BY <1>2, <1>3, <1>4, <1>10, <1>11, <1>12, <1>13, OneRequest DEF IInv, RequestOK

\* What is kept was given after the request looked: no stamp in sight is more
\* than FetchTime ahead of it.
LEMMA KeepIInv ==
    ASSUME IInv, TypeOK', NEW t \in Threads, Keep(t)
    PROVE  IInv'
<1> USE DirectoryConstants
<1>1. TypeOK
  BY DEF IInv
<1>2. req[t] \in Request /\ RequestOK(req[t]) /\ req[t].at = "keep"
  BY <1>1 DEF Keep, IsAt, TypeOK, IInv
<1>3. PICK own : own = req[t].own
  OBVIOUS
<1>4. own \in List /\ own # None /\ (req[t].op = "summary" => own.ids # {})
  BY <1>2, <1>3 DEF RequestOK, PlaceOK, Request
<1>5. /\ req[t].now <= own.got /\ own.got <= clock /\ clock <= req[t].now + FetchTime
      /\ req[t].now \in Nat /\ own.got \in Nat /\ clock \in Nat
  BY <1>1, <1>2, <1>3, <1>4 DEF RequestOK, TimesOK, Request, List, TypeOK
<1>6. Recent(own)
  BY <1>5 DEF Recent
<1>7. ListsStep
  BY <1>3, <1>4, <1>6 DEF Keep, ListsStep, Recent
<1>8. clock' = clock /\ reply' = None /\ stamp' = stamp /\ catStamp' = catStamp
  BY DEF Keep, Unmoved
<1>9. PICK r : r = [req[t] EXCEPT !.at = "stamp"]
  OBVIOUS
<1>10. /\ r \in Request /\ req' = [req EXCEPT ![t] = r]
       /\ r.own = own /\ r.now = req[t].now /\ r.began = req[t].began /\ r.op = req[t].op
       /\ r.at = "stamp"
  BY <1>1, <1>2, <1>3, <1>9 DEF Keep, Goto, Request, TypeOK
<1>11. PlaceOK(r)' /\ TimesOK(r)'
  BY <1>2, <1>3, <1>4, <1>8, <1>10 DEF RequestOK, PlaceOK, TimesOK
<1>12. ViewOK(r)'
  <2>1. Behind(r.now, own)
    BY <1>5, <1>10 DEF Behind
  <2>2. IF r.op = "summary" THEN catalogue' = own ELSE cameras' = own
    BY <1>3, <1>10 DEF Keep
  <2> QED
    BY <1>10, <2>1, <2>2 DEF ViewOK, Behind
<1>13. CachesOK'
  <2>1. ASSUME NEW at \in Nat, at <= clock PROVE Behind(at, own)
    BY <1>5, <2>1 DEF Behind
  <2>2. cameras' = own \/ cameras' = cameras
    BY <1>3 DEF Keep
  <2>3. catalogue' = own \/ catalogue' = catalogue
    BY <1>3 DEF Keep
  <2>4. (stamp # None => stamp <= clock /\ Behind(stamp, cameras))'
    BY <1>1, <1>8, <2>1, <2>2 DEF IInv, CachesOK, Behind, TypeOK
  <2>5. (catStamp # None => catStamp <= clock /\ Behind(catStamp, catalogue))'
    BY <1>1, <1>8, <2>1, <2>3 DEF IInv, CachesOK, Behind, TypeOK
  <2> QED
    BY <2>4, <2>5 DEF CachesOK
<1>14. ServedAge'
  BY <1>8 DEF ServedAge
<1> QED
  BY <1>7, <1>8, <1>10, <1>11, <1>12, <1>13, <1>14, OneRequest DEF IInv, RequestOK

LEMMA StampIInv ==
    ASSUME IInv, TypeOK', NEW t \in Threads, Stamp(t)
    PROVE  IInv'
<1> USE DirectoryConstants
<1>1. TypeOK
  BY DEF IInv
<1>2. req[t] \in Request /\ RequestOK(req[t]) /\ req[t].at = "stamp"
  BY <1>1 DEF Stamp, IsAt, TypeOK, IInv
<1>3. PICK own : own = req[t].own
  OBVIOUS
<1>4. own \in List /\ own # None /\ (req[t].op = "summary" => own.ids # {})
  BY <1>2, <1>3 DEF RequestOK, PlaceOK, Request
<1>5. /\ req[t].began <= req[t].now /\ req[t].now <= own.got /\ req[t].now <= clock
      /\ req[t].began \in Nat /\ req[t].now \in Nat /\ own.got \in Nat /\ clock \in Nat
  BY <1>1, <1>2, <1>3, <1>4 DEF RequestOK, TimesOK, Request, List, TypeOK
<1>6. ListsStep /\ clock' = clock /\ cameras' = cameras /\ catalogue' = catalogue
  BY DEF Stamp, Unmoved, Respond, ListsStep
<1>7. CASE req[t].op = "summary"
  <2>1. Behind(req[t].now, catalogue)
    BY <1>2, <1>7 DEF RequestOK, ViewOK
  <2>2. stamp' = stamp /\ catStamp' = req[t].now /\ reply' = None
    BY <1>7 DEF Stamp, Unmoved
  <2>3. CachesOK'
    BY <1>5, <1>6, <2>1, <2>2 DEF IInv, CachesOK, Behind
  <2>4. PICK r : r = [req[t] EXCEPT !.at = "serve"]
    OBVIOUS
  <2>5. /\ r \in Request /\ req' = [req EXCEPT ![t] = r]
        /\ r.own = own /\ r.now = req[t].now /\ r.began = req[t].began /\ r.op = "summary"
        /\ r.at = "serve"
    BY <1>1, <1>2, <1>3, <1>7, <2>4 DEF Stamp, Goto, Request, TypeOK
  <2>6. PlaceOK(r)' /\ TimesOK(r)'
    BY <1>2, <1>3, <1>4, <1>6, <2>5 DEF RequestOK, PlaceOK, TimesOK
  <2>7. Servable(r.now, catalogue)
    BY <1>1, <1>5, <2>1, <2>5 DEF Behind, Servable, TypeOK, List
  <2>8. ViewOK(r)'
    BY <1>4, <1>6, <2>5, <2>7 DEF ViewOK, Servable
  <2>9. ServedAge'
    BY <2>2 DEF ServedAge
  <2> QED
    BY <1>6, <2>3, <2>5, <2>6, <2>8, <2>9, OneRequest DEF IInv, RequestOK
<1>8. CASE req[t].op # "summary"
  <2>1. Behind(req[t].now, cameras)
    BY <1>2, <1>8 DEF RequestOK, ViewOK
  <2>2. stamp' = req[t].now /\ catStamp' = catStamp
    BY <1>8 DEF Stamp
  <2>3. CachesOK'
    BY <1>5, <1>6, <2>1, <2>2 DEF IInv, CachesOK, Behind
  <2>4. req' = [req EXCEPT ![t] = None]
    BY <1>8 DEF Stamp, Respond
  <2>5. reply' = [op |-> req[t].op, began |-> req[t].began, own |-> own, list |-> own]
    BY <1>3, <1>8 DEF Stamp, Respond
  <2>6. ServedAge'
    BY <1>5, <2>5 DEF ServedAge
  <2> QED
    BY <1>6, <2>3, <2>4, <2>6, OneRequest DEF IInv
<1> QED
  BY <1>7, <1>8

LEMMA ServeIInv ==
    ASSUME IInv, TypeOK', NEW t \in Threads, Serve(t) \/ SummaryServe(t)
    PROVE  IInv'
<1> USE DirectoryConstants
<1>1. TypeOK
  BY DEF IInv
<1>2. req[t] \in Request /\ RequestOK(req[t]) /\ req[t].at = "serve"
  BY <1>1 DEF Serve, SummaryServe, IsAt, TypeOK, IInv
<1>3. req[t].began <= req[t].now /\ req[t].began \in Nat /\ req[t].now \in Nat
  BY <1>2 DEF RequestOK, TimesOK, Request
<1>4. /\ ListsStep /\ clock' = clock /\ UNCHANGED <<mainCache, catCache>>
      /\ req' = [req EXCEPT ![t] = None]
  BY DEF Serve, SummaryServe, Respond, ListsStep, mainCache, catCache
<1>5. CachesOK'
  BY <1>4 DEF IInv, CachesOK, mainCache, catCache
<1>6. ASSUME NEW list \in List, Servable(req[t].now, list)
      PROVE  list.ids # {} => list.got > req[t].began - TTL - FetchTime
  BY <1>3, <1>6 DEF Servable, List
<1>7. CASE Serve(t)
  <2>1. Servable(req[t].now, cameras) /\ cameras \in List
    BY <1>1, <1>2, <1>7 DEF Serve, IsFor, RequestOK, ViewOK, TypeOK
  <2>2. reply'.list = cameras /\ reply'.began = req[t].began
    BY <1>7 DEF Serve, Respond
  <2>3. ServedAge'
    BY <1>6, <2>1, <2>2 DEF ServedAge
  <2> QED
    BY <1>4, <1>5, <2>3, OneRequest DEF IInv
<1>8. CASE SummaryServe(t)
  <2>0. PICK own, list : /\ own = req[t].own
                         /\ list = IF catalogue.ids # {} THEN catalogue ELSE own
    OBVIOUS
  <2>1. req[t].op = "summary"
    BY <1>8 DEF SummaryServe, IsFor
  <2>2. reply' = [op |-> "summary", began |-> req[t].began, own |-> own, list |-> list]
    BY <1>8, <2>0, <2>1 DEF SummaryServe, Respond
  <2>3. (own = None \/ own.ids # {}) => Servable(req[t].now, catalogue)
    BY <1>2, <2>0, <2>1 DEF RequestOK, ViewOK
  <2>4. own = None => catalogue.ids # {}
    BY <1>2, <2>0, <2>1 DEF RequestOK, ViewOK
  <2>5. own # None => own \in List /\ req[t].now <= own.got
    BY <1>2, <2>0 DEF RequestOK, TimesOK, Request
  <2>6. catalogue \in List
    BY <1>1 DEF TypeOK
  <2>7. own # None => Servable(req[t].now, own)
    BY <1>3, <2>5 DEF Servable, List
  <2>8. ASSUME own # None, own.ids = {} PROVE ServedAge'
    <3>1. reply'.op = "summary" /\ reply'.own = own
      BY <2>2
    <3> QED
      BY <2>8, <3>1 DEF ServedAge
  <2>9. ASSUME own = None \/ own.ids # {} PROVE ServedAge'
    <3>1. Servable(req[t].now, list) /\ list \in List
      BY <2>0, <2>3, <2>4, <2>5, <2>6, <2>7, <2>9
    <3>2. reply'.list = list /\ reply'.began = req[t].began
      BY <2>2
    <3> QED
      BY <1>6, <3>1, <3>2 DEF ServedAge
  <2> QED
    BY <1>4, <1>5, <2>8, <2>9, OneRequest DEF IInv
<1> QED
  BY <1>7, <1>8

LEMMA Inductive == IInv /\ [Next]_vars => IInv'
<1> SUFFICES ASSUME IInv, [Next]_vars PROVE IInv'
  OBVIOUS
<1>1. TypeOK'
  BY NextTypeOK
<1>2. CASE UNCHANGED vars
  BY <1>2 DEF vars, mainCache, catCache, IInv, TypeOK, CachesOK, RequestOK, PlaceOK,
     TimesOK, ViewOK, ServedAge
<1> QED
  BY <1>1, <1>2, TickIInv, SyncIInv, LookIInv, CompareIInv, SummaryCompareIInv,
     FetchIInv, KeepIInv, StampIInv, ServeIInv DEF Next

LEMMA Invariance == Spec => []IInv
  BY InitIInv, Inductive, PTL DEF Spec

-----------------------------------------------------------------------------
(* Theorems.                                                               *)

\* Both caches, the requests and every reply keep their types: only cameras that
\* _parse_catalogue_response accepted, or those of the registry, are ever listed.
THEOREM TypeCorrect == Spec => []TypeOK
  BY Invariance, PTL DEF IInv

\* No list is served that is older than a time to live and the time of a request,
\* but for the summary whose own fetch came back empty: _camera_cache and
\* _camera_cache_time, stored apart by any number of threads, never mix worse.
THEOREM ServedAgeHolds == Spec => []ServedAge
  BY Invariance, PTL DEF IInv

-----------------------------------------------------------------------------
(* Analytics: numbers of elements.                                         *)

\* A set has at most one element when any two of its elements are the same.
LEMMA AtMostOne ==
    ASSUME NEW S, IsFiniteSet(S)
    PROVE  Cardinality(S) <= 1 <=> \A x, y \in S : x = y
<1>1. Cardinality(S) \in Nat
  BY FS_CardinalityType
<1>2. ASSUME Cardinality(S) <= 1
      PROVE  \A x, y \in S : x = y
  <2>1. Cardinality(S) = 0 \/ Cardinality(S) = 1
    BY <1>1, <1>2
  <2>2. S = {} \/ \E z : S = {z}
    BY <2>1, FS_EmptySet, FS_Singleton
  <2> QED
    BY <2>2
<1>3. ASSUME \A x, y \in S : x = y
      PROVE  Cardinality(S) <= 1
  <2>1. CASE S = {}
    BY <2>1, FS_EmptySet
  <2>2. CASE S # {}
    <3>1. PICK z \in S : TRUE
      BY <2>2
    <3>2. S = {z}
      BY <1>3, <3>1
    <3> QED
      BY <3>2, FS_Singleton
  <2> QED
    BY <2>1, <2>2
<1> QED
  BY <1>2, <1>3

\* The rows of a batch differ from its events in their time only.
LEMMA AgedRows ==
    ASSUME NEW batch \in Seq(Event), NEW boot \in Nat
    PROVE  /\ Aged(batch, boot) \in Seq(Event)
           /\ Len(Aged(batch, boot)) = Len(batch)
           /\ \A i \in 1 .. Len(batch) :
                 /\ Aged(batch, boot)[i].cam = batch[i].cam
                 /\ Aged(batch, boot)[i].class = batch[i].class
                 /\ Aged(batch, boot)[i].plate = batch[i].plate
<1> DEFINE aged == Aged(batch, boot)
<1>1. DOMAIN batch = 1 .. Len(batch) /\ Len(batch) \in Nat
  BY LenProperties
<1>2. ASSUME NEW i \in 1 .. Len(batch)
      PROVE  /\ [batch[i] EXCEPT !.at = Back(boot, @)] \in Event
             /\ aged[i] = [batch[i] EXCEPT !.at = Back(boot, @)]
  <2>1. batch[i] \in Event
    BY <1>1, ElementOfSeq
  <2>2. batch[i].at \in Nat
    BY <2>1 DEF Event
  <2>3. Back(boot, batch[i].at) \in Nat
    BY <2>2 DEF Back
  <2>4. [batch[i] EXCEPT !.at = Back(boot, @)] \in Event
    BY <2>1, <2>3 DEF Event
  <2>5. aged[i] = [batch[i] EXCEPT !.at = Back(boot, @)]
    BY <1>1 DEF Aged
  <2> QED
    BY <2>4, <2>5
<1>3. aged \in [1 .. Len(batch) -> Event]
  BY <1>1, <1>2 DEF Aged
<1>4. aged \in Seq(Event) /\ Len(aged) = Len(batch)
  BY <1>1, <1>3, IsASeq, LenProperties
<1>5. ASSUME NEW i \in 1 .. Len(batch)
      PROVE  aged[i].cam = batch[i].cam /\ aged[i].class = batch[i].class
             /\ aged[i].plate = batch[i].plate
  <2>1. batch[i] \in Event
    BY <1>1, ElementOfSeq
  <2>2. aged[i] = [batch[i] EXCEPT !.at = Back(boot, @)]
    BY <1>2
  <2> QED
    BY <2>1, <2>2 DEF Event
<1> QED
  BY <1>4, <1>5

\* A set of numbers as a sequence: no number twice.
LEMMA AsSequence ==
    ASSUME NEW S, IsFiniteSet(S)
    PROVE  /\ SetToSeq(S) \in [1 .. Cardinality(S) -> S]
           /\ \A i, j \in 1 .. Cardinality(S) : SetToSeq(S)[i] = SetToSeq(S)[j] => i = j
<1>1. \E g \in [1 .. Cardinality(S) -> S] : IsInjective(g)
  BY FS_CardinalityType DEF ExistsBijection, Bijection, Injection
<1>2. SetToSeq(S) \in [1 .. Cardinality(S) -> S] /\ IsInjective(SetToSeq(S))
  BY <1>1 DEF SetToSeq
<1> QED
  BY <1>2 DEF IsInjective

-----------------------------------------------------------------------------
(* Seeding. *)

\* The ground truth holds no sample.
LEMMA TruthSeeded ==
    ASSUME NEW truth \in Truths, NEW boot \in Nat
    PROVE  /\ Aged(truth, boot) \in Seq(Event)
           /\ Seeded(Aged(truth, boot))
<1> DEFINE table == Aged(truth, boot)
<1>1. truth \in Seq(Event)
  BY AnalyticsConstants
<1>2. table \in Seq(Event) /\ Len(table) = Len(truth)
  BY <1>1, AgedRows
<1>3. DOMAIN table = 1 .. Len(truth) /\ DOMAIN truth = 1 .. Len(truth)
  BY <1>1, <1>2, LenProperties
<1>4. ASSUME NEW i \in DOMAIN Samples
      PROVE  OfSample(table, i) = {}
  <2>1. \A r \in DOMAIN table : table[r].class = truth[r].class
    BY <1>1, <1>3, AgedRows
  <2>2. \A r \in DOMAIN truth : truth[r].class \notin CrashClasses
    BY AnalyticsConstants
  <2>3. Samples[i].class \in CrashClasses
    BY AnalyticsConstants
  <2> QED
    BY <1>3, <2>1, <2>2, <2>3 DEF OfSample, SameSample
<1> HIDE DEF table
<1>5. NoSample(table) = 1 .. Len(truth)
  BY <1>3, <1>4 DEF NoSample
<1>6. \A i \in DOMAIN Samples : Cardinality(OfSample(table, i)) <= 1
  BY <1>4, FS_EmptySet
<1>7. Seeded(table)
  BY <1>5, <1>6 DEF Seeded
<1> QED
  BY <1>2, <1>7 DEF table

\* A sample the table has is not added again, and one it lacks is added once.
LEMMA SampledSeeded ==
    ASSUME NEW table \in Seq(Event), Seeded(table), NEW boot \in Nat
    PROVE  /\ Sampled(table, boot) \in Seq(Event)
           /\ Seeded(Sampled(table, boot))
<1> DEFINE missing == SetToSeq(MissingSamples(table))
           m == Cardinality(MissingSamples(table))
           batch == [k \in DOMAIN missing |-> Samples[missing[k]]]
           added == Aged(batch, boot)
           new == Sampled(table, boot)
           n == Len(table)
<1>1. /\ DOMAIN Samples = 1 .. Len(Samples) /\ Len(Samples) \in Nat
      /\ DOMAIN table = 1 .. n /\ n \in Nat
  BY AnalyticsConstants, LenProperties
<1>2. MissingSamples(table) \subseteq DOMAIN Samples /\ IsFiniteSet(MissingSamples(table))
  <2>1. IsFiniteSet(DOMAIN Samples)
    BY <1>1, FS_Interval
  <2>2. MissingSamples(table) \subseteq DOMAIN Samples
    BY DEF MissingSamples
  <2> QED
    BY <2>1, <2>2, FS_Subset
<1>3. /\ missing \in [1 .. m -> MissingSamples(table)] /\ m \in Nat
      /\ \A i, j \in 1 .. m : missing[i] = missing[j] => i = j
  BY <1>2, AsSequence, FS_CardinalityType
<1> HIDE DEF missing, m
<1>4. /\ batch \in Seq(Event) /\ Len(batch) = m
      /\ \A k \in 1 .. m : batch[k] = Samples[missing[k]]
  <2>1. \A k \in 1 .. m : missing[k] \in DOMAIN Samples
    BY <1>2, <1>3
  <2>2. \A k \in 1 .. m : Samples[missing[k]] \in Event
    BY <1>1, <2>1, AnalyticsConstants, ElementOfSeq
  <2>3. DOMAIN missing = 1 .. m
    BY <1>3
  <2>4. batch \in [1 .. m -> Event] /\ \A k \in 1 .. m : batch[k] = Samples[missing[k]]
    BY <2>2, <2>3
  <2> QED
    BY <1>3, <2>4, IsASeq, LenProperties
<1> HIDE DEF batch
<1>5. /\ added \in Seq(Event) /\ Len(added) = m
      /\ \A k \in 1 .. m : /\ added[k].cam = batch[k].cam
                           /\ added[k].class = batch[k].class
                           /\ added[k].plate = batch[k].plate
  BY <1>4, AgedRows
<1>6. new = table \o added
  BY DEF Sampled, missing, batch
<1> HIDE DEF added, new
<1>7. /\ new \in Seq(Event) /\ DOMAIN new = 1 .. n + m
      /\ \A r \in 1 .. n : new[r] = table[r]
      /\ \A r \in 1 .. n + m : r > n => r - n \in 1 .. m /\ new[r] = added[r - n]
  <2>1. /\ new \in Seq(Event) /\ Len(new) = n + m
        /\ \A r \in 1 .. n + m : new[r] = IF r <= n THEN table[r] ELSE added[r - n]
    BY <1>5, <1>6, ConcatProperties
  <2>2. DOMAIN new = 1 .. n + m
    BY <2>1, LenProperties
  <2> HIDE DEF n
  <2> QED
    BY <1>1, <1>3, <2>1, <2>2
<1> HIDE DEF n
\* An added row is the sample it was made of, and no other.
<1>8. ASSUME NEW r \in 1 .. n + m, r > n, NEW i \in DOMAIN Samples
      PROVE  SameSample(new[r], Samples[i]) <=> missing[r - n] = i
  <2>1. PICK k \in 1 .. m : k = r - n
    BY <1>7, <1>8
  <2>2. new[r] = added[k]
    BY <1>7, <1>8, <2>1
  <2>3. /\ added[k].cam = Samples[missing[k]].cam
        /\ added[k].class = Samples[missing[k]].class
        /\ added[k].plate = Samples[missing[k]].plate
    BY <1>4, <1>5
  <2>4. missing[k] \in DOMAIN Samples
    BY <1>2, <1>3
  <2>5. SameSample(Samples[missing[k]], Samples[i]) <=> missing[k] = i
    BY <2>4, AnalyticsConstants DEF SameSample
  <2> QED
    BY <2>1, <2>2, <2>3, <2>5 DEF SameSample
<1>9. ASSUME NEW i \in DOMAIN Samples
      PROVE  \A x, y \in OfSample(new, i) : x = y
  <2> SUFFICES ASSUME NEW x \in OfSample(new, i), NEW y \in OfSample(new, i)
               PROVE  x = y
    OBVIOUS
  <2>1. /\ x \in 1 .. n + m /\ SameSample(new[x], Samples[i])
        /\ y \in 1 .. n + m /\ SameSample(new[y], Samples[i])
    BY <1>7 DEF OfSample
  <2>2. ASSUME NEW r \in 1 .. n + m, r <= n, SameSample(new[r], Samples[i])
        PROVE  r \in OfSample(table, i) /\ i \notin MissingSamples(table)
    <3>1. r \in DOMAIN table /\ new[r] = table[r]
      BY <1>1, <1>3, <1>7, <2>2
    <3>2. r \in OfSample(table, i)
      BY <2>2, <3>1 DEF OfSample
    <3>3. table[r] \in Range(table)
      BY <3>1 DEF Range
    <3> QED
      BY <2>2, <3>1, <3>2, <3>3 DEF MissingSamples
  <2>3. ASSUME NEW r \in 1 .. n + m, r > n, SameSample(new[r], Samples[i])
        PROVE  missing[r - n] = i /\ i \in MissingSamples(table) /\ r - n \in 1 .. m
    BY <1>3, <1>7, <1>8, <2>3
  <2>4. \A u, v \in OfSample(table, i) : u = v
    <3>1. IsFiniteSet(DOMAIN table)
      BY <1>1, FS_Interval
    <3>2. IsFiniteSet(OfSample(table, i))
      BY <3>1, FS_Subset DEF OfSample
    <3> QED
      BY <3>2, AtMostOne DEF Seeded
  <2>5. CASE x <= n /\ y <= n
    BY <2>1, <2>2, <2>4, <2>5
  <2>6. CASE x > n /\ y > n
    <3>1. missing[x - n] = missing[y - n] /\ x - n \in 1 .. m /\ y - n \in 1 .. m
      BY <2>1, <2>3, <2>6
    <3>2. x - n = y - n
      BY <1>3, <3>1
    <3> QED
      BY <1>1, <2>1, <3>2
  <2>7. (x <= n \/ x > n) /\ (y <= n \/ y > n)
    BY <1>1, <2>1
  <2> QED
    BY <2>1, <2>2, <2>3, <2>5, <2>6, <2>7
<1>10. \A i \in DOMAIN Samples : Cardinality(OfSample(new, i)) <= 1
  <2> SUFFICES ASSUME NEW i \in DOMAIN Samples
               PROVE  Cardinality(OfSample(new, i)) <= 1
    OBVIOUS
  <2>1. IsFiniteSet(DOMAIN new)
    BY <1>1, <1>3, <1>7, FS_Interval
  <2>2. IsFiniteSet(OfSample(new, i))
    BY <2>1, FS_Subset DEF OfSample
  <2> QED
    BY <1>9, <2>2, AtMostOne
<1>11. NoSample(new) = NoSample(table)
  <2>1. ASSUME NEW r \in 1 .. n
        PROVE  r \in NoSample(new) <=> r \in NoSample(table)
    <3>1. r \in DOMAIN new /\ r \in DOMAIN table /\ new[r] = table[r]
      BY <1>1, <1>3, <1>7
    <3> QED
      BY <3>1 DEF NoSample, OfSample
  <2>2. ASSUME NEW r \in 1 .. n + m, r > n
        PROVE  r \notin NoSample(new)
    <3>1. missing[r - n] \in DOMAIN Samples
      BY <1>2, <1>3, <1>7, <2>2
    <3>2. SameSample(new[r], Samples[missing[r - n]])
      BY <1>8, <2>2, <3>1
    <3> QED
      BY <1>7, <3>1, <3>2 DEF NoSample, OfSample
  <2>3. NoSample(new) \subseteq 1 .. n + m /\ NoSample(table) \subseteq 1 .. n
    BY <1>1, <1>7 DEF NoSample
  <2>4. \A r \in 1 .. n + m : r \in 1 .. n \/ r > n
    BY <1>1, <1>3
  <2> QED
    BY <2>1, <2>2, <2>3, <2>4
<1>12. Seeded(new)
  BY <1>10, <1>11 DEF Seeded
<1> QED
  BY <1>7, <1>12 DEF new

LEMMA StartsSeeded ==
    ASSUME NEW table \in Seq(Event), Seeded(table), NEW boot \in BootTimes,
           NEW start \in Starts(table, boot)
    PROVE  start.table \in Seq(Event) /\ Seeded(start.table)
<1>1. boot \in Nat
  BY AnalyticsConstants
<1>2. PICK x \in BOOLEAN \X BOOLEAN \X Truthful(table, boot) :
         start.table = IF x[2] THEN Sampled(IF x[1] THEN x[3] ELSE table, boot)
                       ELSE IF x[1] THEN x[3] ELSE table
  <2>1. PICK x \in BOOLEAN \X BOOLEAN \X Truthful(table, boot) :
           start = [table |-> IF x[2] THEN Sampled(IF x[1] THEN x[3] ELSE table, boot)
                              ELSE IF x[1] THEN x[3] ELSE table,
                    faults |-> Cardinality({i \in {1, 2} : ~x[i]})]
    BY Zenon DEF Starts
  <2> QED
    BY <2>1
<1>3. x[3] \in Seq(Event) /\ Seeded(x[3])
  <2>1. x[3] \in Truthful(table, boot)
    OBVIOUS
  <2>2. CASE table # << >>
    BY <2>1, <2>2 DEF Truthful
  <2>3. CASE table = << >>
    <3>1. PICK truth \in Truths : x[3] = Aged(truth, boot)
      BY <2>1, <2>3 DEF Truthful
    <3> QED
      BY <1>1, <3>1, TruthSeeded
  <2> QED
    BY <2>2, <2>3
<1>4. PICK first : first = IF x[1] THEN x[3] ELSE table
  OBVIOUS
<1>5. first \in Seq(Event) /\ Seeded(first)
  BY <1>3, <1>4
<1>6. start.table = IF x[2] THEN Sampled(first, boot) ELSE first
  BY <1>2, <1>4
<1> QED
  BY <1>1, <1>5, <1>6, SampledSeeded

LEMMA NothingSeeded ==
    ASSUME NEW table, table = << >>
    PROVE  table \in Seq(Event) /\ Seeded(table)
<1>1. table \in Seq(Event) /\ DOMAIN table = {}
  BY EmptySeq
<1>2. NoSample(table) = {} /\ \A i \in DOMAIN Samples : OfSample(table, i) = {}
  BY <1>1 DEF NoSample, OfSample
<1>3. \A i \in DOMAIN Samples : Cardinality(OfSample(table, i)) <= 1
  <2>1. Cardinality({}) <= 1
    BY FS_EmptySet
  <2> QED
    BY <1>2, <2>1, Zenon
<1> QED
  BY <1>1, <1>2, <1>3 DEF Seeded

-----------------------------------------------------------------------------
(* Sums. *)

\* The elements of a set that have a label.
Labelled(found, lab, x) == {i \in found : lab[i] = x}

\* Counted by a label, the elements of a set add up to their number.
LEMMA CountsAddUp ==
    ASSUME NEW found, IsFiniteSet(found), NEW L, NEW lab \in [found -> L],
           NEW f, DOMAIN f = L,
           \A x \in L : f[x] = Cardinality(Labelled(found, lab, x))
    PROVE  Total(f) = Cardinality(found)
<1> DEFINE Class(x) == Labelled(found, lab, x)
           pairs == UNION {{x} \X (1 .. f[x]) : x \in L}
<1>1. ASSUME NEW x \in L
      PROVE  \E g \in [1 .. f[x] -> Class(x)] :
                /\ \A a, b \in 1 .. f[x] : g[a] = g[b] => a = b
                /\ \A i \in Class(x) : \E a \in 1 .. f[x] : g[a] = i
  <2>1. IsFiniteSet(Class(x))
    BY FS_Subset DEF Labelled
  <2>2. f[x] = Cardinality(Class(x))
    OBVIOUS
  <2> HIDE DEF Class
  <2>3. ExistsBijection(1 .. f[x], Class(x))
    BY <2>1, <2>2, FS_CardinalityType
  <2> QED
    BY <2>3 DEF ExistsBijection, Bijection, Injection, Surjection, IsInjective
<1>2. PICK b : b = [x \in L |-> CHOOSE g \in [1 .. f[x] -> Class(x)] :
                /\ \A c, d \in 1 .. f[x] : g[c] = g[d] => c = d
                /\ \A i \in Class(x) : \E c \in 1 .. f[x] : g[c] = i]
  OBVIOUS
<1>3. ASSUME NEW x \in L
      PROVE  /\ b[x] \in [1 .. f[x] -> Class(x)]
             /\ \A c, d \in 1 .. f[x] : b[x][c] = b[x][d] => c = d
             /\ \A i \in Class(x) : \E c \in 1 .. f[x] : b[x][c] = i
  BY <1>1, <1>2
<1>4. ASSUME NEW p
      PROVE  p \in pairs <=> \E x \in L : \E c \in 1 .. f[x] : p = <<x, c>>
  OBVIOUS
<1>5. \A x \in L : \A i \in Class(x) : i \in found /\ lab[i] = x
  BY DEF Labelled
<1>6. \A i \in found : lab[i] \in L /\ i \in Class(lab[i])
  BY DEF Labelled
<1> HIDE DEF pairs, Class
<1>7. PICK h : h = [p \in pairs |-> b[p[1]][p[2]]]
  OBVIOUS
<1>8. ASSUME NEW x \in L, NEW c \in 1 .. f[x]
      PROVE  <<x, c>> \in pairs /\ h[<<x, c>>] = b[x][c] /\ b[x][c] \in Class(x)
  BY <1>3, <1>4, <1>7
<1>9. h \in [pairs -> found]
  <2> SUFFICES ASSUME NEW p \in pairs
               PROVE  h[p] \in found
    BY <1>7
  <2>1. PICK x \in L : \E c \in 1 .. f[x] : p = <<x, c>>
    BY <1>4
  <2>2. PICK c \in 1 .. f[x] : p = <<x, c>>
    BY <2>1
  <2> QED
    BY <1>5, <1>8, <2>2
<1>10. \A p, q \in pairs : h[p] = h[q] => p = q
  <2> SUFFICES ASSUME NEW p \in pairs, NEW q \in pairs, h[p] = h[q]
               PROVE  p = q
    OBVIOUS
  <2>1. PICK x \in L : \E c \in 1 .. f[x] : p = <<x, c>>
    BY <1>4
  <2>2. PICK c \in 1 .. f[x] : p = <<x, c>>
    BY <2>1
  <2>3. PICK y \in L : \E d \in 1 .. f[y] : q = <<y, d>>
    BY <1>4
  <2>4. PICK d \in 1 .. f[y] : q = <<y, d>>
    BY <2>3
  <2>5. h[p] \in Class(x) /\ h[q] \in Class(y)
    BY <1>8, <2>2, <2>4
  <2>6. x = y
    BY <1>5, <2>5
  <2>7. b[x][c] = b[x][d]
    BY <1>8, <2>2, <2>4, <2>6
  <2>8. c = d
    BY <1>3, <2>4, <2>6, <2>7
  <2> QED
    BY <2>2, <2>4, <2>6, <2>8
<1>11. \A i \in found : \E p \in pairs : h[p] = i
  <2> SUFFICES ASSUME NEW i \in found
               PROVE  \E p \in pairs : h[p] = i
    OBVIOUS
  <2>1. PICK c \in 1 .. f[lab[i]] : b[lab[i]][c] = i
    BY <1>3, <1>6
  <2>2. lab[i] \in L
    BY <1>6
  <2> QED
    BY <1>8, <2>1, <2>2
<1>12. h \in Injection(pairs, found) /\ h \in Surjection(pairs, found)
  BY <1>9, <1>10, <1>11 DEF Injection, Surjection, IsInjective
<1>13. Cardinality(pairs) = Cardinality(found)
  BY <1>12, FS_Injection
<1>14. Total(f) = Cardinality(pairs)
  BY DEF Total, pairs
<1> QED
  BY <1>13, <1>14

-----------------------------------------------------------------------------
(* What a query finds. *)

LEMMA DistributionsAre ==
    ASSUME NEW table, NEW alerts, NEW q, NEW list
    PROVE  LET found == Matching(table, q)
               f == Summary(table, alerts, q, list)
           IN  /\ f.classes = [x \in {table[i].class : i \in found} |->
                                 Cardinality({i \in found : table[i].class = x})]
               /\ f.depts = [x \in {DeptOf(table[i].cam) : i \in found} |->
                               Cardinality({i \in found : DeptOf(table[i].cam) = x})]
               /\ f.series = Series(table, found, parse_time_window(q))
BY DEF Summary, CountOf, Distribution

LEMMA FoundIsFinite ==
    ASSUME NEW table \in Seq(Event), NEW q
    PROVE  /\ IsFiniteSet(Matching(table, q))
           /\ \A i \in Matching(table, q) : i \in DOMAIN table /\ table[i] \in Event
<1>1. Matching(table, q) \subseteq DOMAIN table
  BY DEF Matching
<1>2. DOMAIN table = 1 .. Len(table) /\ Len(table) \in Nat
  BY LenProperties
<1>3. IsFiniteSet(DOMAIN table)
  BY <1>2, FS_Interval
<1> QED
  BY <1>1, <1>2, <1>3, FS_Subset, ElementOfSeq

LEMMA IsOfTypeIs ==
    ASSUME NEW e
    PROVE  /\ IsOfType(e, Null)
           /\ IsOfType(e, "vehicle") <=> e.class \in VehicleClasses
           /\ IsOfType(e, "person") <=> e.class = "person"
           /\ IsOfType(e, "anpr") <=> e.plate # Null
           /\ IsOfType(e, "watchlist") <=> e.status # Null
<1>1. /\ Null # "person" /\ Null # "vehicle" /\ Null # "anpr" /\ Null # "watchlist"
      /\ Null # "crash"
  BY AnalyticsConstants DEF EventTypes
<1>2. IsOfType(e, Null)
  BY <1>1 DEF IsOfType
<1>3. IsOfType(e, "vehicle") <=> e.class \in VehicleClasses
  BY DEF IsOfType
<1>4. IsOfType(e, "person") <=> e.class = "person"
  BY DEF IsOfType
<1>5. IsOfType(e, "anpr") <=> e.plate # Null
  BY DEF IsOfType
<1>6. IsOfType(e, "watchlist") <=> e.status # Null
  BY DEF IsOfType
<1> QED
  BY <1>2, <1>3, <1>4, <1>5, <1>6

\* A click on a figure asks for the rows of the query that are of its type.
LEMMA TypedQuery ==
    ASSUME NEW table \in Seq(Event), NEW q \in Query, q.type = Null,
           NEW type \in EventTypes \cup {Null}
    PROVE  Matching(table, [q EXCEPT !.type = type]) =
             {i \in Matching(table, q) : IsOfType(table[i], type)}
<1>1. PICK p : p = [q EXCEPT !.type = type]
  OBVIOUS
<1>2. /\ p.range = q.range /\ p.now = q.now /\ p.from = q.from /\ p.to = q.to
      /\ p.cam = q.cam /\ p.dept = q.dept /\ p.type = type
  BY <1>1 DEF Query
<1>3. parse_time_window(p) = parse_time_window(q)
  BY <1>2 DEF parse_time_window, FirstOf, LastOf
<1>4. \A e : IsOfType(e, q.type)
  BY IsOfTypeIs
<1>5. \A i \in DOMAIN table :
         i \in Matching(table, p) <=> i \in Matching(table, q) /\ IsOfType(table[i], type)
  BY <1>2, <1>3, <1>4, Zenon DEF Matching
<1>6. Matching(table, p) \subseteq DOMAIN table /\ Matching(table, q) \subseteq DOMAIN table
  BY DEF Matching
<1> QED
  BY <1>1, <1>5, <1>6

LEMMA Clicks ==
    ASSUME NEW table \in Seq(Event), NEW alerts, NEW q \in Query, NEW list,
           q.type = Null, NEW f, f = Summary(table, alerts, q, list)
    PROVE  /\ f.total = DrillDown(table, q, Null)
           /\ f.vehicles = DrillDown(table, q, "vehicle")
           /\ f.persons = DrillDown(table, q, "person")
           /\ f.anpr = DrillDown(table, q, "anpr")
           /\ f.watchlist = DrillDown(table, q, "watchlist")
<1>1. PICK found : found = Matching(table, q)
  OBVIOUS
<1>2. ASSUME NEW type \in EventTypes \cup {Null}
      PROVE  DrillDown(table, q, type) = Cardinality({i \in found : IsOfType(table[i], type)})
  BY <1>1, TypedQuery DEF DrillDown
<1>3. /\ {i \in found : IsOfType(table[i], Null)} = found
      /\ {i \in found : IsOfType(table[i], "vehicle")}
           = {i \in found : table[i].class \in VehicleClasses}
      /\ {i \in found : IsOfType(table[i], "person")}
           = {i \in found : table[i].class = "person"}
      /\ {i \in found : IsOfType(table[i], "anpr")} = {i \in found : table[i].plate # Null}
      /\ {i \in found : IsOfType(table[i], "watchlist")}
           = {i \in found : table[i].status # Null}
  BY IsOfTypeIs, Zenon
<1>4. {"vehicle", "person", "anpr", "watchlist"} \subseteq EventTypes
  BY DEF EventTypes
<1>5. /\ f.total = Cardinality(found)
      /\ f.vehicles = Cardinality({i \in found : table[i].class \in VehicleClasses})
      /\ f.persons = Cardinality({i \in found : table[i].class = "person"})
      /\ f.anpr = Cardinality({i \in found : table[i].plate # Null})
      /\ f.watchlist = Cardinality({i \in found : table[i].status # Null})
  BY <1>1 DEF Summary, CountOf
<1>6. /\ DrillDown(table, q, Null) = Cardinality(found)
      /\ DrillDown(table, q, "vehicle")
           = Cardinality({i \in found : table[i].class \in VehicleClasses})
      /\ DrillDown(table, q, "person") = Cardinality({i \in found : table[i].class = "person"})
      /\ DrillDown(table, q, "anpr") = Cardinality({i \in found : table[i].plate # Null})
      /\ DrillDown(table, q, "watchlist")
           = Cardinality({i \in found : table[i].status # Null})
  <2>1. \A type \in {Null, "vehicle", "person", "anpr", "watchlist"} :
           type \in EventTypes \cup {Null}
    BY <1>4
  <2> QED
    BY <1>2, <1>3, <2>1, Zenon
<1> QED
  BY <1>5, <1>6

-----------------------------------------------------------------------------
(* The chart and the distributions. *)

\* The rows of a part of the found ones whose time has the label of a bucket.
Bucket(table, w, part, l) == {i \in part : LabelOf(table[i].at, w) = l}

\* A column of the chart that counts a part of the found ones.
IsColumn(f, table, w, part, labels) ==
    /\ \A i \in part : LabelOf(table[i].at, w) \in labels
    /\ DOMAIN f = labels
    /\ \A l \in labels : f[l] = Cardinality(Bucket(table, w, part, l))

LEMMA ColumnAddsUp ==
    ASSUME NEW table, NEW w, NEW labels, NEW part, IsFiniteSet(part),
           NEW f, IsColumn(f, table, w, part, labels)
    PROVE  Total(f) = Cardinality(part)
<1> USE DEF IsColumn
<1>1. PICK lab : lab = [i \in part |-> LabelOf(table[i].at, w)]
  OBVIOUS
<1>2. lab \in [part -> labels]
  BY <1>1
<1>3. ASSUME NEW l \in labels
      PROVE  f[l] = Cardinality(Labelled(part, lab, l))
  <2>1. Labelled(part, lab, l) = Bucket(table, w, part, l)
    BY <1>1 DEF Labelled, Bucket
  <2> QED
    BY <2>1
<1>4. \A l \in labels : f[l] = Cardinality(Labelled(part, lab, l))
  BY <1>3
<1> QED
  BY <1>2, <1>4, CountsAddUp

LEMMA DistributionAddsUp ==
    ASSUME NEW found, IsFiniteSet(found), NEW lab, lab = [i \in found |-> lab[i]],
           NEW f, f = [x \in {lab[i] : i \in found} |-> Cardinality(Labelled(found, lab, x))]
    PROVE  Total(f) = Cardinality(found)
<1>1. PICK L : L = {lab[i] : i \in found}
  OBVIOUS
<1>2. lab \in [found -> L]
  BY <1>1
<1>3. DOMAIN f = L /\ \A x \in L : f[x] = Cardinality(Labelled(found, lab, x))
  BY <1>1
<1> QED
  BY <1>2, <1>3, CountsAddUp

\* Everything in a bucket is a vehicle or a person.
LEMMA VehiclesAndPersons ==
    ASSUME NEW table, NEW here, IsFiniteSet(here)
    PROVE  Cardinality({i \in here : table[i].class # "person"})
             + Cardinality({i \in here : table[i].class = "person"}) = Cardinality(here)
<1>1. PICK A, B : /\ A = {i \in here : table[i].class # "person"}
                  /\ B = {i \in here : table[i].class = "person"}
  OBVIOUS
<1>2. A \subseteq here /\ B \subseteq here /\ A \cup B = here /\ A \cap B = {}
  BY <1>1
<1>3. IsFiniteSet(A) /\ IsFiniteSet(B)
  BY <1>2, FS_Subset
<1>4. Cardinality(A \cup B) = Cardinality(A) + Cardinality(B) - Cardinality(A \cap B)
  BY <1>3, FS_Union
<1>5. Cardinality(A) \in Nat /\ Cardinality(B) \in Nat /\ Cardinality(A \cap B) = 0
  BY <1>2, <1>3, FS_CardinalityType, FS_EmptySet
<1>6. Cardinality(A \cup B) = Cardinality(A) + Cardinality(B)
  BY <1>4, <1>5
<1> QED
  BY <1>1, <1>2, <1>6

\* The columns of the chart of a set of rows.
ChartAddsUp(table, found, chart) ==
    LET labels == DOMAIN chart
    IN /\ Total([l \in labels |-> chart[l].vehicles + chart[l].persons]) = Cardinality(found)
       /\ Total([l \in labels |-> chart[l].persons])
             = Cardinality({i \in found : table[i].class = "person"})
       /\ Total([l \in labels |-> chart[l].anpr])
             = Cardinality({i \in found : table[i].plate # Null})
       /\ Total([l \in labels |-> chart[l].watchlist])
             = Cardinality({i \in found : table[i].status # Null})

LEMMA ChartSums ==
    ASSUME NEW table, NEW found, IsFiniteSet(found), NEW w,
           NEW chart, chart = Series(table, found, w)
    PROVE  ChartAddsUp(table, found, chart)
<1> DEFINE labels == DOMAIN chart
<1>1. labels = Labels(w) \cup {LabelOf(table[i].at, w) : i \in found}
  BY DEF Series
<1>2. ASSUME NEW l \in labels
      PROVE  /\ chart[l].vehicles + chart[l].persons = Cardinality(Bucket(table, w, found, l))
             /\ chart[l].persons =
                  Cardinality(Bucket(table, w, {i \in found : table[i].class = "person"}, l))
             /\ chart[l].anpr =
                  Cardinality(Bucket(table, w, {i \in found : table[i].plate # Null}, l))
             /\ chart[l].watchlist =
                  Cardinality(Bucket(table, w, {i \in found : table[i].status # Null}, l))
  <2>1. PICK here : here = Bucket(table, w, found, l)
    OBVIOUS
  <2>2. /\ chart[l].vehicles = Cardinality({i \in here : table[i].class # "person"})
        /\ chart[l].persons = Cardinality({i \in here : table[i].class = "person"})
        /\ chart[l].anpr = Cardinality({i \in here : table[i].plate # Null})
        /\ chart[l].watchlist = Cardinality({i \in here : table[i].status # Null})
    BY <1>1, <2>1 DEF Series, CountOf, Bucket
  <2>3. IsFiniteSet(here)
    BY <2>1, FS_Subset DEF Bucket
  <2>4. /\ {i \in here : table[i].class = "person"}
             = Bucket(table, w, {i \in found : table[i].class = "person"}, l)
        /\ {i \in here : table[i].plate # Null}
             = Bucket(table, w, {i \in found : table[i].plate # Null}, l)
        /\ {i \in here : table[i].status # Null}
             = Bucket(table, w, {i \in found : table[i].status # Null}, l)
    BY <2>1 DEF Bucket
  <2>5. chart[l].vehicles + chart[l].persons = Cardinality(here)
    <3>1. Cardinality({i \in here : table[i].class # "person"})
             + Cardinality({i \in here : table[i].class = "person"}) = Cardinality(here)
      BY <2>3, VehiclesAndPersons, Zenon
    <3> QED
      BY <2>2, <3>1, Zenon
  <2>6. chart[l].vehicles + chart[l].persons = Cardinality(Bucket(table, w, found, l))
    BY <2>1, <2>5, Zenon
  <2>7. chart[l].persons =
          Cardinality(Bucket(table, w, {i \in found : table[i].class = "person"}, l))
    BY <2>2, <2>4, Zenon
  <2>8. chart[l].anpr = Cardinality(Bucket(table, w, {i \in found : table[i].plate # Null}, l))
    BY <2>2, <2>4, Zenon
  <2>9. chart[l].watchlist =
          Cardinality(Bucket(table, w, {i \in found : table[i].status # Null}, l))
    BY <2>2, <2>4, Zenon
  <2> QED
    BY <2>6, <2>7, <2>8, <2>9, Zenon
<1> HIDE DEF labels
<1>3. ASSUME NEW part \in SUBSET found
      PROVE  Total([l \in labels |-> Cardinality(Bucket(table, w, part, l))]) = Cardinality(part)
  <2>1. PICK f : f = [l \in labels |-> Cardinality(Bucket(table, w, part, l))]
    OBVIOUS
  <2>2. DOMAIN f = labels /\ \A l \in labels : f[l] = Cardinality(Bucket(table, w, part, l))
    BY <2>1
  <2>3. IsFiniteSet(part)
    BY FS_Subset
  <2>4. \A i \in part : LabelOf(table[i].at, w) \in labels
    BY <1>1
  <2>5. IsColumn(f, table, w, part, labels)
    BY <2>2, <2>4 DEF IsColumn
  <2>6. Total(f) = Cardinality(part)
    BY <2>3, <2>5, ColumnAddsUp, Zenon
  <2> QED
    BY <2>1, <2>6, Zenon
<1>4. Total([l \in labels |-> chart[l].vehicles + chart[l].persons]) = Cardinality(found)
  <2>1. [l \in labels |-> chart[l].vehicles + chart[l].persons]
          = [l \in labels |-> Cardinality(Bucket(table, w, found, l))]
    BY <1>2, Zenon
  <2> QED
    BY <1>3, <2>1, Zenon
<1>5. PICK part : part = {i \in found : table[i].class = "person"}
  OBVIOUS
<1>6. Total([l \in labels |-> chart[l].persons]) = Cardinality(part)
  <2>1. [l \in labels |-> chart[l].persons]
          = [l \in labels |-> Cardinality(Bucket(table, w, part, l))]
    BY <1>2, <1>5, Zenon
  <2>2. part \in SUBSET found
    BY <1>5
  <2> QED
    BY <1>3, <2>1, <2>2, Zenon
<1>7. PICK plated : plated = {i \in found : table[i].plate # Null}
  OBVIOUS
<1>8. Total([l \in labels |-> chart[l].anpr]) = Cardinality(plated)
  <2>1. [l \in labels |-> chart[l].anpr]
          = [l \in labels |-> Cardinality(Bucket(table, w, plated, l))]
    BY <1>2, <1>7, Zenon
  <2>2. plated \in SUBSET found
    BY <1>7
  <2> QED
    BY <1>3, <2>1, <2>2, Zenon
<1>9. PICK watched : watched = {i \in found : table[i].status # Null}
  OBVIOUS
<1>10. Total([l \in labels |-> chart[l].watchlist]) = Cardinality(watched)
  <2>1. [l \in labels |-> chart[l].watchlist]
          = [l \in labels |-> Cardinality(Bucket(table, w, watched, l))]
    BY <1>2, <1>9, Zenon
  <2>2. watched \in SUBSET found
    BY <1>9
  <2> QED
    BY <1>3, <2>1, <2>2, Zenon
<1> QED
  BY <1>4, <1>5, <1>6, <1>7, <1>8, <1>9, <1>10, Zenon DEF ChartAddsUp, labels

LEMMA FiguresSum ==
    ASSUME NEW table \in Seq(Event), NEW alerts, NEW q, NEW list
    PROVE  FiguresAddUp(Summary(table, alerts, q, list))
<1> DEFINE sum == Summary(table, alerts, q, list)
           found == Matching(table, q)
<1>1. IsFiniteSet(found)
  BY FoundIsFinite
<1>2. /\ sum.total = Cardinality(found)
      /\ sum.persons = Cardinality({i \in found : table[i].class = "person"})
      /\ sum.anpr = Cardinality({i \in found : table[i].plate # Null})
      /\ sum.watchlist = Cardinality({i \in found : table[i].status # Null})
  BY DEF Summary, CountOf
<1>3. /\ sum.classes = [x \in {table[i].class : i \in found} |->
                           Cardinality({i \in found : table[i].class = x})]
      /\ sum.depts = [x \in {DeptOf(table[i].cam) : i \in found} |->
                         Cardinality({i \in found : DeptOf(table[i].cam) = x})]
      /\ sum.series = Series(table, found, parse_time_window(q))
  BY DistributionsAre
<1> HIDE DEF sum, found
<1>4. Total(sum.classes) = Cardinality(found)
  <2>1. PICK lab : lab = [i \in found |-> table[i].class]
    OBVIOUS
  <2>2. sum.classes = [x \in {lab[i] : i \in found} |-> Cardinality(Labelled(found, lab, x))]
    <3>1. {lab[i] : i \in found} = {table[i].class : i \in found}
      BY <2>1
    <3>2. \A x : Labelled(found, lab, x) = {i \in found : table[i].class = x}
      BY <2>1 DEF Labelled
    <3> QED
      BY <1>3, <3>1, <3>2, Zenon
  <2>3. lab = [i \in found |-> lab[i]]
    BY <2>1
  <2> QED
    BY <1>1, <2>2, <2>3, DistributionAddsUp
<1>5. Total(sum.depts) = Cardinality(found)
  <2>1. PICK lab : lab = [i \in found |-> DeptOf(table[i].cam)]
    OBVIOUS
  <2>2. sum.depts = [x \in {lab[i] : i \in found} |-> Cardinality(Labelled(found, lab, x))]
    <3>1. {lab[i] : i \in found} = {DeptOf(table[i].cam) : i \in found}
      BY <2>1
    <3>2. \A x : Labelled(found, lab, x) = {i \in found : DeptOf(table[i].cam) = x}
      BY <2>1 DEF Labelled
    <3> QED
      BY <1>3, <3>1, <3>2, Zenon
  <2>3. lab = [i \in found |-> lab[i]]
    BY <2>1
  <2> QED
    BY <1>1, <2>2, <2>3, DistributionAddsUp
<1>6. ChartAddsUp(table, found, sum.series)
  BY <1>1, <1>3, ChartSums
<1>7. FiguresAddUp(sum)
  BY <1>2, <1>4, <1>5, <1>6, Zenon DEF FiguresAddUp, ChartAddsUp
<1> QED
  BY <1>7 DEF sum

-----------------------------------------------------------------------------
(* The chart of today. *)

\* The time of a day that began at midnight has the label of its hour.
LEMMA HourOfDay ==
    ASSUME NEW k \in Nat, NEW s \in 0 .. 47
    PROVE  /\ (48 * k + s) \div 2 = 24 * k + s \div 2
           /\ (24 * k + s \div 2) % 24 = s \div 2
           /\ s \div 2 \in 0 .. 23
<1>1. s \div 2 \in 0 .. 23
  OBVIOUS
<1>2. (48 * k + s) \div 2 = 24 * k + s \div 2
  OBVIOUS
<1>3. ASSUME NEW h \in 0 .. 23
      PROVE  (24 * k + h) % 24 = h
  OBVIOUS
<1> QED
  BY <1>1, <1>2, <1>3

LEMMA SinceMidnight ==
    ASSUME NEW now \in Nat
    PROVE  /\ Floor(now, 48) = 48 * (now \div 48)
           /\ now \div 48 \in Nat /\ now % 48 \in 0 .. 47
           /\ now = 48 * (now \div 48) + (now % 48)
<1>1. now \div 48 \in Nat /\ now % 48 \in 0 .. 47
  OBVIOUS
<1>2. now = 48 * (now \div 48) + (now % 48)
  OBVIOUS
<1>3. PICK k \in Nat, r \in 0 .. 47 : k = now \div 48 /\ r = now % 48
  BY <1>1
<1>4. Floor(now, 48) = 48 * k
  BY <1>2, <1>3 DEF Floor
<1> QED
  BY <1>1, <1>2, <1>3, <1>4

LEMMA EvenTimes ==
    ASSUME NEW k \in Nat
    PROVE  /\ Floor(48 * k, 2) = 48 * k
           /\ \A h \in Nat : (48 * k + 2 * h) % 2 = 0 /\ (2 * h) \div 2 = h
<1>1. (48 * k) % 2 = 0
  OBVIOUS
<1> QED
  BY <1>1 DEF Floor

\* A query about today, asked r halves of an hour after the k-th midnight.
AsksToday(q, k, r) ==
    q \in Query /\ q.range = "today" /\ k = q.now \div 48 /\ r = q.now % 48

\* A window of r halves of an hour since then, and the hours of the times in it.
IsToday(w, k, r) ==
    /\ w.from = 48 * k /\ w.to = 48 * k + r
    /\ UsesHours(w)
    /\ \A s \in 0 .. r : LabelOf(48 * k + s, w) = s \div 2

LEMMA TodayWindow ==
    ASSUME NEW k \in Nat, NEW r \in 0 .. 47, NEW q, AsksToday(q, k, r),
           NEW w, w = parse_time_window(q)
    PROVE  IsToday(w, k, r)
<1> USE DEF AsksToday
<1>1. q.now \in Nat
  BY DEF Query
<1>2. w = [from |-> Floor(q.now, Day), to |-> q.now]
  BY DEF parse_time_window
<1>3. Day = 48 /\ Hour = 2
  BY DEF Day, Hour
<1>4. w.from = 48 * k /\ w.to = 48 * k + r
  BY <1>1, <1>2, <1>3, SinceMidnight
<1>5. UsesHours(w)
  BY <1>3, <1>4 DEF UsesHours
<1>6. ASSUME NEW s \in 0 .. 47
      PROVE  LabelOf(48 * k + s, w) = s \div 2
  <2>1. LabelOf(48 * k + s, w) = ((48 * k + s) \div 2) % 24
    BY <1>3, <1>5 DEF LabelOf
  <2> QED
    BY <2>1, HourOfDay
<1>7. \A s \in 0 .. r : s \in 0 .. 47
  OBVIOUS
<1> QED
  BY <1>4, <1>5, <1>6, <1>7 DEF IsToday

LEMMA TodayLabels ==
    ASSUME NEW k \in Nat, NEW r \in 0 .. 47, NEW q, AsksToday(q, k, r)
    PROVE  Labels(parse_time_window(q)) = 0 .. (r \div 2)
<1>1. PICK w : w = parse_time_window(q)
  OBVIOUS
<1>2. /\ w.from = 48 * k /\ w.to = 48 * k + r
      /\ UsesHours(w)
      /\ \A s \in 0 .. r : LabelOf(48 * k + s, w) = s \div 2
  <2>1. IsToday(w, k, r)
    BY <1>1, TodayWindow, Zenon
  <2> QED
    BY <2>1 DEF IsToday
<1>3. PICK times : times = {x \in 48 * k .. 48 * k + r : x % 2 = 0}
  OBVIOUS
<1>4. Floor(48 * k, 2) = 48 * k
  BY EvenTimes
<1>5. Labels(w) = {LabelOf(t, w) : t \in times}
  BY <1>2, <1>3, <1>4 DEF Labels, Hour
<1>6. ASSUME NEW t \in times
      PROVE  LabelOf(t, w) \in 0 .. (r \div 2)
  <2>1. PICK s \in 0 .. r : t = 48 * k + s
    <3>1. t \in 48 * k .. 48 * k + r
      BY <1>3
    <3>2. t - 48 * k \in 0 .. r /\ t = 48 * k + (t - 48 * k)
      BY <3>1
    <3> QED
      BY <3>2
  <2>2. LabelOf(t, w) = s \div 2
    BY <1>2, <2>1, Zenon
  <2>3. s \div 2 \in 0 .. (r \div 2)
    OBVIOUS
  <2> QED
    BY <2>2, <2>3
<1>7. ASSUME NEW h \in 0 .. (r \div 2)
      PROVE  \E t \in times : LabelOf(t, w) = h
  <2>1. PICK s \in 0 .. r : s = 2 * h
    <3>1. 2 * h \in 0 .. r
      OBVIOUS
    <3> QED
      BY <3>1
  <2>2. s \div 2 = h /\ (48 * k + s) % 2 = 0
    BY <2>1
  <2>3. 48 * k + s \in times
    BY <1>3, <2>2
  <2>4. LabelOf(48 * k + s, w) = h
    BY <1>2, <2>2, Zenon
  <2> QED
    BY <2>3, <2>4
<1>8. Labels(w) = 0 .. (r \div 2)
  BY <1>5, <1>6, <1>7
<1> QED
  BY <1>1, <1>8

LEMMA TodaySeries ==
    ASSUME NEW table \in Seq(Event), NEW q \in Query, q.range = "today", NEW w,
           w = parse_time_window(q), NEW chart, chart = Series(table, Matching(table, q), w)
    PROVE  /\ DOMAIN chart = 0 .. ((q.now % Day) \div Hour)
           /\ \A i, j \in Matching(table, q) :
                 table[i].at \div Hour = table[j].at \div Hour <=>
                 LabelOf(table[i].at, w) = LabelOf(table[j].at, w)
<1>1. q.now \in Nat /\ Day = 48 /\ Hour = 2
  BY DEF Query, Day, Hour
<1>2. PICK k \in Nat, r \in 0 .. 47 : k = q.now \div 48 /\ r = q.now % 48
  BY <1>1, SinceMidnight
<1>10. AsksToday(q, k, r)
  BY <1>2 DEF AsksToday
<1>3. /\ w.from = 48 * k /\ w.to = 48 * k + r
      /\ \A s \in 0 .. r : LabelOf(48 * k + s, w) = s \div 2
  <2>1. IsToday(w, k, r)
    BY <1>10, TodayWindow, Zenon
  <2> QED
    BY <2>1 DEF IsToday
<1>4. ASSUME NEW i \in Matching(table, q)
      PROVE  \E s \in 0 .. r : /\ table[i].at = 48 * k + s
                               /\ LabelOf(table[i].at, w) = s \div 2
                               /\ table[i].at \div 2 = 24 * k + s \div 2
  <2>1. table[i] \in Event
    BY FoundIsFinite
  <2>2. table[i].at \in Nat
    BY <2>1 DEF Event
  <2>3. w.from <= table[i].at /\ table[i].at <= w.to
    BY DEF Matching
  <2>4. PICK s \in 0 .. r : s = table[i].at - 48 * k
    <3>1. PICK at \in Nat : at = table[i].at
      BY <2>2
    <3>2. 48 * k <= at /\ at <= 48 * k + r
      BY <1>3, <2>3, <3>1
    <3>3. at - 48 * k \in 0 .. r
      BY <3>2
    <3> QED
      BY <3>1, <3>3
  <2>5. table[i].at = 48 * k + s /\ s \in 0 .. 47
    <3>1. PICK at \in Nat : at = table[i].at
      BY <2>2
    <3>2. at = 48 * k + s
      BY <2>4, <3>1
    <3>3. s \in 0 .. 47
      OBVIOUS
    <3> QED
      BY <3>1, <3>2, <3>3, Zenon
  <2>6. (48 * k + s) \div 2 = 24 * k + s \div 2
    BY <2>5, HourOfDay
  <2> QED
    BY <1>3, <2>5, <2>6
<1>5. Labels(w) = 0 .. (r \div 2)
  BY <1>10, TodayLabels, Zenon
<1>6. \A i \in Matching(table, q) : LabelOf(table[i].at, w) \in 0 .. (r \div 2)
  <2> SUFFICES ASSUME NEW i \in Matching(table, q)
               PROVE  LabelOf(table[i].at, w) \in 0 .. (r \div 2)
    OBVIOUS
  <2>1. PICK s \in 0 .. r : LabelOf(table[i].at, w) = s \div 2
    BY <1>4
  <2>2. s \div 2 \in 0 .. (r \div 2)
    OBVIOUS
  <2> QED
    BY <2>1, <2>2
<1>7. DOMAIN chart = Labels(w) \cup {LabelOf(table[i].at, w) : i \in Matching(table, q)}
  BY DEF Series
<1>8. DOMAIN chart = 0 .. (r \div 2)
  BY <1>5, <1>6, <1>7, Zenon
<1>9. ASSUME NEW i \in Matching(table, q), NEW j \in Matching(table, q)
      PROVE  table[i].at \div 2 = table[j].at \div 2 <=>
             LabelOf(table[i].at, w) = LabelOf(table[j].at, w)
  <2>1. PICK s \in 0 .. r : /\ LabelOf(table[i].at, w) = s \div 2
                            /\ table[i].at \div 2 = 24 * k + s \div 2
    BY <1>4
  <2>2. PICK t \in 0 .. r : /\ LabelOf(table[j].at, w) = t \div 2
                            /\ table[j].at \div 2 = 24 * k + t \div 2
    BY <1>4
  <2>3. s \div 2 \in Nat /\ t \div 2 \in Nat
    OBVIOUS
  <2>4. 24 * k + s \div 2 = 24 * k + t \div 2 <=> s \div 2 = t \div 2
    BY <2>3
  <2> QED
    BY <2>1, <2>2, <2>4
<1> QED
  BY <1>1, <1>2, <1>8, <1>9

-----------------------------------------------------------------------------
(* The table as seeding leaves it, and the report as a summary of it. *)

\* The inductive invariant: what seeding leaves, and the report is the summary of
\* the table that stands there.
Reported ==
    report # Null =>
        \E q \in Queries : \E list \in Lists, alerts \in AlertTables :
            report = [query |-> q, figures |-> Summary(rows, alerts, q, list)]

AnalyticsInv == rows \in Seq(Event) /\ Seeded(rows) /\ Reported

LEMMA AnalyticsInitInv == AnalyticsInit => AnalyticsInv
<1> SUFFICES ASSUME AnalyticsInit
             PROVE  AnalyticsInv
  OBVIOUS
<1>1. PICK boot \in BootTimes : \E start \in Starts(<< >>, boot) : rows = start.table
  BY DEF AnalyticsInit
<1>2. PICK start \in Starts(<< >>, boot) : rows = start.table
  BY <1>1
<1>3. rows \in Seq(Event) /\ Seeded(rows)
  BY <1>2, NothingSeeded, StartsSeeded, Zenon
<1>4. report = Null
  BY DEF AnalyticsInit
<1> QED
  BY <1>3, <1>4 DEF AnalyticsInv, Reported

LEMMA AnalyticsStepInv == AnalyticsInv /\ [AnalyticsNext]_analytics => AnalyticsInv'
<1> SUFFICES ASSUME AnalyticsInv, [AnalyticsNext]_analytics
             PROVE  AnalyticsInv'
  OBVIOUS
<1>1. CASE Restart
  <2>1. PICK boot \in BootTimes : \E start \in Starts(rows, boot) : rows' = start.table
    BY <1>1 DEF Restart
  <2>2. PICK start \in Starts(rows, boot) : rows' = start.table
    BY <2>1
  <2>3. start.table \in Seq(Event) /\ Seeded(start.table)
    BY StartsSeeded, Zenon DEF AnalyticsInv
  <2>4. rows' \in Seq(Event) /\ Seeded(rows')
    BY <2>2, <2>3
  <2>5. report' = Null
    BY <1>1 DEF Restart
  <2> QED
    BY <2>4, <2>5 DEF AnalyticsInv, Reported
<1>2. CASE \E q \in Queries : get_analytics_summary(q)
  <2>1. PICK q \in Queries : get_analytics_summary(q)
    BY <1>2
  <2>2. PICK list \in Lists, alerts \in AlertTables :
           report' = [query |-> q, figures |-> Summary(rows, alerts, q, list)]
    BY <2>1 DEF get_analytics_summary
  <2>3. rows' = rows
    BY <2>1 DEF get_analytics_summary
  <2>4. report' = [query |-> q, figures |-> Summary(rows', alerts, q, list)]
    BY <2>2, <2>3
  <2>5. Seeded(rows')
    BY <2>3 DEF AnalyticsInv
  <2>6. Reported'
    BY <2>4, Zenon DEF Reported
  <2> QED
    BY <2>3, <2>5, <2>6 DEF AnalyticsInv
<1>3. CASE UNCHANGED analytics
  <2>1. rows' = rows /\ report' = report
    BY <1>3 DEF analytics
  <2>2. Reported'
    BY <2>1, Zenon DEF AnalyticsInv, Reported
  <2> QED
    BY <2>1, <2>2 DEF AnalyticsInv
<1> QED
  BY <1>1, <1>2, <1>3 DEF AnalyticsNext

THEOREM AnalyticsInvHolds == AnalyticsSpec => []AnalyticsInv
<1> QED
  BY AnalyticsInitInv, AnalyticsStepInv, PTL DEF AnalyticsSpec

\* However often the process starts and whichever commits fail, seeding leaves a
\* sample in the table at most once and the ground truth as a whole or not at all.
THEOREM SeededOnceHolds == AnalyticsSpec => []SeededOnce
<1>1. AnalyticsInv => SeededOnce
  BY DEF AnalyticsInv, SeededOnce
<1> QED
  BY <1>1, AnalyticsInvHolds, PTL

LEMMA ReportOfInv == AnalyticsInv => ReportAgrees
<1> SUFFICES ASSUME AnalyticsInv, report # Null
             PROVE  /\ FiguresDrillDown(report.query, report.figures)
                    /\ FiguresAddUp(report.figures)
                    /\ TodayByHour(report.query, report.figures)
  BY DEF ReportAgrees
<1>1. PICK q \in Queries : \E list \in Lists, alerts \in AlertTables :
         report = [query |-> q, figures |-> Summary(rows, alerts, q, list)]
  BY DEF AnalyticsInv, Reported
<1>2. PICK list \in Lists, alerts \in AlertTables :
         report = [query |-> q, figures |-> Summary(rows, alerts, q, list)]
  BY <1>1
<1>3. PICK f : f = Summary(rows, alerts, q, list)
  OBVIOUS
<1>4. report.query = q /\ report.figures = f
  BY <1>2, <1>3
<1>5. rows \in Seq(Event) /\ q \in Query
  BY AnalyticsConstants DEF AnalyticsInv
<1>6. FiguresDrillDown(q, f)
  <2> SUFFICES ASSUME q.type = Null
               PROVE  /\ f.vehicles = DrillDown(rows, q, "vehicle")
                      /\ f.persons = DrillDown(rows, q, "person")
                      /\ f.anpr = DrillDown(rows, q, "anpr")
                      /\ f.watchlist = DrillDown(rows, q, "watchlist")
    BY DEF FiguresDrillDown
  <2> QED
    BY <1>3, <1>5, Clicks
<1>7. FiguresAddUp(f)
  BY <1>3, <1>5, FiguresSum, Zenon
<1>8. TodayByHour(q, f)
  <2> SUFFICES ASSUME q.range = "today"
               PROVE  TodayByHour(q, f)
    BY DEF TodayByHour
  <2>1. PICK w, chart : w = parse_time_window(q) /\ chart = f.series
    OBVIOUS
  <2>2. chart = Series(rows, Matching(rows, q), w)
    BY <1>3, <2>1 DEF Summary
  <2>3. /\ DOMAIN chart = 0 .. ((q.now % Day) \div Hour)
        /\ \A i, j \in Matching(rows, q) :
              rows[i].at \div Hour = rows[j].at \div Hour <=>
              LabelOf(rows[i].at, w) = LabelOf(rows[j].at, w)
    BY <1>5, <2>1, <2>2, TodaySeries
  <2> QED
    BY <2>1, <2>3 DEF TodayByHour
<1> QED
  BY <1>4, <1>6, <1>7, <1>8, Zenon

\* Whatever the seeding left in the table, every figure of a summary is what the
\* click on it lists, the chart and the distributions account for every event, and
\* the chart of today has one bucket for each hour of today.
THEOREM ReportAgreesHolds == AnalyticsSpec => []ReportAgrees
<1> QED
  BY ReportOfInv, AnalyticsInvHolds, PTL
=============================================================================
