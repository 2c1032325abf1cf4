-------------------------- MODULE CameraDirectory --------------------------
(***************************************************************************)
(* The list of cameras: services/camera/catalogue.py, which fetches and    *)
(* parses the catalogue of the site, models/camera.py, and the two caches  *)
(* in front of it, that of main.py (_get_cameras, list_cameras,            *)
(* sync_cameras) and that of analytics_service.py (_get_cached_cameras).   *)
(*                                                                         *)
(* Requests run in threads of a pool and no lock protects a cache: every   *)
(* access to a global is a step.                                           *)
(***************************************************************************)
EXTENDS Integers, FiniteSets

CONSTANTS
    Threads, None,
    Registry,       \* ids of GUJARAT_POLICE_CAMERA_REGISTRY
    Answers,        \* what the site may answer
    Malformed,      \* an entry of an answer that is no camera
    TTL,            \* _CAMERA_CACHE_TTL and _CATALOGUE_CACHE_TTL
    FetchTime,      \* bound: how long a request takes at most, by its timeout
    MaxClock,       \* bound: the last instant
    MaxRequests     \* bound: requests begun

VARIABLES
    clock,      \* time.monotonic()
    cameras,    \* _camera_cache
    stamp,      \* _camera_cache_time
    catalogue,  \* _catalogue_cache
    catStamp,   \* _catalogue_cache_time
    req,        \* req[t]: the request of thread t, or None
    reply,      \* the reply this step gave, or None (history)
    begun       \* counter for the bound (history)

mainCache == <<cameras, stamp>>
catCache == <<catalogue, catStamp>>
vars == <<clock, mainCache, catCache, req, reply, begun>>

-----------------------------------------------------------------------------
(* Fetching.  ids: the cameras of a list; got: when the site gave it       *)
(* (history).                                                              *)

Answer == [readable : BOOLEAN, entries : SUBSET (STRING \cup {Malformed})]

\* An entry that is no object, or whose fields do not validate, is malformed;
\* one without an id is a camera all the same, and gets an empty id.
IsCamera(e) == e # Malformed

\* _parse_catalogue_response: malformed entries are skipped.
Parsed(entries) == {e \in entries : IsCamera(e)}

\* _provisional_camera_list.
Provisional == Registry

\* Slip: an entry that is no camera is taken for one.
FetchedIds_Unchecked(answer) == IF answer.readable THEN answer.entries ELSE Provisional

(* fetch_catalogue: no connection, a timeout, a status of 400 or more, a   *)
(* page or a body that is no JSON count as the registry; what is JSON      *)
(* gives the entries that are cameras, perhaps none.                       *)
FetchedIds(answer) ==
    IF answer.readable THEN Parsed(answer.entries) ELSE Provisional

Fetched(answer) == [ids |-> FetchedIds(answer), got |-> clock]

Blank == [ids |-> {}, got |-> 0]

List == [ids : SUBSET STRING, got : 0 .. MaxClock]

ASSUME DirectoryConstants ==
    /\ Answers \subseteq Answer /\ Answers # {}
    /\ Registry \subseteq STRING /\ Malformed \notin STRING
    /\ TTL \in Nat \ {0} /\ {FetchTime, MaxClock, MaxRequests} \subseteq Nat
    /\ None \notin Nat \cup List

-----------------------------------------------------------------------------
(* Requests.  now is read at the start of the look into the cache; began   *)
(* (history) before.  own is what this request fetched.                    *)

Request ==
    [op : {"list", "sync", "summary"}, began : 0 .. MaxClock, now : 0 .. MaxClock,
     own : List \cup {None},
     at : {"unstamp", "look", "compare", "fetch", "keep", "stamp", "serve"}]

Reply == [op : {"list", "sync", "summary"}, began : 0 .. MaxClock,
          own : List \cup {None}, list : List]

TypeOK ==
    /\ clock \in 0 .. MaxClock
    /\ cameras \in List /\ catalogue \in List
    /\ stamp \in 0 .. MaxClock \cup {None}
    /\ catStamp \in 0 .. MaxClock \cup {None}
    /\ req \in [Threads -> Request \cup {None}]
    /\ reply \in Reply \cup {None}
    /\ begun \in 0 .. MaxRequests

\* lifespan counts the cameras before the first request, so there is a list.
Init ==
    /\ clock = 0
    /\ cameras \in {Fetched(a) : a \in Answers} /\ stamp = clock
    /\ catalogue = Blank /\ catStamp = None
    /\ req = [t \in Threads |-> None]
    /\ reply = None
    /\ begun = 0

IsAt(t, place) == req[t] # None /\ req[t].at = place
IsFor(t, ops) == req[t] # None /\ req[t].op \in ops
Goto(t, place) == req' = [req EXCEPT ![t].at = place]

Begin(t, op, place) ==
    /\ req[t] = None /\ begun < MaxRequests
    /\ begun' = begun + 1
    /\ req' = [req EXCEPT ![t] = [op |-> op, began |-> clock, now |-> clock,
                                  own |-> None, at |-> place]]
    /\ reply' = None
    /\ UNCHANGED clock

Respond(t, list) ==
    /\ req' = [req EXCEPT ![t] = None]
    /\ reply' = [op |-> req[t].op, began |-> req[t].began,
                 own |-> req[t].own, list |-> list]
    /\ UNCHANGED <<clock, begun>>

Unmoved == reply' = None /\ UNCHANGED <<clock, begun>>

(* sync_cameras empties the cache, in two assignments, and asks it.        *)
SyncBegin(t) ==
    /\ Begin(t, "sync", "unstamp")
    /\ cameras' = Blank
    /\ UNCHANGED <<stamp, catCache>>

SyncUnstamp(t) ==
    /\ IsAt(t, "unstamp")
    /\ stamp' = None
    /\ req' = [req EXCEPT ![t].at = "look"]
    /\ Unmoved /\ UNCHANGED <<cameras, catCache>>

\* _get_cameras reads the clock, then whether there is a stamp.
SyncLook(t) ==
    /\ IsAt(t, "look")
    /\ req' = [req EXCEPT ![t].now = clock,
                          ![t].at = IF stamp = None THEN "fetch" ELSE "compare"]
    /\ Unmoved /\ UNCHANGED <<mainCache, catCache>>

ListLook(t) ==
    /\ Begin(t, "list", IF stamp = None THEN "fetch" ELSE "compare")
    /\ UNCHANGED <<mainCache, catCache>>

IsFresh(now, at) == at # None /\ now - at < TTL

(* The stamp is read a second time; a sync may have taken it away, and the *)
(* subtraction fails: no list is served.                                   *)
Compare(t) ==
    /\ IsAt(t, "compare") /\ IsFor(t, {"list", "sync"})
    /\ req' = IF stamp = None THEN [req EXCEPT ![t] = None]
              ELSE [req EXCEPT ![t].at =
                        IF IsFresh(req[t].now, stamp) THEN "serve" ELSE "fetch"]
    /\ Unmoved /\ UNCHANGED <<mainCache, catCache>>

(* _get_cached_cameras reads the clock and whether there is a list.        *)
SummaryLook(t) ==
    /\ Begin(t, "summary", IF catalogue.ids # {} THEN "compare" ELSE "fetch")
    /\ UNCHANGED <<mainCache, catCache>>

(* Its stamp next.  The code reads it twice, but nothing takes it away: a  *)
(* second read says no less than the first.                                *)
SummaryCompare(t) ==
    /\ IsAt(t, "compare") /\ IsFor(t, {"summary"})
    /\ Goto(t, IF IsFresh(req[t].now, catStamp) THEN "serve" ELSE "fetch")
    /\ Unmoved /\ UNCHANGED <<mainCache, catCache>>

Fetch(t) ==
    /\ IsAt(t, "fetch")
    /\ \E a \in Answers :
          req' = [req EXCEPT ![t].own = Fetched(a),
                             ![t].at = IF req[t].op = "summary" /\ FetchedIds(a) = {}
                                       THEN "serve" ELSE "keep"]
    /\ Unmoved /\ UNCHANGED <<mainCache, catCache>>

\* The list first, its stamp after it.
Keep(t) ==
    /\ IsAt(t, "keep")
    /\ Goto(t, "stamp")
    /\ IF req[t].op = "summary" THEN catalogue' = req[t].own /\ UNCHANGED cameras
       ELSE cameras' = req[t].own /\ UNCHANGED catalogue
    /\ Unmoved /\ UNCHANGED <<stamp, catStamp>>

\* Slip: the stamp is of the end of the fetch and counts from there.
Stamp_Late(t) ==
    /\ IsAt(t, "stamp")
    /\ IF req[t].op = "summary"
       THEN /\ catStamp' = clock /\ Goto(t, "serve")
            /\ UNCHANGED stamp /\ Unmoved
       ELSE stamp' = clock /\ UNCHANGED catStamp /\ Respond(t, req[t].own)
    /\ UNCHANGED <<cameras, catalogue>>

(* The stamp is of the beginning of the look.  main answers with its own   *)
(* list, analytics with what is in the cache by now.                       *)
Stamp(t) ==
    /\ IsAt(t, "stamp")
    /\ IF req[t].op = "summary"
       THEN /\ catStamp' = req[t].now /\ Goto(t, "serve")
            /\ UNCHANGED stamp /\ Unmoved
       ELSE stamp' = req[t].now /\ UNCHANGED catStamp /\ Respond(t, req[t].own)
    /\ UNCHANGED <<cameras, catalogue>>

Serve(t) ==
    /\ IsAt(t, "serve") /\ IsFor(t, {"list", "sync"})
    /\ Respond(t, cameras)
    /\ UNCHANGED <<mainCache, catCache>>

\* An empty catalogue is never preferred.
SummaryServe(t) ==
    /\ IsAt(t, "serve") /\ IsFor(t, {"summary"})
    /\ Respond(t, IF catalogue.ids # {} THEN catalogue ELSE req[t].own)
    /\ UNCHANGED <<mainCache, catCache>>

(* Time passes while no request is out longer than its timeout allows.     *)
Tick ==
    /\ clock < MaxClock
    /\ \A t \in Threads : req[t] # None => clock < req[t].now + FetchTime
    /\ clock' = clock + 1
    /\ reply' = None
    /\ UNCHANGED <<mainCache, catCache, req, begun>>

Next ==
    \/ Tick
    \/ \E t \in Threads :
          \/ SyncBegin(t) \/ SyncUnstamp(t) \/ SyncLook(t)
          \/ ListLook(t) \/ Compare(t) \/ SummaryLook(t) \/ SummaryCompare(t)
          \/ Fetch(t) \/ Keep(t) \/ Stamp(t) \/ Serve(t) \/ SummaryServe(t)

Spec == Init /\ [][Next]_vars

-----------------------------------------------------------------------------
(* Properties.                                                             *)

\* A list served from a cache was given by the site less than a time to live and
\* the time of one request before it was asked for, although list and stamp are
\* stored apart and the pairs of two requests may mix; a summary may serve an
\* older one only when the catalogue it fetched itself was empty.
ServedAge ==
    reply # None /\ reply.list.ids # {} =>
        \/ reply.list.got > reply.began - TTL - FetchTime
        \/ reply.op = "summary" /\ reply.own # None /\ reply.own.ids = {}
=============================================================================
