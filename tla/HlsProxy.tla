------------------------------ MODULE HlsProxy ------------------------------
(***************************************************************************)
(* The video proxy of the API: services/streaming/hls_proxy.py.            *)
(*                                                                         *)
(* The three handlers are coroutines of one event loop.  They share the    *)
(* playlist cache, the segment cache, the key and the session cookie, and  *)
(* others run wherever one awaits the video site: what a request read      *)
(* before an await may have changed after it.  The site answers in any     *)
(* order, refuses a session whose quota is used up, or fails.              *)
(***************************************************************************)
EXTENDS Integers, Sequences, FiniteSets, FiniteSetsExt

CONSTANTS
    Tasks,          \* requests the event loop serves at once
    Cameras,
    Names,          \* names of segments
    TTL,            \* _PLAYLIST_TTL
    KeyTTL,         \* 3600 of get_key
    Capacity,       \* _MAX_CACHED_SEGMENTS
    Evicted,        \* 20: segments evicted from a full cache
    Preloads,       \* what _init_segment_cache may find on disk
    MaxTime,        \* bound: the clock stops here
    MaxVersion,     \* bound: changes of what the site serves
    MaxRequests,    \* bound: requests
    First,          \* cam01: the files of the cache directory are its footage
    Own,            \* a body of the proxy's own: template playlist, built-in key
    None

Times == 0 .. MaxTime
Versions == 0 .. MaxVersion

\* What a request fetched, when it counts as fetched.
Entry == [body : Versions \cup {Own}, at : Times \cup {None}]

ASSUME ProxyConstants ==
    /\ TTL \in Nat /\ KeyTTL \in Nat
    /\ Capacity \in Nat \ {0} /\ Evicted \in 1 .. Capacity
    /\ First \in Cameras
    /\ Preloads \subseteq Seq([cam : {First}, name : Names, data : {First}])
    /\ MaxTime \in Nat /\ MaxVersion \in Nat /\ MaxRequests \in Nat
    /\ Own \notin Versions \cup Cameras \cup {None}
    /\ None \notin Versions \cup Times \cup Cameras \cup Names \cup Entry

VARIABLES
    clock,
    version,    \* what the site serves now: playlists and key
    versionAt,  \* what it served when the clock reached a time (history)
    cookie,     \* where the cookie comes from: _CURRENT_COOKIE or settings
    playlists,  \* _UPSTREAM_CACHE: body and cached_at, or None
    key,        \* _GLOBAL_KEY_BYTES and _KEY_LAST_FETCH (None: never)
    segments,   \* _SEGMENT_CACHE, in the order of insertion
    preloaded,  \* _FALLBACK_SEGMENTS: what was found on disk
    task,       \* task[t]: the request t serves, while it awaits the site
    answer,     \* the answer the last step gave, or None (history)
    requests    \* requests so far (history)

caches == <<playlists, key, segments>>
site == <<clock, version, versionAt, preloaded>>
vars == <<site, cookie, caches, task, answer, requests>>

\* data: the camera whose footage it is.
Segment == [cam : Cameras, name : Names, data : Cameras]
Reply == [status : {"ok", "refused", "failed"}, body : Versions]
Request == [kind  : {"playlist", "key", "segment"},
            cam   : Cameras \cup {None},
            name  : Names \cup {None},
            now   : Times,                  \* time.time() of its first line,
                                            \* which stream_segment has not
            entry : Entry \cup {None},      \* cache_entry
            step  : {"get", "login", "retry"},
            reply : Reply \cup {None}]
Answer == [kind : {"playlist", "key", "segment"},
           cam : Cameras \cup {None}, now : Times,
           body : Versions \cup Cameras \cup {Own, None},
           failed : BOOLEAN]    \* had a fetch for it failed?

TypeOK ==
    /\ clock \in Times /\ version \in Versions
    /\ versionAt \in [Times -> Versions]
    /\ cookie \in {"settings", "login"}
    /\ playlists \in [Cameras -> Entry \cup {None}]
    /\ key \in Entry
    /\ segments \in Seq(Segment) /\ preloaded \in Preloads
    /\ task \in [Tasks -> Request \cup {None}]
    /\ answer \in Answer \cup {None}
    /\ requests \in 0 .. MaxRequests

Init ==
    /\ clock = 0 /\ version = 0
    /\ versionAt = [i \in Times |-> 0]
    /\ cookie = "settings"
    /\ playlists = [c \in Cameras |-> None]
    /\ key = [body |-> Own, at |-> None]
    /\ preloaded \in Preloads /\ segments = preloaded
    /\ task = [t \in Tasks |-> None]
    /\ answer = None
    /\ requests = 0

-----------------------------------------------------------------------------
(* Requests and answers.                                                   *)

Arrives(t) ==
    /\ task[t] = None
    /\ requests < MaxRequests
    /\ requests' = requests + 1

Silent == answer' = None

(* The request of t awaits its first answer of the site. *)
Ask(t, kind, c, n, e) ==
    /\ task' = [task EXCEPT ![t] =
                  [kind |-> kind, cam |-> c, name |-> n,
                   now |-> IF kind = "segment" THEN 0 ELSE clock, entry |-> e,
                   step |-> "get", reply |-> None]]
    /\ Silent

Tell(kind, c, now, body, failed) ==
    answer' = [kind |-> kind, cam |-> c, now |-> now, body |-> body,
               failed |-> failed]

\* The request of t is of this kind and the site answered its last fetch.
Fetched(t, kind) ==
    /\ task[t] # None /\ task[t].kind = kind
    /\ task[t].reply # None
    /\ task[t].step # "login"
    /\ task[t].reply.status # "refused"

Succeeded(t) == task[t].reply.status = "ok"

Finish(t, body) ==
    /\ Tell(task[t].kind, task[t].cam, task[t].now, body, ~Succeeded(t))
    /\ task' = [task EXCEPT ![t] = None]

\* Slip: a fetch counts as fetched when its answer arrives.
Stamped_Late(t) == [body |-> task[t].reply.body, at |-> clock]

Stamped(t) == [body |-> task[t].reply.body, at |-> task[t].now]

(* A refused request logs in ... *)
Refused(t) ==
    /\ task[t] # None /\ task[t].reply # None
    /\ task[t].reply.status = "refused"
    /\ task' = [task EXCEPT ![t].step = "login", ![t].reply = None]
    /\ Silent
    /\ UNCHANGED <<site, cookie, caches, requests>>

\* Slip: a failed login leaves no cookie.
CookieAfter_Login(t) == IF Succeeded(t) THEN "login" ELSE None

\* A failed login leaves the cookie there was.
CookieAfter(t) == IF Succeeded(t) THEN "login" ELSE cookie

(* ... and tries again, whatever came of the login. *)
LoggedIn(t) ==
    /\ task[t] # None /\ task[t].step = "login" /\ task[t].reply # None
    /\ cookie' = CookieAfter(t)
    /\ task' = [task EXCEPT ![t].step = "retry", ![t].reply = None]
    /\ Silent
    /\ UNCHANGED <<site, caches, requests>>

-----------------------------------------------------------------------------
(* get_playlist.                                                           *)

AskPlaylist(t, c) ==
    /\ Arrives(t)
    /\ IF playlists[c] # None /\ clock - playlists[c].at <= TTL
       THEN Tell("playlist", c, clock, playlists[c].body, FALSE) /\ UNCHANGED task
       ELSE Ask(t, "playlist", c, None, playlists[c])
    /\ UNCHANGED <<site, cookie, caches>>

\* Slip: a failed refresh forgets the entry the request found.
Known_Not(t) == FALSE

\* Did the request find an entry, too old as it was?
Known(t) == task[t].entry # None

(* The entry is the one the request found before it awaited the site. *)
PlaylistFetched(t) ==
    /\ Fetched(t, "playlist")
    /\ LET c == task[t].cam
       IN \/ /\ Succeeded(t)
             /\ playlists' = [playlists EXCEPT ![c] = Stamped(t)]
             /\ Finish(t, task[t].reply.body)
          \/ /\ ~Succeeded(t) /\ Known(t)
             /\ UNCHANGED playlists
             /\ Finish(t, task[t].entry.body)
          \/ /\ ~Succeeded(t) /\ ~Known(t)
             /\ playlists' = [playlists EXCEPT
                                ![c] = [body |-> Own, at |-> task[t].now]]
             /\ Finish(t, Own)
    /\ UNCHANGED <<site, cookie, key, segments, requests>>

-----------------------------------------------------------------------------
(* get_key.                                                                *)

AskKey(t) ==
    /\ Arrives(t)
    /\ IF key.at # None /\ clock - key.at <= KeyTTL
       THEN Tell("key", None, clock, key.body, FALSE) /\ UNCHANGED task
       ELSE Ask(t, "key", None, None, None)
    /\ UNCHANGED <<site, cookie, caches>>

KeyFetched(t) ==
    /\ Fetched(t, "key")
    /\ key' = IF Succeeded(t) THEN Stamped(t) ELSE key
    /\ Finish(t, key'.body)
    /\ UNCHANGED <<site, cookie, playlists, segments, requests>>

-----------------------------------------------------------------------------
(* stream_segment.                                                         *)

\* Segments that were preloaded serve as _FALLBACK_SEGMENTS too.
Fallback == preloaded # << >>

At(c, n) == {i \in DOMAIN segments : segments[i].cam = c /\ segments[i].name = n}

OfCamera(c) == {i \in DOMAIN segments : segments[i].cam = c}

\* Slip: the oldest segment of the camera answers for the missing one.
Recent_Oldest(c) == Min(OfCamera(c))

\* Any "recently cached segment for the SAME CAMERA": the newest is taken.
Recent(c) == Max(OfCamera(c))

\* Slip: the full cache is not emptied.
Room_None(s) == s

\* A full cache loses its oldest entries.
Room(s) == IF Len(s) >= Capacity THEN SubSeq(s, Evicted + 1, Len(s)) ELSE s

\* A dictionary keeps the place of a key it has.
Put(s, x) ==
    LET same == {i \in DOMAIN s : s[i].cam = x.cam /\ s[i].name = x.name}
    IN IF same = {} THEN Append(s, x)
       ELSE [i \in DOMAIN s |-> IF i \in same THEN x ELSE s[i]]

AskSegment(t, c, n) ==
    /\ Arrives(t)
    /\ \/ /\ At(c, n) = {}
          /\ Ask(t, "segment", c, n, None)
       \/ \E i \in At(c, n) :
            /\ Tell("segment", c, 0, segments[i].data, FALSE)
            /\ UNCHANGED task
    /\ UNCHANGED <<site, cookie, caches>>

(* Without the segment: another one of the camera; footage of the first   *)
(* camera, which is then cached as the segment asked for; or none.         *)
SegmentFetched(t) ==
    /\ Fetched(t, "segment")
    /\ LET c == task[t].cam
           Item(data) == [cam |-> c, name |-> task[t].name, data |-> data]
       IN \/ /\ Succeeded(t)
             /\ segments' = Put(Room(segments), Item(c))
             /\ Finish(t, c)
          \/ /\ ~Succeeded(t) /\ OfCamera(c) # {}
             /\ Finish(t, segments[Recent(c)].data)
             /\ UNCHANGED segments
          \/ /\ ~Succeeded(t) /\ OfCamera(c) = {} /\ Fallback
             /\ segments' = Put(segments, Item(First))
             /\ Finish(t, First)
          \/ /\ ~Succeeded(t) /\ OfCamera(c) = {} /\ ~Fallback
             /\ Finish(t, None)
             /\ UNCHANGED segments
    /\ UNCHANGED <<site, cookie, playlists, key, requests>>

-----------------------------------------------------------------------------
(* The site and the clock.                                                 *)

\* What a fetch brings.  A segment never changes on the site, and a login has
\* no content.
Content(t) ==
    IF task[t].kind = "segment" \/ task[t].step = "login" THEN 0 ELSE version

\* Only the first fetch of a playlist or segment tells a refusal from a failure.
Refusals(t) ==
    LET told == IF task[t].step = "get" /\ task[t].kind # "key"
                THEN {"failed", "refused"} ELSE {"failed"}
    IN [status : told, body : {0}]

(* A request is answered with what is there at the moment. *)
SiteAnswers(t) ==
    /\ task[t] # None /\ task[t].reply = None
    /\ \E reply \in {[status |-> "ok", body |-> Content(t)]} \cup Refusals(t) :
          task' = [task EXCEPT ![t].reply = reply]
    /\ Silent
    /\ UNCHANGED <<site, cookie, caches, requests>>

SiteChanges ==
    /\ version < MaxVersion
    /\ version' = version + 1
    /\ Silent
    /\ UNCHANGED <<clock, versionAt, preloaded, cookie, caches, task, requests>>

Tick ==
    /\ clock < MaxTime
    /\ clock' = clock + 1
    /\ versionAt' = [i \in Times |-> IF i > clock THEN version ELSE versionAt[i]]
    /\ Silent
    /\ UNCHANGED <<version, preloaded, cookie, caches, task, requests>>

Next ==
    \/ \E t \in Tasks :
         \/ \E c \in Cameras : AskPlaylist(t, c)
         \/ AskKey(t)
         \/ \E c \in Cameras, n \in Names : AskSegment(t, c, n)
         \/ SiteAnswers(t) \/ Refused(t) \/ LoggedIn(t)
         \/ PlaylistFetched(t) \/ KeyFetched(t) \/ SegmentFetched(t)
    \/ SiteChanges
    \/ Tick

Spec == Init /\ [][Next]_vars

-----------------------------------------------------------------------------
(* Properties the code keeps.                                              *)

\* An answer no failed fetch stands behind is not older than its cache allows:
\* it was on the site at most a TTL before the request, however the answers to
\* concurrent fetches overtook each other and overwrote the caches.
FreshAnswers ==
    LET ttl == IF answer.kind = "key" THEN KeyTTL ELSE TTL
        since == IF answer.now > ttl THEN answer.now - ttl ELSE 0
    IN answer # None /\ answer.kind # "segment" /\ ~answer.failed =>
         /\ answer.body # Own => answer.body >= versionAt[since]
         /\ answer.body = Own => answer.kind = "playlist"

\* Does the cache hold a playlist of the site for c?
Real(c) == playlists[c] # None /\ playlists[c].body # Own

\* Is t fetching the playlist of c, having found no entry at all?
Blind(t, c) ==
    /\ task[t] # None /\ task[t].kind = "playlist" /\ task[t].cam = c
    /\ task[t].entry = None

\* A playlist of the site gives way to the template only to a request that was
\* under way since before there was an entry; without one, it stays.
RealStays ==
    [][\A c \in Cameras :
         Real(c) /\ (\A t \in Tasks : ~Blind(t, c)) => Real(c)']_vars

\* Footage of the first camera is cached at most once for any other, whichever
\* of its segments failed at once.
OneFallback ==
    \A i, j \in DOMAIN segments :
        /\ segments[i].cam = segments[j].cam /\ segments[i].cam # First
        /\ segments[i].data = First /\ segments[j].data = First
        => i = j

\* A full segment cache grows only by footage of the first camera, cached for a
\* camera that has nothing cached ("_MAX_CACHED_SEGMENTS").
FullCacheGrowsByFallback ==
    [][/\ Len(segments) >= Capacity /\ Len(segments') > Len(segments)
       => /\ segments'[Len(segments')].data = First
          /\ OfCamera(segments'[Len(segments')].cam) = {}]_vars

\* After a failed fetch a camera is answered with footage that is not its own only
\* if the cache has none of its own by then, whatever other requests stored, put
\* in the place of borrowed footage and evicted in the meantime.  It is then the
\* first camera's.  (stream_segment borrows, whatever its docstring says.)
BorrowedOnlyForLack ==
    /\ answer # None /\ answer.kind = "segment" /\ answer.failed
    /\ answer.body \notin {answer.cam, None}
    => /\ answer.body = First
       /\ \A i \in OfCamera(answer.cam) : segments[i].data # answer.cam

=============================================================================
