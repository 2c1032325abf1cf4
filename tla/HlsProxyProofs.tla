--------------------------- MODULE HlsProxyProofs ---------------------------
(***************************************************************************)
(* Theorems about HlsProxy, for every set of requests, cameras and names,  *)
(* every time to live, every limit of the segment cache and every content  *)
(* of the cache directory.                                                 *)
(***************************************************************************)
EXTENDS HlsProxy, TLAPS, WellFoundedInduction

-----------------------------------------------------------------------------
(* The invariant.                                                          *)

\* What the site served never gets older.
History ==
    /\ \A i, j \in Times : i <= j => versionAt[i] <= versionAt[j]
    /\ \A i \in Times : versionAt[i] <= version

\* An entry is at least as new as what the site served when it was stamped.
Honest(e) ==
    /\ e.at \in Times /\ e.at <= clock
    /\ e.body # Own => e.body >= versionAt[e.at]

PlaylistsHonest ==
    \A c \in Cameras : playlists[c] # None => Honest(playlists[c])

\* The built-in key is replaced with the first key fetched.
KeyHonest == (key.body = Own <=> key.at = None) /\ (key.at # None => Honest(key))

\* What a request was answered is at least as new as when it began.
Pending(t) ==
    task[t] # None =>
        /\ task[t].now <= clock
        /\ task[t].kind # "key" => task[t].cam \in Cameras
        /\ task[t].kind = "segment" => task[t].name \in Names
        /\ /\ task[t].reply # None /\ task[t].step # "login"
           /\ task[t].reply.status = "ok" /\ task[t].kind # "segment"
           => task[t].reply.body >= versionAt[task[t].now]

\* A segment is stored under the camera it is of, or it is the first camera's.
SegmentsLocal ==
    \A i \in DOMAIN segments : segments[i].data \in {segments[i].cam, First}

\* Footage a camera borrows from the first is the oldest of its segments.
BorrowedOldest ==
    \A i, j \in DOMAIN segments :
        /\ segments[i].cam = segments[j].cam /\ segments[j].cam # First
        /\ segments[j].data = First
        => j <= i

CachesOK == PlaylistsHonest /\ KeyHonest /\ SegmentsLocal /\ BorrowedOldest

IInv ==
    /\ TypeOK
    /\ History
    /\ CachesOK
    /\ \A t \in Tasks : Pending(t)
    /\ FreshAnswers
    /\ BorrowedOnlyForLack

-----------------------------------------------------------------------------
(* Lemmas about the operators.                                             *)

\* A non-empty set of positions in a sequence has a greatest one.
LEMMA MaxOfPositions ==
    ASSUME NEW n \in Nat, NEW S, S \subseteq 1 .. n, S # {}
    PROVE  Max(S) \in S /\ \A i \in S : Max(S) >= i
<1> DEFINE D == {n - i : i \in S}
<1>1. D \subseteq Nat /\ D # {}
  <2>1. \A i \in 1 .. n : n - i \in Nat
    OBVIOUS
  <2> QED
    BY <2>1
<1>2. PICK d \in D : \A y \in D : ~(<<y, d>> \in OpToRel(<, Nat))
  BY <1>1, WFMin, NatLessThanWellFounded
<1>3. OpToRel(<, Nat) = {ss \in Nat \X Nat : ss[1] < ss[2]}
  BY Zenon DEF OpToRel
<1>4. \A y \in D : <<y, d>> \notin {ss \in Nat \X Nat : ss[1] < ss[2]}
  BY <1>2, <1>3, Zenon
<1>5. \A y \in D : ~(y < d)
  BY <1>1, <1>4
<1>6. PICK x \in S : d = n - x
  BY <1>2
<1>7. \A i \in S : x >= i
  <2> SUFFICES ASSUME NEW i \in S PROVE x >= i
    OBVIOUS
  <2>1. ~(n - i < n - x)
    BY <1>5, <1>6
  <2> QED
    BY <2>1
<1> QED
  BY <1>7 DEF Max

\* The oldest entries go, the others keep their order.
LEMMA RoomKeeps ==
    ASSUME NEW s \in Seq(Segment)
    PROVE  /\ Room(s) \in Seq(Segment)
           /\ Len(Room(s)) <= Len(s)
           /\ Len(s) >= Capacity => Len(Room(s)) < Len(s)
           /\ \E d \in Nat : /\ Len(Room(s)) + d = Len(s)
                             /\ \A i \in DOMAIN Room(s) :
                                   i + d \in DOMAIN s /\ Room(s)[i] = s[i + d]
<1>1. CASE Len(s) >= Capacity
  <2>1. Room(s) = SubSeq(s, Evicted + 1, Len(s))
    BY <1>1 DEF Room
  <2>2. Evicted \in Nat \ {0} /\ Evicted <= Len(s) /\ Len(s) \in Nat
    BY <1>1, ProxyConstants
  <2> HIDE DEF Segment
  <2>3. /\ SubSeq(s, Evicted + 1, Len(s)) \in Seq(Segment)
        /\ Len(SubSeq(s, Evicted + 1, Len(s))) = Len(s) - Evicted
        /\ \A i \in 1 .. Len(s) - Evicted :
              SubSeq(s, Evicted + 1, Len(s))[i] = s[i + Evicted]
    BY <2>2
  <2>4. \A i \in DOMAIN Room(s) : i + Evicted \in DOMAIN s
    BY <2>1, <2>2, <2>3
  <2>5. \A i \in DOMAIN Room(s) : Room(s)[i] = s[i + Evicted]
    BY <2>1, <2>2, <2>3
  <2>6. /\ Len(Room(s)) + Evicted = Len(s)
        /\ \A i \in DOMAIN Room(s) :
              i + Evicted \in DOMAIN s /\ Room(s)[i] = s[i + Evicted]
    BY <2>1, <2>2, <2>3, <2>4, <2>5
  <2>7. Evicted \in Nat
    BY <2>2
  <2>8. \E d \in Nat : /\ Len(Room(s)) + d = Len(s)
                      /\ \A i \in DOMAIN Room(s) :
                            i + d \in DOMAIN s /\ Room(s)[i] = s[i + d]
    BY <2>6, <2>7
  <2>9. /\ Room(s) \in Seq(Segment) /\ Len(Room(s)) <= Len(s)
        /\ Len(s) >= Capacity => Len(Room(s)) < Len(s)
    BY <2>1, <2>2, <2>3
  <2> QED
    BY <2>8, <2>9
<1>2. CASE ~(Len(s) >= Capacity)
  <2>1. Room(s) = s
    BY <1>2 DEF Room
  <2>2. Len(s) \in Nat
    OBVIOUS
  <2> QED
    BY <1>2, <2>1, <2>2
<1> QED
  BY <1>1, <1>2

\* An entry is stored in the place its name has, or behind all others.
LEMMA PutStores ==
    ASSUME NEW s \in Seq(Segment), NEW x \in Segment
    PROVE  /\ Put(s, x) \in Seq(Segment)
           /\ Len(Put(s, x)) \in {Len(s), Len(s) + 1}
           /\ Len(Put(s, x)) = Len(s) + 1 => Put(s, x)[Len(s) + 1] = x
           /\ \A i \in DOMAIN Put(s, x) :
                 Put(s, x)[i] = x \/ (i \in DOMAIN s /\ Put(s, x)[i] = s[i])
           /\ \A i \in DOMAIN s :
                 i \in DOMAIN Put(s, x) /\ Put(s, x)[i].cam = s[i].cam
<1> HIDE DEF Segment
<1> DEFINE same == {i \in DOMAIN s : s[i].cam = x.cam /\ s[i].name = x.name}
<1>1. CASE same = {}
  <2>1. Put(s, x) = Append(s, x)
    BY <1>1 DEF Put
  <2>2. /\ Append(s, x) \in Seq(Segment)
        /\ Len(Append(s, x)) = Len(s) + 1
        /\ Append(s, x)[Len(s) + 1] = x
        /\ \A i \in DOMAIN Append(s, x) :
              i = Len(s) + 1 \/ (i \in DOMAIN s /\ Append(s, x)[i] = s[i])
        /\ \A i \in DOMAIN s : i \in DOMAIN Append(s, x) /\ Append(s, x)[i] = s[i]
    OBVIOUS
  <2> QED
    BY <2>1, <2>2
<1>2. CASE same # {}
  <2>1. /\ Put(s, x) = [i \in DOMAIN s |-> IF i \in same THEN x ELSE s[i]]
        /\ \A i \in same : x.cam = s[i].cam
    BY <1>2 DEF Put
  <2> HIDE DEF same
  <2>2. \A i \in 1 .. Len(s) : s[i] \in Segment
    OBVIOUS
  <2>3. Put(s, x) \in [1 .. Len(s) -> Segment]
    BY <2>1, <2>2
  <2>4. Put(s, x) \in Seq(Segment) /\ Len(Put(s, x)) = Len(s)
    BY <2>3
  <2>5. \A i \in DOMAIN Put(s, x) :
           Put(s, x)[i] = x \/ (i \in DOMAIN s /\ Put(s, x)[i] = s[i])
    BY <2>1
  <2>6. Len(s) \in Nat
    OBVIOUS
  <2>7. \A i \in DOMAIN s :
           i \in DOMAIN Put(s, x) /\ Put(s, x)[i].cam = s[i].cam
    BY <2>1
  <2> QED
    BY <2>4, <2>5, <2>6, <2>7
<1> QED
  BY <1>1, <1>2

\* What is stamped within a time to live is as new as the site was by then.
LEMMA WithinTTL ==
    ASSUME TypeOK, History, NEW now \in Times, NEW at \in Times,
           NEW ttl \in Nat, now - at <= ttl
    PROVE  versionAt[IF now > ttl THEN now - ttl ELSE 0] <= versionAt[at]
<1> DEFINE since == IF now > ttl THEN now - ttl ELSE 0
<1>1. since \in Times /\ since <= at
  BY ProxyConstants DEF Times
<1> QED
  BY <1>1 DEF History

-----------------------------------------------------------------------------
(* Steps.                                                                  *)

LEMMA InitIInv == Init => IInv
<1> SUFFICES ASSUME Init PROVE IInv
  OBVIOUS
<1>1. TypeOK
  <2>1. preloaded \in Seq([cam : {First}, name : Names, data : {First}])
    BY ProxyConstants DEF Init
  <2>2. [cam : {First}, name : Names, data : {First}] \subseteq Segment
    BY ProxyConstants DEF Segment
  <2> DEFINE F == [cam : {First}, name : Names, data : {First}]
  <2> HIDE DEF F
  <2>3. segments \in Seq(Segment)
    <3> HIDE DEF Segment
    <3>1. preloaded \in Seq(F) /\ F \subseteq Segment
      BY <2>1, <2>2 DEF F
    <3> QED
      BY <3>1 DEF Init
  <2>4. 0 \in Times /\ 0 \in Versions /\ 0 \in 0 .. MaxRequests
    BY ProxyConstants DEF Times, Versions
  <2>5. versionAt \in [Times -> Versions] /\ playlists \in [Cameras -> Entry \cup {None}]
        /\ task \in [Tasks -> Request \cup {None}]
    BY <2>4 DEF Init
  <2>6. key \in Entry
    BY DEF Init, Entry
  <2> QED
    BY <2>3, <2>4, <2>5, <2>6 DEF Init, TypeOK
<1>2. History
  BY ProxyConstants DEF Init, History, Times
<1>3. PlaylistsHonest /\ KeyHonest
  BY DEF Init, PlaylistsHonest, KeyHonest
<1>4. \A i \in DOMAIN segments : segments[i].data = First /\ segments[i].cam = First
  <2>1. preloaded \in Seq([cam : {First}, name : Names, data : {First}])
    BY ProxyConstants DEF Init
  <2>2. segments = preloaded
    BY DEF Init
  <2> DEFINE F == [cam : {First}, name : Names, data : {First}]
  <2>3. \A x \in F : x.data = First /\ x.cam = First
    OBVIOUS
  <2> HIDE DEF F
  <2>4. \A i \in DOMAIN segments : segments[i] \in F
    <3>1. segments \in Seq(F)
      BY <2>1, <2>2 DEF F
    <3> QED
      BY <3>1
  <2> QED
    BY <2>3, <2>4
<1>5. SegmentsLocal /\ BorrowedOldest
  BY <1>4 DEF SegmentsLocal, BorrowedOldest
<1>7. \A t \in Tasks : Pending(t)
  BY DEF Init, Pending
<1>8. FreshAnswers /\ BorrowedOnlyForLack
  BY DEF Init, FreshAnswers, BorrowedOnlyForLack
<1> QED
  BY <1>1, <1>2, <1>3, <1>5, <1>7, <1>8 DEF IInv, CachesOK

\* A step that gives no answer.
LEMMA SilentAnswer ==
    ASSUME Silent
    PROVE  /\ answer' \in Answer \cup {None}
           /\ FreshAnswers' /\ BorrowedOnlyForLack'
BY DEF Silent, FreshAnswers, BorrowedOnlyForLack

\* A step that leaves the caches and the site alone.
LEMMA CachesKept ==
    ASSUME IInv, UNCHANGED <<site, caches>>
    PROVE  History' /\ CachesOK'
<1>1. History'
  BY DEF IInv, site, History
<1>2. PlaylistsHonest' /\ KeyHonest'
  BY DEF IInv, CachesOK, site, caches, PlaylistsHonest, KeyHonest, Honest
<1>3. SegmentsLocal' /\ BorrowedOldest'
  BY DEF IInv, CachesOK, site, caches, SegmentsLocal, BorrowedOldest
<1> QED
  BY <1>1, <1>2, <1>3 DEF CachesOK

\* A step of one request.
LEMMA OneTask ==
    ASSUME IInv, UNCHANGED <<clock, versionAt>>,
           NEW t \in Tasks, NEW r \in Request \cup {None},
           task' = [task EXCEPT ![t] = r],
           Pending(t)'
    PROVE  /\ task' \in [Tasks -> Request \cup {None}]
           /\ \A u \in Tasks : Pending(u)'
<1>1. task \in [Tasks -> Request \cup {None}]
  BY DEF IInv, TypeOK
<1>2. task' \in [Tasks -> Request \cup {None}] /\ \A u \in Tasks \ {t} : task'[u] = task[u]
  BY <1>1
<1>3. \A u \in Tasks \ {t} : Pending(u)'
  BY <1>2 DEF IInv, Pending
<1> QED
  BY <1>2, <1>3

LEMMA AskStep ==
    ASSUME IInv, UNCHANGED <<site, cookie, caches>>,
           NEW t \in Tasks, NEW kind \in {"playlist", "key", "segment"},
           NEW c \in Cameras \cup {None}, NEW n \in Names \cup {None},
           NEW e \in Entry \cup {None},
           kind # "key" => c \in Cameras, kind = "segment" => n \in Names,
           requests' \in 0 .. MaxRequests,
           Ask(t, kind, c, n, e)
    PROVE  IInv'
<1> DEFINE r == [kind |-> kind, cam |-> c, name |-> n,
                 now |-> IF kind = "segment" THEN 0 ELSE clock, entry |-> e,
                 step |-> "get", reply |-> None]
<1>1. clock \in Times /\ 0 \in Times /\ 0 <= clock
  BY ProxyConstants DEF IInv, TypeOK, Times
<1>2. r \in Request
  BY <1>1 DEF Request
<1>3. task' = [task EXCEPT ![t] = r] /\ Silent
  BY DEF Ask
<1>4. UNCHANGED <<clock, versionAt>>
  BY DEF site
<1>5. Pending(t)'
  <2>1. task'[t] = r
    BY <1>3 DEF IInv, TypeOK
  <2> QED
    BY <1>1, <1>4, <2>1 DEF Pending, Times
<1> HIDE DEF r
<1>6. task' \in [Tasks -> Request \cup {None}] /\ \A u \in Tasks : Pending(u)'
  BY <1>2, <1>3, <1>4, <1>5, OneTask
<1>7. History' /\ CachesOK'
  BY CachesKept
<1>8. answer' \in Answer \cup {None} /\ FreshAnswers' /\ BorrowedOnlyForLack'
  BY <1>3, SilentAnswer
<1>9. TypeOK'
  BY <1>6, <1>8 DEF IInv, TypeOK, site, caches
<1> QED
  BY <1>6, <1>7, <1>8, <1>9 DEF IInv

\* An answer out of a cache leaves the requests alone.
LEMMA CachedStep ==
    ASSUME IInv, UNCHANGED <<site, cookie, caches, task>>,
           requests' \in 0 .. MaxRequests,
           answer' \in Answer, FreshAnswers', BorrowedOnlyForLack'
    PROVE  IInv'
<1>1. History' /\ CachesOK'
  BY CachesKept
<1>2. \A t \in Tasks : Pending(t)'
  BY DEF IInv, Pending, site
<1>3. TypeOK'
  BY DEF IInv, TypeOK, site, caches
<1> QED
  BY <1>1, <1>2, <1>3 DEF IInv

LEMMA ArrivesBound ==
    ASSUME IInv, NEW t \in Tasks, Arrives(t)
    PROVE  requests' \in 0 .. MaxRequests
BY ProxyConstants DEF IInv, TypeOK, Arrives

LEMMA AskPlaylistStep ==
    ASSUME IInv, NEW t \in Tasks, NEW c \in Cameras, AskPlaylist(t, c)
    PROVE  IInv'
<1>1. requests' \in 0 .. MaxRequests
  BY ArrivesBound DEF AskPlaylist
<1>2. UNCHANGED <<site, cookie, caches>>
  BY DEF AskPlaylist
<1>3. playlists[c] \in Entry \cup {None}
  BY DEF IInv, TypeOK
<1>4. CASE playlists[c] # None /\ clock - playlists[c].at <= TTL
  <2>1. /\ answer' = [kind |-> "playlist", cam |-> c, now |-> clock,
                      body |-> playlists[c].body, failed |-> FALSE]
        /\ UNCHANGED task
    BY <1>4 DEF AskPlaylist, Tell
  <2>2. Honest(playlists[c]) /\ playlists[c].body \in Versions \cup {Own}
    BY <1>3, <1>4 DEF IInv, CachesOK, PlaylistsHonest, Entry
  <2>3. clock \in Times
    BY DEF IInv, TypeOK
  <2>4. answer' \in Answer
    BY <2>1, <2>2, <2>3 DEF Answer
  <2>5. versionAt[IF clock > TTL THEN clock - TTL ELSE 0]
          <= versionAt[playlists[c].at]
    BY <1>4, <2>2, <2>3, WithinTTL, ProxyConstants DEF IInv, Honest
  <2>6. FreshAnswers'
    <3>1. versionAt' = versionAt /\ versionAt \in [Times -> Versions]
      BY <1>2 DEF IInv, TypeOK, site
    <3>2. (IF clock > TTL THEN clock - TTL ELSE 0) \in Times
      BY <2>3, ProxyConstants DEF Times
    <3>3. playlists[c].body # Own =>
            playlists[c].body >= versionAt[IF clock > TTL THEN clock - TTL ELSE 0]
      BY <2>2, <2>5, <3>1, <3>2 DEF Honest, Versions
    <3> QED
      BY <2>1, <3>1, <3>3 DEF FreshAnswers
  <2>7. BorrowedOnlyForLack'
    BY <2>1 DEF BorrowedOnlyForLack
  <2> QED
    BY <1>1, <1>2, <2>1, <2>4, <2>6, <2>7, CachedStep
<1>5. CASE ~(playlists[c] # None /\ clock - playlists[c].at <= TTL)
  <2>1. Ask(t, "playlist", c, None, playlists[c])
    BY <1>5 DEF AskPlaylist
  <2> QED
    BY <1>1, <1>2, <1>3, <2>1, AskStep
<1> QED
  BY <1>4, <1>5

LEMMA AskKeyStep ==
    ASSUME IInv, NEW t \in Tasks, AskKey(t)
    PROVE  IInv'
<1>1. requests' \in 0 .. MaxRequests
  BY ArrivesBound DEF AskKey
<1>2. UNCHANGED <<site, cookie, caches>>
  BY DEF AskKey
<1>3. CASE key.at # None /\ clock - key.at <= KeyTTL
  <2>1. /\ answer' = [kind |-> "key", cam |-> None, now |-> clock,
                      body |-> key.body, failed |-> FALSE]
        /\ UNCHANGED task
    BY <1>3 DEF AskKey, Tell
  <2>2. Honest(key) /\ key.body \in Versions /\ key.body # Own
    BY <1>3 DEF IInv, CachesOK, KeyHonest, TypeOK, Entry
  <2>3. clock \in Times
    BY DEF IInv, TypeOK
  <2>4. answer' \in Answer
    BY <2>1, <2>2, <2>3 DEF Answer
  <2>5. versionAt[IF clock > KeyTTL THEN clock - KeyTTL ELSE 0]
          <= versionAt[key.at]
    BY <1>3, <2>2, <2>3, WithinTTL, ProxyConstants DEF IInv, Honest
  <2>6. FreshAnswers'
    <3>1. versionAt' = versionAt /\ versionAt \in [Times -> Versions]
      BY <1>2 DEF IInv, TypeOK, site
    <3>2. (IF clock > KeyTTL THEN clock - KeyTTL ELSE 0) \in Times
      BY <2>3, ProxyConstants DEF Times
    <3>3. key.body >= versionAt[IF clock > KeyTTL THEN clock - KeyTTL ELSE 0]
      BY <2>2, <2>5, <3>1, <3>2 DEF Honest, Versions
    <3> QED
      BY <2>1, <2>2, <3>1, <3>3 DEF FreshAnswers
  <2>7. BorrowedOnlyForLack'
    BY <2>1 DEF BorrowedOnlyForLack
  <2> QED
    BY <1>1, <1>2, <2>1, <2>4, <2>6, <2>7, CachedStep
<1>4. CASE ~(key.at # None /\ clock - key.at <= KeyTTL)
  <2>1. Ask(t, "key", None, None, None)
    BY <1>4 DEF AskKey
  <2> QED
    BY <1>1, <1>2, <2>1, AskStep
<1> QED
  BY <1>3, <1>4

LEMMA AskSegmentStep ==
    ASSUME IInv, NEW t \in Tasks, NEW c \in Cameras, NEW n \in Names,
           AskSegment(t, c, n)
    PROVE  IInv'
<1>1. requests' \in 0 .. MaxRequests
  BY ArrivesBound DEF AskSegment
<1>2. UNCHANGED <<site, cookie, caches>>
  BY DEF AskSegment
<1>3. CASE Ask(t, "segment", c, n, None)
  BY <1>1, <1>2, <1>3, AskStep
<1>4. ASSUME NEW i \in At(c, n),
             Tell("segment", c, 0, segments[i].data, FALSE), UNCHANGED task
      PROVE  IInv'
  <2>1. i \in DOMAIN segments /\ segments[i].cam = c
    BY DEF At
  <2>2. segments[i].data \in Cameras
    <3>1. segments \in Seq(Segment)
      BY DEF IInv, TypeOK
    <3>2. segments[i] \in Segment
      BY <2>1, <3>1
    <3> QED
      BY <3>2 DEF Segment
  <2>3. 0 \in Times
    BY ProxyConstants DEF Times
  <2>4. answer' = [kind |-> "segment", cam |-> c, now |-> 0,
                   body |-> segments[i].data, failed |-> FALSE]
    BY <1>4 DEF Tell
  <2>5. answer' \in Answer
    BY <2>2, <2>3, <2>4 DEF Answer
  <2>6. FreshAnswers'
    BY <2>4 DEF FreshAnswers
  <2>8. BorrowedOnlyForLack'
    BY <2>4 DEF BorrowedOnlyForLack
  <2> QED
    BY <1>1, <1>2, <1>4, <2>5, <2>6, <2>8, CachedStep
<1> QED
  BY <1>3, <1>4 DEF AskSegment

-----------------------------------------------------------------------------
(* Answers of the site.                                                    *)

\* A step of the request of t that only changes the request and the cookie.
LEMMA RequestStep ==
    ASSUME IInv, UNCHANGED <<site, caches, requests>>, Silent,
           cookie' \in {"settings", "login"},
           NEW t \in Tasks, NEW r \in Request \cup {None},
           task' = [task EXCEPT ![t] = r],
           Pending(t)'
    PROVE  IInv'
<1>1. UNCHANGED <<clock, versionAt>>
  BY DEF site
<1>2. task' \in [Tasks -> Request \cup {None}] /\ \A u \in Tasks : Pending(u)'
  BY <1>1, OneTask
<1>3. History' /\ CachesOK'
  BY CachesKept
<1>4. answer' \in Answer \cup {None} /\ FreshAnswers' /\ BorrowedOnlyForLack'
  BY SilentAnswer
<1>5. TypeOK'
  BY <1>2, <1>4 DEF IInv, TypeOK, site, caches
<1> QED
  BY <1>2, <1>3, <1>4, <1>5 DEF IInv

LEMMA SiteAnswersStep ==
    ASSUME IInv, NEW t \in Tasks, SiteAnswers(t)
    PROVE  IInv'
<1>1. PICK reply \in {[status |-> "ok", body |-> Content(t)]} \cup Refusals(t) :
         task' = [task EXCEPT ![t].reply = reply]
  BY DEF SiteAnswers
<1> DEFINE r == [task[t] EXCEPT !.reply = reply]
<1>2. task[t] \in Request /\ task[t] # None
  BY DEF IInv, TypeOK, SiteAnswers
<1>3. reply \in Reply
  <2>1. 0 \in Versions /\ version \in Versions
    BY ProxyConstants DEF IInv, TypeOK, Versions
  <2> QED
    BY <2>1 DEF Reply, Content, Refusals
<1>4. r \in Request
  BY <1>2, <1>3 DEF Request
<1>5. task' = [task EXCEPT ![t] = r]
  BY <1>1 DEF IInv, TypeOK
<1>6. /\ UNCHANGED <<site, cookie, caches, requests>> /\ Silent
      /\ cookie' \in {"settings", "login"}
  BY DEF SiteAnswers, IInv, TypeOK
<1>7. Pending(t)'
  <2>1. task'[t] = r
    BY <1>5 DEF IInv, TypeOK
  <2>2. /\ r.now = task[t].now /\ r.kind = task[t].kind /\ r.cam = task[t].cam
        /\ r.name = task[t].name /\ r.step = task[t].step /\ r.reply = reply
    BY <1>2 DEF Request
  <2>3. UNCHANGED <<clock, versionAt>>
    BY <1>6 DEF site
  <2>4. Pending(t)
    BY DEF IInv
  <2>5. ASSUME reply.status = "ok", task[t].step # "login", task[t].kind # "segment"
        PROVE  reply.body >= versionAt[task[t].now]
    <3>1. reply = [status |-> "ok", body |-> Content(t)]
      BY <2>5 DEF Refusals
    <3>2. reply.body = version
      BY <2>5, <3>1 DEF Content
    <3>3. task[t].now \in Times
      BY <1>2 DEF Request
    <3>4. versionAt[task[t].now] <= version
      BY <3>3 DEF IInv, History
    <3>5. version \in Int /\ versionAt[task[t].now] \in Int
      BY <3>3, ProxyConstants DEF IInv, TypeOK, Versions
    <3> QED
      BY <3>2, <3>4, <3>5
  <2> HIDE DEF r
  <2> QED
    BY <1>2, <2>1, <2>2, <2>3, <2>4, <2>5 DEF Pending
<1> HIDE DEF r
<1> QED
  BY <1>4, <1>5, <1>6, <1>7, RequestStep

\* Refused and LoggedIn: the request goes on with its next fetch.
LEMMA NextFetch ==
    ASSUME IInv, UNCHANGED <<site, caches, requests>>, Silent,
           cookie' \in {"settings", "login"},
           NEW t \in Tasks, task[t] # None, NEW step \in {"login", "retry"},
           task' = [task EXCEPT ![t].step = step, ![t].reply = None]
    PROVE  IInv'
<1> DEFINE r == [task[t] EXCEPT !.step = step, !.reply = None]
<1>1. task[t] \in Request
  BY DEF IInv, TypeOK
<1>2. r \in Request
  BY <1>1 DEF Request
<1>3. task' = [task EXCEPT ![t] = r]
  BY DEF IInv, TypeOK
<1>4. Pending(t)'
  <2>1. task'[t] = r
    BY <1>3 DEF IInv, TypeOK
  <2>2. /\ r.now = task[t].now /\ r.kind = task[t].kind /\ r.cam = task[t].cam
        /\ r.name = task[t].name /\ r.reply = None
    BY <1>1 DEF Request
  <2>3. UNCHANGED clock /\ Pending(t)
    BY DEF site, IInv
  <2> HIDE DEF r
  <2> QED
    BY <2>1, <2>2, <2>3 DEF Pending
<1> HIDE DEF r
<1> QED
  BY <1>2, <1>3, <1>4, RequestStep

LEMMA RefusedStep ==
    ASSUME IInv, NEW t \in Tasks, Refused(t)
    PROVE  IInv'
<1>1. cookie' \in {"settings", "login"}
  BY DEF Refused, IInv, TypeOK
<1> QED
  BY <1>1, NextFetch DEF Refused

LEMMA LoggedInStep ==
    ASSUME IInv, NEW t \in Tasks, LoggedIn(t)
    PROVE  IInv'
<1>1. cookie' \in {"settings", "login"}
  BY DEF LoggedIn, CookieAfter, IInv, TypeOK
<1> QED
  BY <1>1, NextFetch DEF LoggedIn

-----------------------------------------------------------------------------
(* Requests that end.                                                      *)

LEMMA Finished ==
    ASSUME IInv, UNCHANGED site,
           NEW t \in Tasks, task[t] # None,
           NEW body \in Versions \cup Cameras \cup {Own, None},
           Finish(t, body)
    PROVE  /\ task' \in [Tasks -> Request \cup {None}]
           /\ \A u \in Tasks : Pending(u)'
           /\ answer' = [kind |-> task[t].kind, cam |-> task[t].cam,
                         now |-> task[t].now, body |-> body,
                         failed |-> ~Succeeded(t)]
           /\ answer' \in Answer
<1>1. task' = [task EXCEPT ![t] = None]
  BY DEF Finish
<1>2. task'[t] = None
  BY <1>1 DEF IInv, TypeOK
<1>3. Pending(t)'
  BY <1>2 DEF Pending
<1>4. UNCHANGED <<clock, versionAt>>
  BY DEF site
<1>5. task' \in [Tasks -> Request \cup {None}] /\ \A u \in Tasks : Pending(u)'
  BY <1>1, <1>3, <1>4, OneTask
<1>6. task[t] \in Request
  BY DEF IInv, TypeOK
<1>7. /\ task[t].kind \in {"playlist", "key", "segment"}
      /\ task[t].cam \in Cameras \cup {None} /\ task[t].now \in Times
  BY <1>6 DEF Request
<1>8. answer' = [kind |-> task[t].kind, cam |-> task[t].cam,
                 now |-> task[t].now, body |-> body, failed |-> ~Succeeded(t)]
  BY DEF Finish, Tell
<1>9. (~Succeeded(t)) \in BOOLEAN
  BY DEF Succeeded
<1>10. answer' \in Answer
  <2> DEFINE f == ~Succeeded(t)
  <2>1. f \in BOOLEAN
    BY <1>9
  <2> HIDE DEF f
  <2>2. [kind |-> task[t].kind, cam |-> task[t].cam, now |-> task[t].now,
         body |-> body, failed |-> f] \in Answer
    BY <1>7, <2>1 DEF Answer
  <2> QED
    BY <1>8, <2>2 DEF f
<1> QED
  BY <1>5, <1>8, <1>10

\* A successful fetch, stamped, is an entry as new as its stamp.
LEMMA StampedHonest ==
    ASSUME IInv, NEW t \in Tasks, NEW kind \in {"playlist", "key"},
           Fetched(t, kind), Succeeded(t)
    PROVE  /\ Stamped(t) \in Entry
           /\ Honest(Stamped(t))
           /\ Stamped(t).body \in Versions
           /\ Stamped(t).body = task[t].reply.body
           /\ Stamped(t).at = task[t].now
           /\ Stamped(t).body >= versionAt[task[t].now]
<1>1. task[t] \in Request /\ task[t] # None /\ task[t].reply # None
  BY DEF IInv, TypeOK, Fetched
<1>2. task[t].reply.body \in Versions /\ task[t].now \in Times
  BY <1>1 DEF Request, Reply
<1>3. Pending(t)
  BY DEF IInv
<1>4. task[t].now <= clock /\ task[t].reply.body >= versionAt[task[t].now]
  BY <1>1, <1>3 DEF Pending, Fetched, Succeeded
<1> QED
  BY <1>2, <1>4 DEF Stamped, Entry, Honest

\* The answer of a successful fetch is as new as the request demands.
LEMMA FetchedFresh ==
    ASSUME IInv, UNCHANGED versionAt, NEW t \in Tasks,
           NEW kind \in {"playlist", "key"}, Fetched(t, kind), Succeeded(t),
           answer' = [kind |-> task[t].kind, cam |-> task[t].cam,
                      now |-> task[t].now, body |-> task[t].reply.body,
                      failed |-> ~Succeeded(t)]
    PROVE  FreshAnswers'
<1> DEFINE ttl == IF task[t].kind = "key" THEN KeyTTL ELSE TTL
           since == IF task[t].now > ttl THEN task[t].now - ttl ELSE 0
<1>1. task[t].now \in Times
  BY DEF IInv, TypeOK, Fetched, Request
<1>2. ttl \in Nat
  BY ProxyConstants
<1>3. task[t].now - task[t].now <= ttl
  BY <1>1, <1>2, ProxyConstants DEF Times
<1>4. since \in Times
  BY <1>1, <1>2, ProxyConstants DEF Times
<1>5. versionAt[since] <= versionAt[task[t].now]
  BY <1>1, <1>2, <1>3, WithinTTL DEF IInv
<1>6. /\ task[t].reply.body \in Versions
      /\ task[t].reply.body >= versionAt[task[t].now]
  BY StampedHonest
<1>7. versionAt[since] \in Int /\ versionAt[task[t].now] \in Int
  BY <1>1, <1>4 DEF IInv, TypeOK, Versions
<1>8. task[t].reply.body >= versionAt[since]
  BY <1>5, <1>6, <1>7 DEF Versions
<1>9. task[t].reply.body # Own
  BY <1>6, ProxyConstants
<1>10. /\ answer'.kind = task[t].kind /\ answer'.now = task[t].now
       /\ answer'.body = task[t].reply.body
  OBVIOUS
<1> QED
  BY <1>8, <1>9, <1>10 DEF FreshAnswers

\* A failed fetch answers with something it does not vouch for.
LEMMA FailedFresh ==
    ASSUME NEW t, ~Succeeded(t), NEW body,
           answer' = [kind |-> task[t].kind, cam |-> task[t].cam,
                      now |-> task[t].now, body |-> body,
                      failed |-> ~Succeeded(t)]
    PROVE  FreshAnswers'
BY DEF FreshAnswers

LEMMA PlaylistFetchedStep ==
    ASSUME IInv, NEW t \in Tasks, PlaylistFetched(t)
    PROVE  IInv'
<1>1. /\ Fetched(t, "playlist") /\ task[t] # None
      /\ task[t] \in Request /\ task[t].kind = "playlist"
      /\ task[t].cam \in Cameras /\ task[t].now \in Times
      /\ task[t].now <= clock
  <2>1. Fetched(t, "playlist")
    BY DEF PlaylistFetched
  <2>2. task[t] \in Request /\ task[t] # None /\ task[t].kind = "playlist"
    BY <2>1 DEF Fetched, IInv, TypeOK
  <2>3. Pending(t)
    BY DEF IInv
  <2> QED
    BY <2>1, <2>2, <2>3 DEF Pending, Request
<1>2. /\ UNCHANGED <<clock, version, versionAt, preloaded>>
      /\ UNCHANGED <<site, cookie, key, segments, requests>>
  BY DEF PlaylistFetched, site
<1> DEFINE c == task[t].cam
\* The three ways it can end store an honest entry, or nothing.
<1>3. PICK body \in Versions \cup {Own} :
         /\ Finish(t, body)
         /\ \/ UNCHANGED playlists
            \/ \E e \in Entry : /\ Honest(e)
                               /\ playlists' = [playlists EXCEPT ![c] = e]
         /\ Succeeded(t) => body = task[t].reply.body
  <2>1. CASE /\ Succeeded(t)
             /\ playlists' = [playlists EXCEPT ![c] = Stamped(t)]
             /\ Finish(t, task[t].reply.body)
    <3>1. /\ Stamped(t) \in Entry /\ Honest(Stamped(t))
          /\ task[t].reply.body \in Versions
      BY <1>1, <2>1, StampedHonest
    <3> QED
      BY <2>1, <3>1
  <2>2. CASE /\ ~Succeeded(t) /\ Known(t) /\ UNCHANGED playlists
             /\ Finish(t, task[t].entry.body)
    <3>1. task[t].entry.body \in Versions \cup {Own}
      BY <1>1, <2>2 DEF Known, Request, Entry
    <3> QED
      BY <2>2, <3>1
  <2>3. CASE /\ ~Succeeded(t) /\ ~Known(t)
             /\ playlists' = [playlists EXCEPT
                                ![c] = [body |-> Own, at |-> task[t].now]]
             /\ Finish(t, Own)
    <3>1. /\ [body |-> Own, at |-> task[t].now] \in Entry
          /\ Honest([body |-> Own, at |-> task[t].now])
      BY <1>1 DEF Entry, Honest
    <3> QED
      BY <2>3, <3>1
  <2> QED
    BY <2>1, <2>2, <2>3 DEF PlaylistFetched
<1>4. body \in Versions \cup Cameras \cup {Own, None}
  OBVIOUS
<1>5. /\ task' \in [Tasks -> Request \cup {None}]
      /\ \A u \in Tasks : Pending(u)'
      /\ answer' = [kind |-> task[t].kind, cam |-> task[t].cam,
                    now |-> task[t].now, body |-> body,
                    failed |-> ~Succeeded(t)]
      /\ answer' \in Answer
  BY <1>1, <1>2, <1>3, <1>4, Finished
<1>6. FreshAnswers'
  <2>1. CASE Succeeded(t)
    <3>1. body = task[t].reply.body
      BY <1>3, <2>1
    <3> QED
      BY <1>1, <1>2, <1>5, <2>1, <3>1, FetchedFresh
  <2>2. CASE ~Succeeded(t)
    BY <1>5, <2>2, FailedFresh
  <2> QED
    BY <2>1, <2>2
<1>7. BorrowedOnlyForLack'
  BY <1>1, <1>5 DEF BorrowedOnlyForLack
<1>8. playlists' \in [Cameras -> Entry \cup {None}] /\ PlaylistsHonest'
  <2>1. /\ playlists \in [Cameras -> Entry \cup {None}] /\ PlaylistsHonest
    BY DEF IInv, TypeOK, CachesOK
  <2>2. CASE UNCHANGED playlists
    BY <1>2, <2>1, <2>2 DEF PlaylistsHonest, Honest
  <2>3. ASSUME NEW e \in Entry, Honest(e),
               playlists' = [playlists EXCEPT ![c] = e]
        PROVE  playlists' \in [Cameras -> Entry \cup {None}] /\ PlaylistsHonest'
    <3>1. playlists' \in [Cameras -> Entry \cup {None}]
      BY <1>1, <2>1, <2>3
    <3>2. \A d \in Cameras :
             playlists'[d] = e \/ playlists'[d] = playlists[d]
      BY <2>1, <2>3
    <3> QED
      BY <1>2, <2>1, <2>3, <3>1, <3>2 DEF PlaylistsHonest, Honest
  <2> QED
    BY <1>3, <2>2, <2>3
<1>9. KeyHonest' /\ SegmentsLocal' /\ BorrowedOldest'
  BY <1>2 DEF IInv, CachesOK, KeyHonest, Honest, SegmentsLocal, BorrowedOldest,
              Fallback
<1>10. History'
  BY <1>2 DEF IInv, History
<1>11. TypeOK'
  BY <1>2, <1>5, <1>8 DEF IInv, TypeOK
<1> QED
  BY <1>5, <1>6, <1>7, <1>8, <1>9, <1>10, <1>11 DEF IInv, CachesOK

LEMMA KeyFetchedStep ==
    ASSUME IInv, NEW t \in Tasks, KeyFetched(t)
    PROVE  IInv'
<1>1. /\ Fetched(t, "key") /\ task[t] # None /\ task[t].kind = "key"
      /\ task[t] \in Request /\ task[t].now \in Times
  BY DEF KeyFetched, Fetched, IInv, TypeOK, Request
<1>2. /\ UNCHANGED <<clock, version, versionAt, preloaded>>
      /\ UNCHANGED <<site, cookie, playlists, segments, requests>>
  BY DEF KeyFetched, site
<1>3. key' \in Entry /\ KeyHonest'
  <2>1. CASE Succeeded(t)
    <3>1. key' = Stamped(t)
      BY <2>1 DEF KeyFetched
    <3>2. /\ Stamped(t) \in Entry /\ Honest(Stamped(t))
          /\ Stamped(t).body \in Versions /\ Stamped(t).at = task[t].now
      BY <1>1, <2>1, StampedHonest
    <3>3. key'.body # Own /\ key'.at # None
      BY <1>1, <3>1, <3>2, ProxyConstants
    <3> QED
      BY <1>2, <3>1, <3>2, <3>3 DEF KeyHonest, Honest
  <2>2. CASE ~Succeeded(t)
    <3>1. key' = key
      BY <2>2 DEF KeyFetched
    <3> QED
      BY <1>2, <3>1 DEF IInv, TypeOK, CachesOK, KeyHonest, Honest
  <2> QED
    BY <2>1, <2>2
<1>4. Finish(t, key'.body)
  BY DEF KeyFetched
<1>5. key'.body \in Versions \cup Cameras \cup {Own, None}
  BY <1>3 DEF Entry
<1>6. /\ task' \in [Tasks -> Request \cup {None}]
      /\ \A u \in Tasks : Pending(u)'
      /\ answer' = [kind |-> task[t].kind, cam |-> task[t].cam,
                    now |-> task[t].now, body |-> key'.body,
                    failed |-> ~Succeeded(t)]
      /\ answer' \in Answer
  <2> DEFINE b == key'.body
  <2>1. b \in Versions \cup Cameras \cup {Own, None} /\ Finish(t, b)
    BY <1>4, <1>5
  <2> HIDE DEF b
  <2>2. /\ task' \in [Tasks -> Request \cup {None}]
        /\ \A u \in Tasks : Pending(u)'
        /\ answer' = [kind |-> task[t].kind, cam |-> task[t].cam,
                      now |-> task[t].now, body |-> b,
                      failed |-> ~Succeeded(t)]
        /\ answer' \in Answer
    BY <1>1, <1>2, <2>1, Finished
  <2> QED
    BY <2>2 DEF b
<1>7. FreshAnswers'
  <2>1. CASE Succeeded(t)
    <3>1. key'.body = task[t].reply.body
      BY <1>1, <2>1 DEF KeyFetched, Stamped
    <3> QED
      BY <1>1, <1>2, <1>6, <2>1, <3>1, FetchedFresh
  <2>2. CASE ~Succeeded(t)
    BY <1>6, <2>2, FailedFresh
  <2> QED
    BY <2>1, <2>2
<1>8. BorrowedOnlyForLack'
  BY <1>1, <1>6 DEF BorrowedOnlyForLack
<1>9. PlaylistsHonest' /\ SegmentsLocal' /\ BorrowedOldest'
  BY <1>2 DEF IInv, CachesOK, PlaylistsHonest, Honest, SegmentsLocal,
              BorrowedOldest
<1>10. History'
  BY <1>2 DEF IInv, History
<1>11. TypeOK'
  BY <1>2, <1>3, <1>6 DEF IInv, TypeOK
<1> QED
  BY <1>3, <1>6, <1>7, <1>8, <1>9, <1>10, <1>11 DEF IInv, CachesOK
\* A segment of the site finds its place.
LEMMA StoreSegment ==
    ASSUME IInv, UNCHANGED site, NEW c \in Cameras, NEW n \in Names,
           segments' = Put(Room(segments), [cam |-> c, name |-> n, data |-> c])
    PROVE  segments' \in Seq(Segment) /\ SegmentsLocal' /\ BorrowedOldest'
<1> DEFINE x == [cam |-> c, name |-> n, data |-> c]
           r == Room(segments)
<1>1. segments \in Seq(Segment) /\ SegmentsLocal /\ BorrowedOldest
  BY DEF IInv, TypeOK, CachesOK
<1>2. x \in Segment /\ x.data = c /\ x.cam = c
  BY DEF Segment
<1>4. PICK d \in Nat : \A i \in DOMAIN r :
         i + d \in DOMAIN segments /\ r[i] = segments[i + d]
  BY <1>1, RoomKeeps
<1>5. r \in Seq(Segment)
  BY <1>1, RoomKeeps
<1> HIDE DEF x, r
<1>6. /\ Put(r, x) \in Seq(Segment)
      /\ \A i \in DOMAIN Put(r, x) :
            Put(r, x)[i] = x \/ (i \in DOMAIN r /\ Put(r, x)[i] = r[i])
      /\ \A i \in DOMAIN r : Put(r, x)[i].cam = r[i].cam
      /\ Len(Put(r, x)) \in {Len(r), Len(r) + 1}
  BY <1>2, <1>5, PutStores
<1>7. segments' = Put(r, x)
  BY DEF x, r
<1>8. /\ segments' \in Seq(Segment)
      /\ \A i \in DOMAIN segments' :
            \/ segments'[i] = x
            \/ i + d \in DOMAIN segments /\ segments'[i] = segments[i + d]
  BY <1>4, <1>6, <1>7
<1>9. SegmentsLocal'
  BY <1>1, <1>2, <1>8 DEF SegmentsLocal
<1>10. BorrowedOldest'
  <2> SUFFICES ASSUME NEW i \in DOMAIN segments', NEW j \in DOMAIN segments',
                      segments'[i].cam = segments'[j].cam,
                      segments'[j].cam # First, segments'[j].data = First
               PROVE  j <= i
    BY DEF BorrowedOldest
  <2>1. j \in DOMAIN r /\ segments'[j] = r[j]
    BY <1>2, <1>6, <1>7
  <2>2. /\ Len(r) \in Nat /\ DOMAIN r = 1 .. Len(r)
        /\ i \in 1 .. Len(r) + 1 /\ j \in 1 .. Len(r)
    BY <1>5, <1>6, <1>7, <2>1
  <2>3. CASE i \in DOMAIN r
    <3>1. r[i].cam = r[j].cam
      BY <1>6, <1>7, <2>1, <2>3
    <3>2. /\ i + d \in DOMAIN segments /\ r[i] = segments[i + d]
          /\ j + d \in DOMAIN segments /\ r[j] = segments[j + d]
      BY <1>4, <2>1, <2>3
    <3>3. j + d <= i + d
      BY <1>1, <2>1, <3>1, <3>2 DEF BorrowedOldest
    <3> QED
      BY <1>4, <2>2, <3>3
  <2>4. CASE i \notin DOMAIN r
    BY <2>2, <2>4
  <2> QED
    BY <2>3, <2>4
<1> QED
  BY <1>8, <1>9, <1>10

\* The fallback goes behind all others, and its camera had none.
LEMMA StoreFallback ==
    ASSUME IInv, UNCHANGED site, NEW c \in Cameras, NEW n \in Names,
           OfCamera(c) = {},
           segments' = Put(segments, [cam |-> c, name |-> n, data |-> First])
    PROVE  /\ segments' = Append(segments, [cam |-> c, name |-> n, data |-> First])
           /\ segments' \in Seq(Segment) /\ SegmentsLocal' /\ BorrowedOldest'
<1> DEFINE x == [cam |-> c, name |-> n, data |-> First]
<1>1. segments \in Seq(Segment) /\ SegmentsLocal /\ BorrowedOldest
  BY DEF IInv, TypeOK, CachesOK
<1>2. x \in Segment /\ x.data = First /\ x.cam = c
  BY ProxyConstants DEF Segment
<1>3. {i \in DOMAIN segments : segments[i].cam = x.cam /\ segments[i].name = x.name} = {}
  BY <1>2 DEF OfCamera
<1>4. \A i \in DOMAIN segments : segments[i].cam # c
  BY DEF OfCamera
<1> HIDE DEF x
<1>5. segments' = Append(segments, x)
  <2>1. Put(segments, x) = Append(segments, x)
    BY <1>3 DEF Put
  <2> QED
    BY <2>1 DEF x
<1>6. /\ segments' \in Seq(Segment)
      /\ \A i \in DOMAIN segments' :
            \/ i = Len(segments) + 1 /\ segments'[i] = x
            \/ i \in DOMAIN segments /\ segments'[i] = segments[i]
  <2> HIDE DEF Segment
  <2> QED
    BY <1>1, <1>2, <1>5
<1>7. SegmentsLocal'
  BY <1>1, <1>2, <1>6 DEF SegmentsLocal
<1>8. BorrowedOldest'
  <2> SUFFICES ASSUME NEW i \in DOMAIN segments', NEW j \in DOMAIN segments',
                      segments'[i].cam = segments'[j].cam,
                      segments'[j].cam # First, segments'[j].data = First
               PROVE  j <= i
    BY DEF BorrowedOldest
  <2>1. Len(segments) \in Nat /\ DOMAIN segments = 1 .. Len(segments)
        /\ i \in 1 .. Len(segments) + 1 /\ j \in 1 .. Len(segments) + 1
    BY <1>1, <1>6
  <2>2. CASE i = Len(segments) + 1
    BY <2>1, <2>2
  <2>3. CASE i \in DOMAIN segments /\ segments'[i] = segments[i]
    <3>1. j \in DOMAIN segments /\ segments'[j] = segments[j]
      BY <1>2, <1>4, <1>6, <2>3
    <3> QED
      BY <1>1, <2>3, <3>1 DEF BorrowedOldest
  <2> QED
    BY <1>6, <2>2, <2>3
<1> QED
  BY <1>5, <1>6, <1>7, <1>8 DEF x

LEMMA SegmentFetchedStep ==
    ASSUME IInv, NEW t \in Tasks, SegmentFetched(t)
    PROVE  IInv'
<1> DEFINE c == task[t].cam
           n == task[t].name
<1>1. /\ task[t] # None /\ task[t].kind = "segment"
      /\ c \in Cameras /\ n \in Names
  <2>1. task[t] # None /\ task[t].kind = "segment" /\ Pending(t)
    BY DEF SegmentFetched, Fetched, IInv
  <2> QED
    BY <2>1 DEF Pending
<1>2. /\ UNCHANGED <<clock, version, versionAt, preloaded>>
      /\ UNCHANGED <<site, cookie, playlists, key, requests>>
  BY DEF SegmentFetched, site
<1>3. segments \in Seq(Segment) /\ SegmentsLocal /\ BorrowedOldest
  BY DEF IInv, TypeOK, CachesOK
<1>4. ASSUME UNCHANGED segments
      PROVE  segments' \in Seq(Segment) /\ SegmentsLocal' /\ BorrowedOldest'
  BY <1>2, <1>3, <1>4 DEF SegmentsLocal, BorrowedOldest
\* In each of the four ways it can end, borrowing has its reason.
<1>5. PICK body \in Cameras \cup {None} :
         /\ Finish(t, body)
         /\ segments' \in Seq(Segment) /\ SegmentsLocal' /\ BorrowedOldest'
         /\ ~Succeeded(t) /\ body \notin {c, None} =>
              /\ body = First
              /\ \A i \in DOMAIN segments' :
                    segments'[i].cam = c => segments'[i].data # c
  <2>1. CASE /\ segments' = Put(Room(segments), [cam |-> c, name |-> n, data |-> c])
             /\ Succeeded(t) /\ Finish(t, c)
    <3>1. segments' \in Seq(Segment) /\ SegmentsLocal' /\ BorrowedOldest'
      BY <1>1, <1>2, <2>1, StoreSegment
    <3> QED
      BY <1>1, <2>1, <3>1
  <2>2. CASE /\ OfCamera(c) # {} /\ UNCHANGED segments
             /\ Finish(t, segments[Recent(c)].data)
    <3> DEFINE m == Recent(c)
    <3>1. Len(segments) \in Nat /\ OfCamera(c) \subseteq 1 .. Len(segments)
      BY <1>3 DEF OfCamera
    <3>2. m \in OfCamera(c) /\ \A i \in OfCamera(c) : m >= i
      BY <2>2, <3>1, MaxOfPositions DEF Recent
    <3>3. m \in DOMAIN segments /\ segments[m].cam = c
      BY <3>2 DEF OfCamera
    <3>4. segments[m].data \in {c, First} /\ segments[m].data \in Cameras
      BY <1>1, <1>3, <3>3, ProxyConstants DEF SegmentsLocal
    <3>5. ASSUME segments[m].data # c, NEW i \in OfCamera(c)
          PROVE  segments[i].data # c
      <4>1. segments[m].data = First /\ c # First
        BY <3>4, <3>5
      <4>2. m <= i
        BY <1>3, <3>3, <3>5, <4>1 DEF BorrowedOldest, OfCamera
      <4>3. m \in Nat /\ i \in Nat /\ m >= i
        BY <3>1, <3>2, <3>5
      <4>4. m = i
        BY <4>2, <4>3
      <4> QED
        BY <3>5, <4>4
    <3>6. segments' = segments /\ \A i \in DOMAIN segments :
             segments[i].cam = c => i \in OfCamera(c)
      BY <2>2 DEF OfCamera
    <3> HIDE DEF m
    <3>7. Finish(t, segments[m].data)
      BY <2>2 DEF m
    <3> QED
      BY <1>3, <1>4, <2>2, <3>4, <3>5, <3>6, <3>7
  <2>3. CASE /\ OfCamera(c) = {}
             /\ segments' = Put(segments, [cam |-> c, name |-> n, data |-> First])
             /\ Finish(t, First)
    <3> DEFINE x == [cam |-> c, name |-> n, data |-> First]
    <3>1. /\ segments' \in Seq(Segment) /\ SegmentsLocal' /\ BorrowedOldest'
          /\ segments' = Append(segments, x)
      BY <1>1, <1>2, <2>3, StoreFallback
    <3>2. x.data = First /\ x.cam = c
      OBVIOUS
    <3> HIDE DEF x
    <3>3. \A i \in DOMAIN segments' : segments'[i] = x \/
             (i \in DOMAIN segments /\ segments'[i] = segments[i])
      <4> HIDE DEF Segment
      <4> QED
        BY <1>3, <3>1
    <3>4. \A i \in DOMAIN segments' : segments'[i].cam = c => segments'[i].data = First
      BY <2>3, <3>2, <3>3 DEF OfCamera
    <3>5. First # c => \A i \in DOMAIN segments' :
             segments'[i].cam = c => segments'[i].data # c
      BY <3>4
    <3>6. First \in Cameras
      BY ProxyConstants
    <3> QED
      BY <2>3, <3>1, <3>5, <3>6
  <2>4. CASE UNCHANGED segments /\ Finish(t, None)
    BY <1>3, <1>4, <2>4
  <2> QED
    BY <2>1, <2>2, <2>3, <2>4 DEF SegmentFetched
<1>6. body \in Versions \cup Cameras \cup {Own, None}
  BY <1>5
<1>7. /\ task' \in [Tasks -> Request \cup {None}]
      /\ \A u \in Tasks : Pending(u)'
      /\ answer' = [kind |-> task[t].kind, cam |-> task[t].cam,
                    now |-> task[t].now, body |-> body,
                    failed |-> ~Succeeded(t)]
      /\ answer' \in Answer
  BY <1>1, <1>2, <1>5, <1>6, Finished
<1>8. FreshAnswers'
  BY <1>1, <1>7 DEF FreshAnswers
<1>9. BorrowedOnlyForLack'
  <2>1. answer'.cam = c /\ answer'.body = body /\ answer'.failed = ~Succeeded(t)
    BY <1>7
  <2>2. \A i \in OfCamera(answer.cam)' : i \in DOMAIN segments' /\ segments'[i].cam = c
    BY <2>1 DEF OfCamera
  <2> QED
    BY <1>5, <2>1, <2>2 DEF BorrowedOnlyForLack
<1>10. PlaylistsHonest' /\ KeyHonest' /\ History'
  BY <1>2 DEF IInv, CachesOK, PlaylistsHonest, KeyHonest, Honest, History
<1>11. TypeOK'
  BY <1>2, <1>5, <1>7 DEF IInv, TypeOK
<1> QED
  BY <1>5, <1>7, <1>8, <1>9, <1>10, <1>11 DEF IInv, CachesOK

-----------------------------------------------------------------------------
(* The site and the clock.                                                 *)

\* History only grows: what was honest stays so.
LEMMA LaterStep ==
    ASSUME IInv, UNCHANGED <<preloaded, cookie, caches, task, requests>>, Silent,
           clock' \in Times, clock <= clock', version' \in Versions,
           versionAt' \in [Times -> Versions], History',
           \A i \in Times : i <= clock => versionAt'[i] = versionAt[i]
    PROVE  IInv'
<1>1. \A e \in Entry : Honest(e) => Honest(e)'
  <2> SUFFICES ASSUME NEW e \in Entry, Honest(e) PROVE Honest(e)'
    OBVIOUS
  <2>1. e.at \in Times /\ e.at <= clock /\ clock \in Times
    BY DEF Honest, IInv, TypeOK
  <2>2. versionAt'[e.at] = versionAt[e.at] /\ e.at <= clock'
    BY <2>1 DEF Times
  <2> QED
    BY <2>1, <2>2 DEF Honest
<1>2. PlaylistsHonest'
  <2>1. \A c \in Cameras : playlists[c] # None => playlists[c] \in Entry
    BY DEF IInv, TypeOK
  <2> QED
    BY <1>1, <2>1 DEF IInv, CachesOK, PlaylistsHonest, caches
<1>3. KeyHonest'
  BY <1>1 DEF IInv, TypeOK, CachesOK, KeyHonest, caches
<1>4. SegmentsLocal' /\ BorrowedOldest'
  BY DEF IInv, CachesOK, SegmentsLocal, BorrowedOldest, caches
<1>5. \A t \in Tasks : Pending(t)'
  <2> SUFFICES ASSUME NEW t \in Tasks, task[t] # None PROVE Pending(t)'
    BY DEF Pending
  <2>1. task[t].now \in Times /\ clock \in Times
    BY DEF IInv, TypeOK, Request
  <2>2. Pending(t)
    BY DEF IInv
  <2>3. task[t].now <= clock' /\ versionAt'[task[t].now] = versionAt[task[t].now]
    BY <2>1, <2>2 DEF Pending, Times
  <2> QED
    BY <2>2, <2>3 DEF Pending
<1>6. answer' \in Answer \cup {None} /\ FreshAnswers' /\ BorrowedOnlyForLack'
  BY SilentAnswer
<1>7. TypeOK'
  BY <1>6 DEF IInv, TypeOK, caches
<1> QED
  BY <1>2, <1>3, <1>4, <1>5, <1>6, <1>7 DEF IInv, CachesOK

LEMMA SiteChangesStep ==
    ASSUME IInv, SiteChanges
    PROVE  IInv'
<1>1. clock \in Times /\ version \in Versions /\ versionAt \in [Times -> Versions]
  BY DEF IInv, TypeOK
<1>2. clock' = clock /\ versionAt' = versionAt /\ version' = version + 1
      /\ version < MaxVersion
  BY DEF SiteChanges
<1>3. version' \in Versions
  BY <1>1, <1>2, ProxyConstants DEF Versions
<1>4. History'
  BY <1>1, <1>2 DEF IInv, History, Versions
<1>5. clock <= clock'
  BY <1>1, <1>2 DEF Times
<1> QED
  BY <1>1, <1>2, <1>3, <1>4, <1>5, LaterStep DEF SiteChanges

LEMMA TickStep ==
    ASSUME IInv, Tick
    PROVE  IInv'
<1>1. clock \in Times /\ version \in Versions /\ versionAt \in [Times -> Versions]
  BY DEF IInv, TypeOK
<1>2. /\ clock < MaxTime /\ clock' = clock + 1 /\ version' = version
      /\ versionAt' = [i \in Times |-> IF i > clock THEN version ELSE versionAt[i]]
  BY DEF Tick
<1>3. clock' \in Times /\ clock <= clock'
  BY <1>1, <1>2, ProxyConstants DEF Times
<1>4. versionAt' \in [Times -> Versions]
  BY <1>1, <1>2
<1>5. \A i \in Times : i <= clock => versionAt'[i] = versionAt[i]
  BY <1>1, <1>2 DEF Times
<1>6. History'
  BY <1>1, <1>2 DEF IInv, History, Times, Versions
<1> QED
  BY <1>1, <1>2, <1>3, <1>4, <1>5, <1>6, LaterStep DEF Tick

LEMMA StutterStep ==
    ASSUME IInv, UNCHANGED vars
    PROVE  IInv'
<1>1. UNCHANGED <<site, cookie, caches, task, answer, requests>>
  BY DEF vars
<1>2. History' /\ CachesOK'
  BY <1>1, CachesKept
<1>3. \A t \in Tasks : Pending(t)'
  BY <1>1 DEF IInv, Pending, site
<1>4. FreshAnswers' /\ BorrowedOnlyForLack' /\ TypeOK'
  BY <1>1 DEF IInv, FreshAnswers, BorrowedOnlyForLack, OfCamera, TypeOK, site, caches
<1> QED
  BY <1>2, <1>3, <1>4 DEF IInv

LEMMA StepIInv == IInv /\ [Next]_vars => IInv'
<1> SUFFICES ASSUME IInv, [Next]_vars PROVE IInv'
  OBVIOUS
<1>1. ASSUME NEW t \in Tasks,
             \/ \E c \in Cameras : AskPlaylist(t, c)
             \/ AskKey(t)
             \/ \E c \in Cameras, n \in Names : AskSegment(t, c, n)
      PROVE  IInv'
  BY <1>1, AskPlaylistStep, AskKeyStep, AskSegmentStep
<1>2. ASSUME NEW t \in Tasks, SiteAnswers(t) \/ Refused(t) \/ LoggedIn(t)
      PROVE  IInv'
  BY <1>2, SiteAnswersStep, RefusedStep, LoggedInStep
<1>3. ASSUME NEW t \in Tasks,
             PlaylistFetched(t) \/ KeyFetched(t) \/ SegmentFetched(t)
      PROVE  IInv'
  BY <1>3, PlaylistFetchedStep, KeyFetchedStep, SegmentFetchedStep
<1>4. CASE SiteChanges
  BY <1>4, SiteChangesStep
<1>5. CASE Tick
  BY <1>5, TickStep
<1>6. CASE UNCHANGED vars
  BY <1>6, StutterStep
<1> QED
  BY <1>1, <1>2, <1>3, <1>4, <1>5, <1>6 DEF Next

LEMMA SpecIInv == Spec => []IInv
<1>1. Init => IInv
  BY InitIInv
<1>2. IInv /\ [Next]_vars => IInv'
  BY StepIInv
<1> QED
  BY <1>1, <1>2, PTL DEF Spec

-----------------------------------------------------------------------------
(* Theorems.                                                               *)

\* Every variable keeps to its type, the cookie included: a login that fails
\* leaves the one there was.
THEOREM TypeCorrect == Spec => []TypeOK
<1>1. IInv => TypeOK
  BY DEF IInv
<1> QED
  BY <1>1, SpecIInv, PTL

\* No playlist or key is served that was replaced on the site more than a time
\* to live before the request, unless a fetch for the request failed.
THEOREM FreshAnswersHold == Spec => []FreshAnswers
<1>1. IInv => FreshAnswers
  BY DEF IInv
<1> QED
  BY <1>1, SpecIInv, PTL

\* A camera whose fetch failed is shown the first camera's footage only while the
\* cache holds none of its own.
THEOREM BorrowedOnlyForLackHolds == Spec => []BorrowedOnlyForLack
<1>1. IInv => BorrowedOnlyForLack
  BY DEF IInv
<1> QED
  BY <1>1, SpecIInv, PTL

\* Requests that fail at once store borrowed footage once for their camera.
THEOREM OneFallbackHolds == Spec => []OneFallback
<1>1. IInv => OneFallback
  <2> SUFFICES ASSUME IInv, NEW i \in DOMAIN segments, NEW j \in DOMAIN segments,
                      segments[i].cam = segments[j].cam, segments[i].cam # First,
                      segments[i].data = First, segments[j].data = First
               PROVE  i = j
    BY DEF OneFallback
  <2>1. i <= j /\ j <= i
    BY DEF IInv, CachesOK, BorrowedOldest
  <2>2. i \in Nat /\ j \in Nat
    BY DEF IInv, TypeOK
  <2> QED
    BY <2>1, <2>2
<1> QED
  BY <1>1, SpecIInv, PTL

\* A real playlist gives way to the template only to a request that began
\* before the camera had any entry.
THEOREM RealStaysHolds == Spec => RealStays
<1> DEFINE Stays == \A c \in Cameras :
                      Real(c) /\ (\A t \in Tasks : ~Blind(t, c)) => Real(c)'
<1>1. IInv /\ [Next]_vars => [Stays]_vars
  <2> SUFFICES ASSUME IInv, Next, NEW c \in Cameras, Real(c),
                      \A t \in Tasks : ~Blind(t, c)
               PROVE  Real(c)'
    OBVIOUS
  <2>1. CASE UNCHANGED playlists
    BY <2>1 DEF Real
  <2>2. ASSUME NEW t \in Tasks, PlaylistFetched(t) PROVE Real(c)'
    <3>1. /\ Fetched(t, "playlist") /\ task[t] # None
          /\ task[t].kind = "playlist"
      BY <2>2 DEF PlaylistFetched, Fetched
    <3>2. playlists \in [Cameras -> Entry \cup {None}]
      BY DEF IInv, TypeOK
    <3>3. CASE /\ Succeeded(t)
               /\ playlists' = [playlists EXCEPT ![task[t].cam] = Stamped(t)]
      <4>1. Stamped(t) \in Entry /\ Stamped(t).body \in Versions
        BY <3>1, <3>3, StampedHonest
      <4>2. Stamped(t) # None /\ Stamped(t).body # Own
        BY <4>1, ProxyConstants
      <4>3. playlists'[c] \in {playlists[c], Stamped(t)}
        BY <3>2, <3>3
      <4> QED
        BY <4>2, <4>3 DEF Real
    <3>4. CASE UNCHANGED playlists
      BY <3>4 DEF Real
    <3>5. CASE /\ ~Known(t)
               /\ playlists' = [playlists EXCEPT ![task[t].cam] =
                                  [body |-> Own, at |-> task[t].now]]
      <4>1. task[t].cam # c
        BY <3>1, <3>5 DEF Blind, Known
      <4> QED
        BY <3>2, <3>5, <4>1 DEF Real
    <3> QED
      BY <2>2, <3>3, <3>4, <3>5 DEF PlaylistFetched
  <2> QED
    BY <2>1, <2>2 DEF Next, AskPlaylist, AskKey, AskSegment, SiteAnswers,
       Refused, LoggedIn, KeyFetched, SegmentFetched, SiteChanges, Tick, caches
<1> QED
  BY <1>1, SpecIInv, PTL DEF Spec, RealStays

\* Only a camera's fallback makes a full cache longer: every fetch that succeeds
\* makes room first.
THEOREM FullCacheGrowsByFallbackHolds == Spec => FullCacheGrowsByFallback
<1> DEFINE Grows == /\ Len(segments) >= Capacity
                    /\ Len(segments') > Len(segments)
                    => /\ segments'[Len(segments')].data = First
                       /\ OfCamera(segments'[Len(segments')].cam) = {}
<1>1. IInv /\ [Next]_vars => [Grows]_vars
  <2> SUFFICES ASSUME IInv, Next, Len(segments) >= Capacity,
                      Len(segments') > Len(segments)
               PROVE  /\ segments'[Len(segments')].data = First
                      /\ OfCamera(segments'[Len(segments')].cam) = {}
    OBVIOUS
  <2>1. segments \in Seq(Segment) /\ Len(segments) \in Nat
    BY DEF IInv, TypeOK
  <2>2. segments' # segments
    BY <2>1
  <2>3. PICK t \in Tasks : SegmentFetched(t)
    BY <2>2 DEF Next, AskPlaylist, AskKey, AskSegment, SiteAnswers, Refused,
       LoggedIn, PlaylistFetched, KeyFetched, SiteChanges, Tick, caches
  <2> DEFINE c == task[t].cam
             n == task[t].name
  <2>4. c \in Cameras /\ n \in Names /\ UNCHANGED site
    BY <2>3 DEF SegmentFetched, Fetched, IInv, Pending
  <2>5. segments' # Put(Room(segments), [cam |-> c, name |-> n, data |-> c])
    <3> DEFINE x == [cam |-> c, name |-> n, data |-> c]
    <3>1. x \in Segment
      BY <2>4 DEF Segment
    <3> HIDE DEF x
    <3>2. Room(segments) \in Seq(Segment) /\ Len(Room(segments)) < Len(segments)
      BY <2>1, RoomKeeps
    <3>3. Len(Put(Room(segments), x)) \in
             {Len(Room(segments)), Len(Room(segments)) + 1}
      BY <3>1, <3>2, PutStores
    <3>4. Len(Room(segments)) \in Nat
      BY <3>2
    <3>5. Len(Put(Room(segments), x)) <= Len(segments)
      BY <2>1, <3>2, <3>3, <3>4
    <3>6. segments' # Put(Room(segments), x)
      BY <2>1, <3>3, <3>4, <3>5
    <3> QED
      BY <3>6 DEF x
  <2>6. /\ OfCamera(c) = {} /\ Fallback
        /\ segments' = Put(segments, [cam |-> c, name |-> n, data |-> First])
    BY <2>2, <2>3, <2>5 DEF SegmentFetched
  <2>7. segments' = Append(segments, [cam |-> c, name |-> n, data |-> First])
    BY <2>4, <2>6, StoreFallback
  <2>8. /\ Len(segments') = Len(segments) + 1
        /\ segments'[Len(segments')] = [cam |-> c, name |-> n, data |-> First]
    BY <2>1, <2>7
  <2> QED
    BY <2>6, <2>8
<1> QED
  BY <1>1, SpecIInv, PTL DEF Spec, FullCacheGrowsByFallback

=============================================================================
