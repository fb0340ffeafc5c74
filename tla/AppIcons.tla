------------------------------- MODULE AppIcons -------------------------------
(***************************************************************************)
(* Loading the icons of the applications: the page's queue                 *)
(* (renderer/ui/app-icons.js) and the host's requests (host/app-icons.cjs, *)
(* get).  Every paint replaces the avatars of a list; requests are shared  *)
(* by avatars of one application, queued behind PageLimit, and dropped     *)
(* when nobody wants them any more.                                        *)
(***************************************************************************)
EXTENDS FiniteSets, Sequences, Naturals

CONSTANTS Avatars, Keys, Nothing,
          PageLimit, HostLimit, MaxPages \* requests at a time; pages opened

VARIABLES
    shown,       \* the key an avatar of the document asks for, or Nothing
    pending,     \* avatars with a token
    image,       \* avatars showing their icon
    decoding,    \* avatars whose image is being decoded
    entry,       \* requests: how far the request for a key is
    queue,       \* keys waiting for a free slot
    subscribers, \* avatars a queued request is for
    waiting,     \* avatars whose callback the request will run
    cache,       \* the page's results
    host,        \* the host's promises
    told,        \* history: avatars told that there is no icon
    pages        \* pages opened

pageVars == <<shown, pending, image, decoding, entry, queue, subscribers, waiting, cache, told>>
vars == <<pageVars, host, pages>>

\* Type invariant.
TypeOK ==
    /\ shown \in [Avatars -> Keys \cup {Nothing}]
    /\ \A s \in {pending, image, decoding, told} : s \subseteq Avatars
    /\ entry \in [Keys -> {"none", "queued", "asked", "refused"}] /\ queue \in Seq(Keys)
    /\ subscribers \in [Keys -> SUBSET Avatars] /\ waiting \in [Keys -> SUBSET Avatars]
    /\ cache \in [Keys -> {"none", "icon", "missing"}] /\ host \in [Keys -> {"none", "loading", "icon"}]
    /\ pages \in 1..MaxPages

EmptyPage ==
    /\ shown = [a \in Avatars |-> Nothing] /\ pending = {} /\ image = {} /\ decoding = {}
    /\ entry = [k \in Keys |-> "none"] /\ queue = <<>>
    /\ subscribers = [k \in Keys |-> {}] /\ waiting = [k \in Keys |-> {}]
    /\ cache = [k \in Keys |-> "none"] /\ told = {}
Init == EmptyPage /\ host = [k \in Keys |-> "none"] /\ pages = 1

active == Cardinality({k \in Keys : entry[k] \in {"asked", "refused"}})
Settled == queue = <<>> \/ active >= PageLimit

\* Mutant of JoinsQueued: joining a request under way does not subscribe to it.
JoinsNothing(k, a) == subscribers

\* load for an avatar: join the request under way, else the cached result,
\* else a new request.
JoinsQueued(k, a) == [subscribers EXCEPT ![k] = @ \cup {a}]
Hydrate(k, a) ==
    /\ pending' = IF entry[k] = "none" /\ cache[k] = "missing" THEN pending ELSE pending \cup {a}
    /\ IF entry[k] # "none"
         THEN /\ subscribers' = JoinsQueued(k, a) /\ waiting' = [waiting EXCEPT ![k] = @ \cup {a}]
              /\ UNCHANGED <<entry, queue, decoding, told>>
       ELSE IF cache[k] = "none"
         THEN /\ subscribers' = [subscribers EXCEPT ![k] = {a}] /\ waiting' = [waiting EXCEPT ![k] = {a}]
              /\ entry' = [entry EXCEPT ![k] = "queued"] /\ queue' = Append(queue, k)
              /\ UNCHANGED <<decoding, told>>
       ELSE /\ decoding' = IF cache[k] = "icon" THEN decoding \cup {a} ELSE decoding
            /\ told' = IF cache[k] = "missing" THEN told \cup {a} ELSE told
            /\ UNCHANGED <<subscribers, waiting, entry, queue>>

\* A paint: an avatar appears, those there without an icon are tried again, an
\* avatar goes with its list.
Appears(a, k) ==
    /\ Settled /\ shown[a] = Nothing /\ a \notin decoding /\ \A j \in Keys : a \notin waiting[j]
    /\ shown' = [shown EXCEPT ![a] = k] /\ Hydrate(k, a)
    /\ UNCHANGED <<image, cache, host, pages>>
TriedAgain(a) ==
    /\ Settled /\ shown[a] # Nothing /\ a \notin pending \cup image
    /\ Hydrate(shown[a], a)
    /\ UNCHANGED <<shown, image, cache, host, pages>>
Goes(a) ==
    /\ Settled /\ shown[a] # Nothing
    /\ shown' = [shown EXCEPT ![a] = Nothing] /\ image' = image \ {a} /\ told' = told \ {a}
    /\ pending' = IF \A k \in Keys : a \notin waiting[k] THEN pending \ {a} ELSE pending
    /\ UNCHANGED <<decoding, entry, queue, subscribers, waiting, cache, host, pages>>

\* drain: subscribers that left are dropped, and the request with the last.
Wanted(k) == {a \in subscribers[k] : shown[a] = k}
DrainCancel ==
    /\ ~Settled
    /\ LET k == Head(queue)
       IN  /\ Wanted(k) = {} /\ queue' = Tail(queue)
           /\ entry' = [entry EXCEPT ![k] = "none"] /\ subscribers' = [subscribers EXCEPT ![k] = {}]
           /\ pending' = pending \ waiting[k] /\ waiting' = [waiting EXCEPT ![k] = {}]
    /\ UNCHANGED <<shown, image, decoding, cache, host, told, pages>>
\* The host joins its own request for the key, or refuses when it is busy.
DrainStart ==
    /\ ~Settled
    /\ LET k == Head(queue)
           busy == host[k] = "none" /\ Cardinality({j \in Keys : host[j] = "loading"}) >= HostLimit
       IN  /\ Wanted(k) # {} /\ queue' = Tail(queue)
           /\ pending' = pending \ (subscribers[k] \ Wanted(k))
           /\ subscribers' = [subscribers EXCEPT ![k] = Wanted(k)]
           /\ entry' = [entry EXCEPT ![k] = IF busy THEN "refused" ELSE "asked"]
           /\ host' = IF busy \/ host[k] # "none" THEN host ELSE [host EXCEPT ![k] = "loading"]
    /\ UNCHANGED <<shown, image, decoding, waiting, cache, told, pages>>

\* complete, and the callbacks of the avatars still there.
Complete(k, url) ==
    LET there == {a \in waiting[k] \cap pending : shown[a] = k}
    IN  /\ entry' = [entry EXCEPT ![k] = "none"]
        /\ subscribers' = [subscribers EXCEPT ![k] = {}] /\ waiting' = [waiting EXCEPT ![k] = {}]
        /\ cache' = [cache EXCEPT ![k] = IF url THEN "icon" ELSE "missing"]
        /\ decoding' = IF url THEN decoding \cup there ELSE decoding
        /\ pending' = pending \ (waiting[k] \ (IF url THEN there ELSE {}))
        /\ told' = IF url THEN told ELSE told \cup there
        /\ UNCHANGED <<shown, image, queue, pages>>
Refused(k) == Settled /\ entry[k] = "refused" /\ Complete(k, FALSE) /\ UNCHANGED host
Cached(k) == Settled /\ entry[k] = "asked" /\ host[k] = "icon" /\ Complete(k, TRUE) /\ UNCHANGED host

\* The host has looked the program up and extracted its icon, or found none;
\* only icons are kept.
HostAnswers(k, found) ==
    /\ Settled /\ host[k] = "loading"
    /\ host' = [host EXCEPT ![k] = IF found THEN "icon" ELSE "none"]
    /\ IF entry[k] = "asked" THEN Complete(k, found) ELSE UNCHANGED <<pageVars, pages>>

Decoded(a, ok) ==
    /\ Settled /\ a \in decoding /\ decoding' = decoding \ {a} /\ pending' = pending \ {a}
    /\ image' = IF ok /\ a \in pending /\ shown[a] # Nothing THEN image \cup {a} ELSE image
    /\ told' = IF ok \/ shown[a] = Nothing THEN told ELSE told \cup {a}
    /\ UNCHANGED <<shown, entry, queue, subscribers, waiting, cache, host, pages>>

\* A missing icon is asked for again after ten seconds; old results are dropped.
Forgotten(k) ==
    /\ Settled /\ cache[k] # "none" /\ cache' = [cache EXCEPT ![k] = "none"]
    /\ UNCHANGED <<shown, pending, image, decoding, entry, queue, subscribers, waiting, host, told, pages>>

\* The page is loaded again; the host's requests go on.
OpenPage ==
    /\ Settled /\ pages < MaxPages /\ pages' = pages + 1
    /\ shown' = [a \in Avatars |-> Nothing] /\ pending' = {} /\ image' = {} /\ decoding' = {}
    /\ entry' = [k \in Keys |-> "none"] /\ queue' = <<>>
    /\ subscribers' = [k \in Keys |-> {}] /\ waiting' = [k \in Keys |-> {}]
    /\ cache' = [k \in Keys |-> "none"] /\ told' = {} /\ UNCHANGED host

Next ==
    \/ \E a \in Avatars : TriedAgain(a) \/ Goes(a) \/ (\E k \in Keys : Appears(a, k))
                          \/ (\E ok \in BOOLEAN : Decoded(a, ok))
    \/ \E k \in Keys : Refused(k) \/ Cached(k) \/ Forgotten(k) \/ (\E found \in BOOLEAN : HostAnswers(k, found))
    \/ DrainCancel \/ DrainStart \/ OpenPage

Spec == Init /\ [][Next]_vars

-----------------------------------------------------------------------------
\* When nothing is queued, asked for or being decoded, every avatar of the page
\* shows its icon or was told that there is none: no request is dropped for an
\* avatar that left while another one of the same program still waits.
AvatarsServed ==
    (\A k \in Keys : entry[k] = "none") /\ decoding = {} =>
        \A a \in Avatars : shown[a] # Nothing => a \in image \cup told /\ a \notin pending

==============================================================================
