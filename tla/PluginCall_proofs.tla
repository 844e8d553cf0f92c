--------------------------- MODULE PluginCall_proofs ---------------------------
(***************************************************************************)
(* Rooms have the plugins they were asked for, answers are true and the cache *)
(* keeps its complete directories, for whatever the catalogue has when it is  *)
(* fetched, every number of rooms and all lists.  IInv says of each room,     *)
(* wherever its handler is, which entries of its list are installed; of the   *)
(* calls, what was made of what was asked; and of the cache, where an          *)
(* incomplete directory is from.                                               *)
(***************************************************************************)
EXTENDS PluginCall, FiniteSetTheorems, TLAPS

Places == {"gone", "ready", "install", "download", "unzip", "copy", "results", "core"}
Installs == {"install", "download", "unzip", "copy"}
Wants == {"download", "unzip", "copy"}

\* One handler runs at a time, in a process that is up.
OneHandler ==
    /\ \A r, q \in Rooms : {room[r].pc, room[q].pc} \cap {"gone", "ready"} = {} => r = q
    /\ ~up => \A r \in Rooms : At(r, "gone")

\* An incomplete directory is being unzipped, or was spoilt.
CacheSound ==
    \A d \in Dirs :
        /\ cache[d] \in {Absent, Partial, d}
        /\ cache[d] = Partial =>
             d \in spoilt \/ \E r \in Rooms : At(r, "unzip") /\ Dir(room[r].want) = d

-----------------------------------------------------------------------------
(* What is known of a room s, given the cache c and the spoilt directories sp. *)

\* The list a room was given is on its list, and its directories are complete,
\* unless an installation failed or the cache was spoilt.
GivenIsListed(s) == ToSet(s.given) \subseteq ToSet(s.list)

FilesComplete(s, sp) ==
    ~s.failed => \A d \in Dirs : s.files[d] # Absent /\ d \notin sp => s.files[d] = d

\* The entry that is being installed, and what the cache has of it.
WantKnown(s) ==
    s.pc \in Wants =>
        /\ s.want \in Entry /\ Found(s, s.want)
        /\ s.plugin[s.want.name].dir = Dir(s.want)
        /\ s.todo # <<>> => s.want = Head(s.todo)
        /\ s.todo = <<>> => s.want.version = "latest" /\ s.want.name \in Mandatory
        /\ s.todo = <<>> /\ ~s.failed => s.want.name \notin Names(s.list)

CacheKnown(s, c) ==
    /\ s.pc = "download" => c[Dir(s.want)] = Absent
    /\ s.pc \in {"unzip", "copy"} => c[Dir(s.want)] # Absent

\* Whatever is installed was asked for and is as one of its entries says, but for
\* the plugin that is being installed.
Busy(s, p) == s.pc \in Wants /\ s.want.name = p

AsAsked(s, p, sp) ==
    \E e \in Wanted(s, p) : e \in ToSet(s.list) /\ Matches(s, e, sp)

InstalledIsAsked(s, sp) ==
    \A p \in Plugins : s.plugin[p].version # "" =>
        p \in s.catalogue \cap Asked(s) /\ (Busy(s, p) \/ AsAsked(s, p, sp))

\* Whatever was looked at is installed.
ListedIsInstalled(s) ==
    \A e \in ToSet(s.list) : Found(s, e) =>
        e \in ToSet(s.todo) \/ s.plugin[e.name].version # ""

MandatoryIsInstalled(s) ==
    \A p \in (Mandatory \cap s.catalogue) \ s.left :
        s.plugin[p].version # "" \/ (s.todo = <<>> /\ Busy(s, p))

Equipped(s, sp) ==
    ~s.failed /\ s.pc # "gone" =>
        InstalledIsAsked(s, sp) /\ ListedIsInstalled(s) /\ MandatoryIsInstalled(s)

\* The handler has entries of the list to look at only while it installs.
Remaining(s) ==
    /\ ToSet(s.todo) \subseteq ToSet(s.given)
    /\ s.left \subseteq s.catalogue
    /\ s.pc \notin Installs => s.todo = <<>> /\ s.left = {}

RoomInv(s, c, sp) ==
    /\ s \in RoomType
    /\ GivenIsListed(s) /\ FilesComplete(s, sp) /\ WantKnown(s) /\ CacheKnown(s, c)
    /\ Equipped(s, sp) /\ Remaining(s)

-----------------------------------------------------------------------------
\* What is known of the call k in a room s.
CallInv(k, s) ==
    /\ k \in CallType
    /\ s.pc = "gone" => k = NoCall
    /\ k.answer = "none" => s.pc \in {"results", "core"} \cup Installs
    /\ s.pc \in {"results", "core"} => k.answer = "none"
    /\ s.pc = "results" => k.made = {}
    /\ k.answer = "none" /\ s.pc # "results" => k.made = k.asked \cap {"room"} /\ ~k.open
    /\ k.answer = "ok" => k.made = k.asked /\ ~k.open
    /\ k.answer = "error" =>
         k.made = {} \/ (k.made \in {k.asked \cap {"room"}, k.asked} /\ ~k.open)

Globals ==
    /\ up \in BOOLEAN
    /\ coreList \in Seq(Entry)
    /\ cache \in [Dirs -> Contents]
    /\ spoilt \subseteq Dirs

IInv ==
    /\ Globals /\ OneHandler /\ CacheSound
    /\ room = [r \in Rooms |-> room[r]] /\ call = [r \in Rooms |-> call[r]]
    /\ \A r \in Rooms : RoomInv(room[r], cache, spoilt) /\ CallInv(call[r], room[r])

-----------------------------------------------------------------------------
(* Sequences, lists of plugins and directories. *)

\* An entry appended to a list joins its entries.
LEMMA AppendFacts ==
    ASSUME NEW S, NEW l \in Seq(S), NEW e \in S
    PROVE  Append(l, e) \in Seq(S) /\ ToSet(Append(l, e)) = ToSet(l) \cup {e}
<1>1. /\ Append(l, e) \in Seq(S) /\ Len(Append(l, e)) = Len(l) + 1
      /\ DOMAIN Append(l, e) = 1..Len(l) + 1 /\ DOMAIN l = 1..Len(l) /\ Len(l) \in Nat
      /\ Append(l, e)[Len(l) + 1] = e
      /\ \A i \in 1..Len(l) : Append(l, e)[i] = l[i]
  OBVIOUS
<1>2. \A x : x \in ToSet(Append(l, e)) <=> x \in ToSet(l) \/ x = e
  BY <1>1 DEF ToSet
<1> QED
  BY <1>1, <1>2

\* The entries of a list are its head and those of its tail.
LEMMA TailFacts ==
    ASSUME NEW S, NEW l \in Seq(S), l # <<>>
    PROVE  /\ Head(l) \in S /\ Tail(l) \in Seq(S)
           /\ ToSet(l) = {Head(l)} \cup ToSet(Tail(l))
<1>1. /\ Head(l) \in S /\ Tail(l) \in Seq(S)
      /\ Len(l) \in Nat /\ Len(l) # 0 /\ Len(Tail(l)) = Len(l) - 1
      /\ DOMAIN l = 1..Len(l) /\ DOMAIN Tail(l) = 1..Len(l) - 1
      /\ l[1] = Head(l)
      /\ \A i \in 1..Len(l) - 1 : Tail(l)[i] = l[i + 1]
  OBVIOUS
<1>2. ASSUME NEW x PROVE x \in ToSet(l) <=> x = Head(l) \/ x \in ToSet(Tail(l))
  <2>1. ASSUME x \in ToSet(l) PROVE x = Head(l) \/ x \in ToSet(Tail(l))
    <3>1. PICK i \in 1..Len(l) : x = l[i]
      BY <1>1, <2>1 DEF ToSet
    <3>2. CASE i = 1
      BY <1>1, <3>1, <3>2
    <3>3. CASE i # 1
      <4>1. i - 1 \in 1..Len(l) - 1 /\ Tail(l)[i - 1] = x
        BY <1>1, <3>1, <3>3
      <4> QED
        BY <1>1, <4>1 DEF ToSet
    <3> QED
      BY <3>2, <3>3
  <2>2. ASSUME x \in ToSet(Tail(l)) PROVE x \in ToSet(l)
    BY <1>1, <2>2 DEF ToSet
  <2>3. Head(l) \in ToSet(l)
    BY <1>1 DEF ToSet
  <2> QED
    BY <2>1, <2>2, <2>3
<1> QED
  BY <1>1, <1>2

\* The entries of a list are entries.
LEMMA ToSetOfSeq ==
    ASSUME NEW S, NEW l \in Seq(S) PROVE ToSet(l) \subseteq S
BY DEF ToSet

\* An entry with a version is installed from a directory of its own.
LEMMA DirFacts ==
    ASSUME NEW e \in Entry, e.version # ""
    PROVE  /\ Dir(e) \in Dirs
           /\ e.name \in Plugins /\ Dir(e)[1] = e.name
<1>1. e.name \in Plugins /\ e.version \in Versions \cup {"latest"}
  BY DEF Entry
<1>2. Newest \in Versions
  BY OfferedAssumption
<1>3. PICK v \in Versions : Dir(e) = <<e.name, v>>
  BY <1>1, <1>2 DEF Dir
<1>4. <<e.name, v>> \in Dirs /\ <<e.name, v>>[1] = e.name
  BY <1>1 DEF Dirs
<1> QED
  BY <1>1, <1>3, <1>4

\* What the core makes of a list is a list.
LEMMA CompletedIsList ==
    ASSUME NEW l \in Seq(Entry), NEW catalogue, NEW m \in Completed(l, catalogue)
    PROVE  m \in Seq(Entry)
<1> DEFINE S == (Mandatory \cap catalogue) \ Names(l)
<1>1. IsFiniteSet(S)
  <2>1. S \subseteq Plugins
    BY PluginsAssumption
  <2> QED
    BY <2>1, PluginsAssumption, FS_Subset
<1>2. PICK order \in SetToSeqs(S) :
        m = l \o [i \in DOMAIN order |-> [name |-> order[i], version |-> "latest"]]
  BY DEF Completed
<1>3. order \in [1..Cardinality(S) -> S] /\ Cardinality(S) \in Nat
  BY <1>1, <1>2, FS_CardinalityType DEF SetToSeqs
<1> DEFINE n == [i \in DOMAIN order |-> [name |-> order[i], version |-> "latest"]]
<1>4. n \in [1..Cardinality(S) -> Entry]
  BY <1>3, PluginsAssumption DEF Entry
<1> HIDE DEF n, S
<1>5. n \in Seq(Entry)
  BY <1>3, <1>4
<1> QED
  BY <1>2, <1>5 DEF n

\* Whoever wants a plugin names it, and a version.
LEMMA WantedFacts ==
    ASSUME NEW s, NEW p, NEW e \in Wanted(s, p) PROVE e.name = p /\ e.version # ""
<1> DEFINE named == {f \in ToSet(s.given) : f.name = p /\ f.version # ""}
<1>1. CASE named = {}
  <2>1. e = [name |-> p, version |-> "latest"]
    BY <1>1 DEF Wanted
  <2> QED
    BY <2>1
<1>2. CASE named # {}
  BY <1>2 DEF Wanted
<1> QED
  BY <1>1, <1>2

-----------------------------------------------------------------------------
(* A step of one room. *)

\* What is installed in s is so in t, where nothing of it changed.
LEMMA StaysAsAsked ==
    ASSUME NEW s, NEW t, NEW sp, NEW sp2, sp \subseteq sp2,
           t.given = s.given, t.catalogue = s.catalogue, t.list = s.list,
           t.plugin = s.plugin, t.files = s.files,
           \A p \in Plugins : Busy(s, p) => Busy(t, p),
           InstalledIsAsked(s, sp)
    PROVE  InstalledIsAsked(t, sp2)
<1>1. Asked(t) = Asked(s) /\ \A p : Wanted(t, p) = Wanted(s, p)
  BY DEF Asked, Wanted
<1>2. \A e : Matches(s, e, sp) => Matches(t, e, sp2)
  BY DEF Matches
<1>3. \A p : AsAsked(s, p, sp) => AsAsked(t, p, sp2)
  BY <1>1, <1>2 DEF AsAsked
<1> QED
  BY <1>1, <1>3 DEF InstalledIsAsked

\* A room at rest does not mind what becomes of the cache.
LEMMA RestKeeps ==
    ASSUME NEW s, NEW c, NEW sp, NEW c2, NEW sp2,
           RoomInv(s, c, sp), s.pc \in {"gone", "ready"}, sp \subseteq sp2
    PROVE  RoomInv(s, c2, sp2)
<1>1. FilesComplete(s, sp2)
  BY DEF RoomInv, FilesComplete
<1>2. InstalledIsAsked(s, sp) => InstalledIsAsked(s, sp2)
  BY StaysAsAsked
<1>3. Equipped(s, sp2)
  BY <1>2 DEF RoomInv, Equipped
<1>4. CacheKnown(s, c2)
  BY DEF CacheKnown
<1> QED
  BY <1>1, <1>3, <1>4 DEF RoomInv

\* A step of the handler of a room r, alone under way, that makes s of the room and k
\* of its call.
LEMMA RoomStep ==
    ASSUME IInv, up, up' = up, NEW r \in Rooms, NEW s, NEW k,
           room' = [room EXCEPT ![r] = s], call' = [call EXCEPT ![r] = k],
           \A q \in Rooms \ {r} : room[q].pc \in {"gone", "ready"},
           RoomInv(s, cache', spoilt'), CallInv(k, s),
           Globals', CacheSound', spoilt \subseteq spoilt'
    PROVE  IInv'
<1>1. /\ room' = [q \in Rooms |-> room'[q]] /\ call' = [q \in Rooms |-> call'[q]]
      /\ room'[r] = s /\ call'[r] = k
      /\ \A q \in Rooms \ {r} : room'[q] = room[q] /\ call'[q] = call[q]
  BY DEF IInv
<1>2. OneHandler'
  BY <1>1 DEF OneHandler
<1>3. ASSUME NEW q \in Rooms
      PROVE  RoomInv(room'[q], cache', spoilt') /\ CallInv(call'[q], room'[q])
  <2>1. CASE q = r
    BY <1>1, <2>1
  <2>2. CASE q # r
    <3>1. RoomInv(room[q], cache, spoilt) /\ CallInv(call[q], room[q])
      BY DEF IInv
    <3>2. RoomInv(room[q], cache', spoilt')
      BY <2>2, <3>1, RestKeeps
    <3> QED
      BY <1>1, <2>2, <3>1, <3>2
  <2> QED
    BY <2>1, <2>2
<1> QED
  BY <1>1, <1>2, <1>3 DEF IInv

\* A step that leaves the cache and the core alone.
LEMMA QuietStep ==
    ASSUME IInv, up, NEW r \in Rooms, NEW s, NEW k,
           room' = [room EXCEPT ![r] = s], call' = [call EXCEPT ![r] = k],
           \A q \in Rooms \ {r} : room[q].pc \in {"gone", "ready"},
           ~At(r, "unzip"), RoomInv(s, cache, spoilt), CallInv(k, s),
           UNCHANGED <<up, coreList, cache, spoilt>>
    PROVE  IInv'
<1>1. CacheSound'
  <2>1. \A q \in Rooms : ~At(q, "unzip")
    BY DEF At
  <2>2. \A d \in Dirs : cache[d] \in {Absent, Partial, d} /\ (cache[d] = Partial => d \in spoilt)
    BY <2>1 DEF IInv, CacheSound
  <2> QED
    BY <2>2 DEF CacheSound
<1>2. Globals'
  BY DEF IInv, Globals
<1> QED
  BY <1>1, <1>2, RoomStep

\* Whoever is under way is alone.
LEMMA Alone ==
    ASSUME IInv, NEW r \in Rooms, room[r].pc \notin {"gone", "ready"}
    PROVE  /\ up
           /\ \A q \in Rooms \ {r} : room[q].pc \in {"gone", "ready"}
<1>1. up
  BY DEF IInv, OneHandler, At
<1>2. ASSUME NEW q \in Rooms \ {r} PROVE room[q].pc \in {"gone", "ready"}
  BY DEF IInv, OneHandler
<1> QED
  BY <1>1, <1>2

-----------------------------------------------------------------------------
(* What the operators of PluginInstall make of a room. *)

\* Proceed goes to the next entry, or puts a mandatory plugin on the list.
LEMMA ProceedFields ==
    ASSUME NEW s \in RoomType, s.todo = <<>> => s.want \in Entry
    PROVE  LET t == Proceed(s) IN
           /\ t \in RoomType /\ t.pc = "install" /\ t.want = NoEntry
           /\ t.given = s.given /\ t.catalogue = s.catalogue
           /\ t.plugin = s.plugin /\ t.files = s.files
           /\ t.left = s.left /\ t.failed = s.failed
           /\ s.todo # <<>> =>
                /\ t.list = s.list
                /\ ToSet(s.todo) = {Head(s.todo)} \cup ToSet(t.todo)
           /\ s.todo = <<>> =>
                /\ t.todo = <<>>
                /\ t.list = Append(s.list, s.want)
                /\ ToSet(t.list) = ToSet(s.list) \cup {s.want}
<1>1. CASE s.todo # <<>>
  <2>1. /\ s.todo \in Seq(Entry)
        /\ Tail(s.todo) \in Seq(Entry)
        /\ ToSet(s.todo) = {Head(s.todo)} \cup ToSet(Tail(s.todo))
    <3>1. s.todo \in Seq(Entry)
      BY DEF RoomType
    <3> QED
      BY <1>1, <3>1, TailFacts
  <2>2. Proceed(s) = [s EXCEPT !.pc = "install", !.want = NoEntry, !.todo = Tail(s.todo)]
    BY <1>1 DEF Proceed
  <2> QED
    BY <1>1, <2>1, <2>2 DEF RoomType
<1>2. CASE s.todo = <<>>
  <2>1. /\ Append(s.list, s.want) \in Seq(Entry)
        /\ ToSet(Append(s.list, s.want)) = ToSet(s.list) \cup {s.want}
    <3>1. s.list \in Seq(Entry) /\ s.want \in Entry
      BY <1>2 DEF RoomType
    <3> QED
      BY <3>1, AppendFacts
  <2>2. Proceed(s) = [s EXCEPT !.pc = "install", !.want = NoEntry, !.list = Append(s.list, s.want)]
    BY <1>2 DEF Proceed
  <2> QED
    BY <1>2, <2>1, <2>2 DEF RoomType
<1> QED
  BY <1>1, <1>2

\* A room that goes on, its plugins and files aside.
LEMMA ProceedKeeps ==
    ASSUME NEW s, NEW c, NEW sp, RoomInv(s, c, sp), s.pc \in Installs,
           s.todo = <<>> => s.pc \in Wants
    PROVE  LET t == Proceed(s) IN
           /\ Remaining(t) /\ GivenIsListed(t)
           /\ ToSet(s.list) \subseteq ToSet(t.list)
           /\ s.pc \in Wants => s.want \in ToSet(t.list)
<1> DEFINE t == Proceed(s)
<1>1. /\ s \in RoomType
      /\ s.todo = <<>> => s.want \in Entry
      /\ ToSet(s.todo) \subseteq ToSet(s.given) /\ ToSet(s.given) \subseteq ToSet(s.list)
  BY DEF RoomInv, WantKnown, Remaining, GivenIsListed
<1>2. /\ t.pc = "install" /\ t.given = s.given /\ t.catalogue = s.catalogue /\ t.left = s.left
      /\ s.todo # <<>> => t.list = s.list /\ ToSet(s.todo) = {Head(s.todo)} \cup ToSet(t.todo)
      /\ s.todo = <<>> => t.todo = <<>> /\ ToSet(t.list) = ToSet(s.list) \cup {s.want}
  BY <1>1, ProceedFields
<1> HIDE DEF t
<1>3. Remaining(t)
  <2>1. ToSet(<<>>) = {}
    BY DEF ToSet
  <2> QED
    BY <1>1, <1>2, <2>1 DEF RoomInv, Remaining, Installs
<1>4. ToSet(s.list) \subseteq ToSet(t.list) /\ (s.pc \in Wants => s.want \in ToSet(t.list))
  <2>1. CASE s.todo # <<>>
    BY <1>1, <1>2, <2>1 DEF RoomInv, WantKnown
  <2>2. CASE s.todo = <<>>
    BY <1>2, <2>2
  <2> QED
    BY <2>1, <2>2
<1>5. GivenIsListed(t)
  BY <1>1, <1>2, <1>4 DEF GivenIsListed
<1> QED
  BY <1>3, <1>4, <1>5 DEF t

\* The entry e of a plugin that may be installed: the next of the list, or a
\* mandatory plugin that the list lacks.
Due(s, e) ==
    /\ e \in Entry /\ Found(s, e)
    /\ s.todo # <<>> => e = Head(s.todo)
    /\ s.todo = <<>> =>
         /\ e.version = "latest" /\ e.name \in Mandatory
         /\ ~s.failed => e.name \notin Names(s.list)

\* A room that looks for e.
Sought(s, e) == [s EXCEPT !.want = e, !.plugin[e.name].dir = Dir(e)]

\* Only the entry sought and the directory of its plugin change.
LEMMA InstallFields ==
    ASSUME NEW s \in RoomType, NEW e \in Entry, e.version # ""
    PROVE  LET t == Sought(s, e) IN
           /\ t \in RoomType /\ t.want = e /\ t.pc = s.pc
           /\ t.list = s.list /\ t.given = s.given /\ t.catalogue = s.catalogue
           /\ t.files = s.files /\ t.todo = s.todo /\ t.left = s.left /\ t.failed = s.failed
           /\ t.plugin[e.name].dir = Dir(e)
           /\ \A p \in Plugins : t.plugin[p].version = s.plugin[p].version
           /\ \A p \in Plugins \ {e.name} : t.plugin[p] = s.plugin[p]
<1> DEFINE t == Sought(s, e)
<1>0. t = [s EXCEPT !.want = e, !.plugin[e.name].dir = Dir(e)]
  BY DEF Sought
<1> HIDE DEF t
<1>1. e.name \in Plugins /\ Dir(e) \in Dirs
  BY DirFacts
<1>2. s.plugin \in [Plugins -> [version : Versions \cup {"latest", ""}, dir : Dirs \cup {NoDir}]]
  BY DEF RoomType
<1>3. t.plugin = [s.plugin EXCEPT ![e.name].dir = Dir(e)]
  BY <1>0 DEF RoomType
<1>4. /\ t.plugin \in [Plugins -> [version : Versions \cup {"latest", ""}, dir : Dirs \cup {NoDir}]]
      /\ t.plugin[e.name].dir = Dir(e)
      /\ \A p \in Plugins : t.plugin[p].version = s.plugin[p].version
      /\ \A p \in Plugins \ {e.name} : t.plugin[p] = s.plugin[p]
  <2> DEFINE State == [version : Versions \cup {"latest", ""}, dir : Dirs \cup {NoDir}]
             old == s.plugin[e.name]
             new == [old EXCEPT !.dir = Dir(e)]
  <2>1. new \in State /\ new.dir = Dir(e) /\ new.version = old.version
    <3>1. old \in State
      BY <1>1, <1>2
    <3> QED
      BY <1>1, <3>1
  <2>2. t.plugin = [s.plugin EXCEPT ![e.name] = new]
    BY <1>3
  <2> HIDE DEF new, State
  <2>3. s.plugin \in [Plugins -> State]
    BY <1>2 DEF State
  <2>4. t.plugin \in [Plugins -> State]
    BY <1>1, <2>1, <2>2, <2>3
  <2>5. t.plugin[e.name] = new /\ \A p \in Plugins \ {e.name} : t.plugin[p] = s.plugin[p]
    BY <1>1, <2>2, <2>3
  <2> QED
    BY <2>1, <2>4, <2>5 DEF State
<1>5. /\ t.want = e /\ t.pc = s.pc /\ t.list = s.list
      /\ t.given = s.given /\ t.catalogue = s.catalogue
      /\ t.files = s.files /\ t.todo = s.todo /\ t.left = s.left /\ t.failed = s.failed
  BY <1>0 DEF RoomType
<1>6. t \in RoomType
  <2> DEFINE pl == t.plugin
  <2>1. t = [s EXCEPT !.want = e, !.plugin = pl]
    BY <1>0, <1>3 DEF RoomType
  <2>2. pl \in [Plugins -> [version : Versions \cup {"latest", ""}, dir : Dirs \cup {NoDir}]]
    BY <1>4
  <2> HIDE DEF pl
  <2> QED
    BY <1>1, <2>1, <2>2 DEF RoomType
<1> QED
  BY <1>4, <1>5, <1>6 DEF t

\* A plugin that could not be had leaves a room that counts as failed.
LEMMA GivesUpKeeps ==
    ASSUME NEW s \in RoomType, NEW c, NEW sp, NEW e \in Entry, s.pc \in Installs,
           Remaining(s), GivenIsListed(s), s.todo = <<>> => s.want \in Entry
    PROVE  LET t == GivesUp(s, e) IN RoomInv(t, c, sp) /\ t.pc = "install"
<1> DEFINE m == Proceed(s)
           t == GivesUp(s, e)
           State == [version : Versions \cup {"latest", ""}, dir : Dirs \cup {NoDir}]
<1>1. /\ m \in RoomType /\ m.pc = "install" /\ m.left = s.left
      /\ m.given = s.given /\ m.catalogue = s.catalogue
      /\ s.todo # <<>> => m.list = s.list /\ ToSet(s.todo) = {Head(s.todo)} \cup ToSet(m.todo)
      /\ s.todo = <<>> => m.todo = <<>> /\ ToSet(m.list) = ToSet(s.list) \cup {s.want}
  BY ProceedFields
<1>2. t = [m EXCEPT !.plugin[e.name].dir = NoDir, !.failed = TRUE]
  BY DEF GivesUp
<1> HIDE DEF m, t
<1>3. /\ t.pc = "install" /\ t.failed = TRUE /\ t.list = m.list /\ t.todo = m.todo
      /\ t.left = m.left /\ t.given = m.given /\ t.catalogue = m.catalogue
      /\ t.plugin = [m.plugin EXCEPT ![e.name].dir = NoDir]
  BY <1>1, <1>2 DEF RoomType
<1>4. [m.plugin EXCEPT ![e.name].dir = NoDir] \in [Plugins -> State]
  <2>1. m.plugin \in [Plugins -> State] /\ e.name \in Plugins
    BY <1>1 DEF RoomType, Entry
  <2>2. [m.plugin[e.name] EXCEPT !.dir = NoDir] \in State
    BY <2>1
  <2> HIDE DEF State
  <2> QED
    BY <2>1, <2>2
<1>5. t \in RoomType
  <2> DEFINE pl == t.plugin
  <2>1. t = [m EXCEPT !.plugin = pl, !.failed = TRUE]
    BY <1>1, <1>2, <1>3 DEF RoomType
  <2>2. pl \in [Plugins -> State]
    BY <1>3, <1>4
  <2> HIDE DEF pl
  <2> QED
    BY <1>1, <2>1, <2>2 DEF RoomType
<1>6. Remaining(t)
  <2>1. ToSet(<<>>) = {}
    BY DEF ToSet
  <2> QED
    BY <1>1, <1>3, <2>1 DEF Remaining, Installs
<1>7. GivenIsListed(t) /\ FilesComplete(t, sp) /\ Equipped(t, sp)
  BY <1>1, <1>3 DEF GivenIsListed, FilesComplete, Equipped
<1>8. WantKnown(t) /\ CacheKnown(t, c)
  BY <1>3 DEF WantKnown, CacheKnown, Wants
<1> QED
  BY <1>3, <1>5, <1>6, <1>7, <1>8 DEF RoomInv, t

\* The plugins looked at are installed; that of e is the next.
Looked(s, e) ==
    ~s.failed =>
        /\ InstalledIsAsked(s, spoilt) /\ ListedIsInstalled(s)
        /\ \A p \in (Mandatory \cap s.catalogue) \ s.left :
             s.plugin[p].version # "" \/ (s.todo = <<>> /\ p = e.name)

\* Plugin::install, wherever it ends before the network: the room keeps its invariant.
LEMMA InstallKeeps ==
    ASSUME IInv, NEW s \in RoomType, NEW e, Due(s, e), s.pc = "install",
           GivenIsListed(s), FilesComplete(s, spoilt), Remaining(s), Looked(s, e)
    PROVE  LET t == Install(s, e) IN RoomInv(t, cache, spoilt) /\ t.pc \in Installs
<1> DEFINE t == Sought(s, e)
<1>3. Install(s, e) = IF InCache(Dir(e)) THEN [t EXCEPT !.pc = "copy"]
                      ELSE IF Dir(e)[2] \in Offered THEN [t EXCEPT !.pc = "download"]
                      ELSE GivesUp(t, e)
  BY DEF Install, Sought
<1>2. e \in Entry /\ e.version # "" /\ Dir(e) \in Dirs /\ e.name \in Plugins
  BY DirFacts DEF Due, Found
<1>1. /\ t \in RoomType /\ t.want = e /\ t.pc = s.pc
      /\ t.list = s.list /\ t.given = s.given /\ t.catalogue = s.catalogue
      /\ t.files = s.files /\ t.todo = s.todo /\ t.left = s.left /\ t.failed = s.failed
      /\ t.plugin[e.name].dir = Dir(e)
      /\ \A p \in Plugins : t.plugin[p].version = s.plugin[p].version
      /\ \A p \in Plugins \ {e.name} : t.plugin[p] = s.plugin[p]
  BY <1>2, InstallFields
<1> HIDE DEF t
<1>4. ASSUME NEW u, u.pc \in {"copy", "download"}, u = [t EXCEPT !.pc = u.pc],
             CacheKnown(u, cache)
      PROVE  RoomInv(u, cache, spoilt) /\ u.pc \in Installs
  <2>1. /\ u \in RoomType /\ u.want = e /\ u.list = s.list
        /\ u.given = s.given /\ u.catalogue = s.catalogue
        /\ u.files = s.files /\ u.todo = s.todo /\ u.left = s.left
        /\ u.failed = s.failed /\ u.plugin = t.plugin
    BY <1>1, <1>4 DEF RoomType
  <2>2. GivenIsListed(u) /\ FilesComplete(u, spoilt)
    BY <2>1 DEF GivenIsListed, FilesComplete
  <2>3. Remaining(u)
    BY <1>4, <2>1 DEF Remaining, Installs
  <2>4. WantKnown(u)
    BY <1>1, <1>2, <2>1 DEF WantKnown, Due, Found
  <2>5. ASSUME ~s.failed
        PROVE  InstalledIsAsked(u, spoilt) /\ ListedIsInstalled(u) /\ MandatoryIsInstalled(u)
    <3>1. InstalledIsAsked(u, spoilt)
      <4>0. Asked(u) = Asked(s) /\ \A p : Wanted(u, p) = Wanted(s, p)
        BY <2>1 DEF Asked, Wanted
      <4>1. ASSUME NEW p \in Plugins, u.plugin[p].version # ""
            PROVE  p \in u.catalogue \cap Asked(u) /\ (Busy(u, p) \/ AsAsked(u, p, spoilt))
        <5>1. /\ p \in s.catalogue \cap Asked(s)
              /\ Busy(s, p) \/ AsAsked(s, p, spoilt)
          BY <1>1, <2>1, <2>5, <4>1 DEF InstalledIsAsked, Looked
        <5>2. CASE p # e.name
          <6>1. u.plugin[p] = s.plugin[p] /\ u.files = s.files /\ AsAsked(s, p, spoilt)
            BY <1>1, <2>1, <5>1, <5>2 DEF Busy, Wants
          <6>2. PICK f \in Wanted(s, p) : f \in ToSet(s.list) /\ Matches(s, f, spoilt)
            BY <6>1 DEF AsAsked
          <6>3. f.name = p
            BY <6>2, WantedFacts
          <6>4. Matches(u, f, spoilt)
            BY <6>1, <6>2, <6>3 DEF Matches
          <6> QED
            BY <2>1, <4>0, <5>1, <6>2, <6>4 DEF AsAsked
        <5>3. CASE p = e.name
          BY <1>4, <2>1, <4>0, <5>1, <5>3 DEF Busy, Wants
        <5> QED
          BY <5>2, <5>3
      <4> QED
        BY <4>1 DEF InstalledIsAsked
    <3>2. ListedIsInstalled(u)
      <4>1. ToSet(s.list) \subseteq Entry
        BY ToSetOfSeq DEF RoomType
      <4>2. \A f \in Entry : f.name \in Plugins
        BY DEF Entry
      <4>3. ASSUME NEW f \in ToSet(u.list), Found(u, f)
            PROVE  f \in ToSet(u.todo) \/ u.plugin[f.name].version # ""
        <5>1. f \in ToSet(s.todo) \/ s.plugin[f.name].version # ""
          BY <2>1, <2>5, <4>3 DEF ListedIsInstalled, Looked, Found
        <5>2. u.plugin[f.name].version = s.plugin[f.name].version
          BY <1>1, <2>1, <4>1, <4>2
        <5> QED
          BY <2>1, <5>1, <5>2
      <4> QED
        BY <4>3 DEF ListedIsInstalled
    <3>3. MandatoryIsInstalled(u)
      <4>1. ASSUME NEW p \in (Mandatory \cap u.catalogue) \ u.left
            PROVE  u.plugin[p].version # "" \/ (u.todo = <<>> /\ Busy(u, p))
        <5>1. s.plugin[p].version # "" \/ (s.todo = <<>> /\ p = e.name)
          BY <2>1, <2>5 DEF Looked
        <5>2. u.plugin[p].version = s.plugin[p].version
          BY <1>1, <2>1, PluginsAssumption
        <5> QED
          BY <1>4, <2>1, <5>1, <5>2 DEF Busy, Wants
      <4> QED
        BY <4>1 DEF MandatoryIsInstalled
    <3> QED
      BY <3>1, <3>2, <3>3
  <2>6. Equipped(u, spoilt)
    BY <2>1, <2>5 DEF Equipped
  <2> QED
    BY <1>4, <2>1, <2>2, <2>3, <2>4, <2>6 DEF RoomInv, Installs
<1>5. CASE InCache(Dir(e))
  <2> DEFINE u == [t EXCEPT !.pc = "copy"]
  <2>1. u.pc = "copy" /\ u.want = e /\ u = [t EXCEPT !.pc = u.pc]
    BY <1>1 DEF RoomType
  <2>2. CacheKnown(u, cache)
    BY <1>5, <2>1 DEF CacheKnown, InCache
  <2> HIDE DEF u
  <2>3. RoomInv(u, cache, spoilt) /\ u.pc \in Installs
    BY <1>4, <2>1, <2>2
  <2> QED
    BY <1>3, <1>5, <2>3 DEF u
<1>6. CASE ~InCache(Dir(e)) /\ Dir(e)[2] \in Offered
  <2> DEFINE u == [t EXCEPT !.pc = "download"]
  <2>1. u.pc = "download" /\ u.want = e /\ u = [t EXCEPT !.pc = u.pc]
    BY <1>1 DEF RoomType
  <2>2. CacheKnown(u, cache)
    BY <1>6, <2>1 DEF CacheKnown, InCache
  <2> HIDE DEF u
  <2>3. RoomInv(u, cache, spoilt) /\ u.pc \in Installs
    BY <1>4, <2>1, <2>2
  <2> QED
    BY <1>3, <1>6, <2>3 DEF u
<1>7. CASE ~InCache(Dir(e)) /\ Dir(e)[2] \notin Offered
  <2>1. Remaining(t) /\ GivenIsListed(t)
    BY <1>1 DEF Remaining, GivenIsListed
  <2>2. RoomInv(GivesUp(t, e), cache, spoilt) /\ GivesUp(t, e).pc = "install"
    BY <1>1, <1>2, <2>1, GivesUpKeeps DEF Installs
  <2> QED
    BY <1>3, <1>7, <2>2 DEF Installs
<1> QED
  BY <1>5, <1>6, <1>7

\* A plugin is copied into its room.
Copied(s) ==
    LET e == s.want
        d == Dir(e) IN
    [Proceed(s) EXCEPT !.plugin[e.name].version = e.version,
                       !.files[d] = IF @ = Absent THEN cache[d] ELSE @]

\* Only the plugin's version and its directory in the room change.
LEMMA CopyFields ==
    ASSUME NEW s \in RoomType, s.want \in Entry, s.want.version # "",
           cache \in [Dirs -> Contents]
    PROVE  LET t == Copied(s)
               m == Proceed(s)
               e == s.want
               d == Dir(e) IN
           /\ t \in RoomType /\ t.pc = m.pc /\ t.want = m.want /\ t.list = m.list
           /\ t.given = m.given /\ t.catalogue = m.catalogue
           /\ t.todo = m.todo /\ t.left = m.left /\ t.failed = m.failed
           /\ t.plugin[e.name].version = e.version
           /\ t.plugin[e.name].dir = m.plugin[e.name].dir
           /\ \A p \in Plugins \ {e.name} : t.plugin[p] = m.plugin[p]
           /\ t.files[d] = (IF m.files[d] = Absent THEN cache[d] ELSE m.files[d])
           /\ \A c \in Dirs \ {d} : t.files[c] = m.files[c]
<1> DEFINE t == Copied(s)
           m == Proceed(s)
           e == s.want
           d == Dir(e)
           State == [version : Versions \cup {"latest", ""}, dir : Dirs \cup {NoDir}]
           put == IF m.files[d] = Absent THEN cache[d] ELSE m.files[d]
<1>1. m \in RoomType
  BY ProceedFields
<1>2. t = [m EXCEPT !.plugin[e.name].version = e.version, !.files[d] = put]
  BY <1>1 DEF Copied, RoomType
<1>3. e.name \in Plugins /\ d \in Dirs /\ e.version \in Versions \cup {"latest", ""}
  BY DirFacts DEF Entry
<1> HIDE DEF t, m, e, d, State, put
<1>4. m.plugin \in [Plugins -> State] /\ m.files \in [Dirs -> Contents]
  BY <1>1 DEF RoomType, State
<1> DEFINE new == [m.plugin[e.name] EXCEPT !.version = e.version]
           pl == [m.plugin EXCEPT ![e.name] = new]
           fi == [m.files EXCEPT ![d] = put]
<1>5. new \in State /\ new.version = e.version /\ new.dir = m.plugin[e.name].dir
  <2>1. m.plugin[e.name] \in State
    BY <1>3, <1>4
  <2> QED
    BY <1>3, <2>1 DEF State
<1>6. t = [m EXCEPT !.plugin = pl, !.files = fi]
  BY <1>1, <1>2 DEF RoomType
<1> HIDE DEF new
<1>7. /\ pl \in [Plugins -> State] /\ pl[e.name] = new
      /\ \A p \in Plugins \ {e.name} : pl[p] = m.plugin[p]
  BY <1>3, <1>4, <1>5
<1>8. /\ fi \in [Dirs -> Contents] /\ fi[d] = put
      /\ \A c \in Dirs \ {d} : fi[c] = m.files[c]
  <2>1. put \in Contents
    BY <1>3, <1>4 DEF put
  <2> QED
    BY <1>3, <1>4, <2>1
<1> HIDE DEF pl, fi
<1>9. /\ t \in RoomType /\ t.pc = m.pc /\ t.want = m.want /\ t.list = m.list
      /\ t.given = m.given /\ t.catalogue = m.catalogue
      /\ t.todo = m.todo /\ t.left = m.left /\ t.failed = m.failed
      /\ t.plugin = pl /\ t.files = fi
  BY <1>1, <1>6, <1>7, <1>8 DEF RoomType, State
<1> QED
  BY <1>5, <1>7, <1>8, <1>9 DEF t, m, e, d, put

\* A copied plugin is installed as its entry says, and the others stay installed.
LEMMA CopyKeeps ==
    ASSUME NEW s, RoomInv(s, cache, spoilt), s.pc = "copy", cache \in [Dirs -> Contents],
           \A d \in Dirs : cache[d] \in {Absent, Partial, d} /\ (cache[d] = Partial => d \in spoilt)
    PROVE  RoomInv(Copied(s), cache, spoilt) /\ Copied(s).pc = "install"
<1> DEFINE t == Copied(s)
           m == Proceed(s)
           e == s.want
           d == Dir(e)
<1>1. /\ s \in RoomType /\ e \in Entry /\ e.version # "" /\ Found(s, e)
      /\ s.plugin[e.name].dir = d /\ cache[d] # Absent
      /\ s.todo # <<>> => e = Head(s.todo)
      /\ d \in Dirs /\ e.name \in Plugins
  BY DirFacts DEF RoomInv, WantKnown, CacheKnown, Wants, Found
<1>2. /\ m \in RoomType /\ m.pc = "install" /\ m.want = NoEntry
      /\ m.given = s.given /\ m.catalogue = s.catalogue
      /\ m.plugin = s.plugin /\ m.files = s.files
      /\ m.left = s.left /\ m.failed = s.failed
      /\ s.todo # <<>> => m.list = s.list /\ ToSet(s.todo) = {Head(s.todo)} \cup ToSet(m.todo)
      /\ s.todo = <<>> => m.todo = <<>> /\ ToSet(m.list) = ToSet(s.list) \cup {e}
  BY <1>1, ProceedFields
<1>3. /\ Remaining(m) /\ GivenIsListed(m)
      /\ ToSet(s.list) \subseteq ToSet(m.list) /\ e \in ToSet(m.list)
  BY ProceedKeeps DEF Installs, Wants
<1>4. /\ t \in RoomType /\ t.pc = m.pc /\ t.want = m.want /\ t.list = m.list
      /\ t.given = m.given /\ t.catalogue = m.catalogue
      /\ t.todo = m.todo /\ t.left = m.left /\ t.failed = m.failed
      /\ t.plugin[e.name].version = e.version
      /\ t.plugin[e.name].dir = m.plugin[e.name].dir
      /\ \A p \in Plugins \ {e.name} : t.plugin[p] = m.plugin[p]
      /\ t.files[d] = (IF m.files[d] = Absent THEN cache[d] ELSE m.files[d])
      /\ \A c \in Dirs \ {d} : t.files[c] = m.files[c]
  BY <1>1, CopyFields
<1> HIDE DEF t, m, e, d
<1>5. Remaining(t) /\ GivenIsListed(t)
  BY <1>3, <1>4 DEF Remaining, GivenIsListed
<1>6. FilesComplete(t, spoilt)
  <2>1. ASSUME ~s.failed, NEW c \in Dirs, t.files[c] # Absent, c \notin spoilt
        PROVE  t.files[c] = c
    <3>1. CASE s.files[c] # Absent
      <4>1. s.files[c] = c
        BY <2>1, <3>1 DEF RoomInv, FilesComplete
      <4> QED
        BY <1>2, <1>4, <3>1, <4>1
    <3>2. CASE s.files[c] = Absent
      <4>1. c = d
        BY <1>2, <1>4, <2>1, <3>2
      <4> QED
        BY <1>1, <1>2, <1>4, <2>1, <3>2, <4>1
    <3> QED
      BY <3>1, <3>2
  <2> QED
    BY <1>2, <1>4, <2>1 DEF FilesComplete
<1>7. WantKnown(t) /\ CacheKnown(t, cache)
  BY <1>2, <1>4 DEF WantKnown, CacheKnown, Wants
<1>8. ASSUME ~s.failed
      PROVE  InstalledIsAsked(t, spoilt) /\ ListedIsInstalled(t) /\ MandatoryIsInstalled(t)
  <2>1. InstalledIsAsked(s, spoilt) /\ ListedIsInstalled(s) /\ MandatoryIsInstalled(s)
    BY <1>8 DEF RoomInv, Equipped
  <2>2. \A f \in ToSet(t.list) : f \in Entry
    BY <1>4, ToSetOfSeq DEF RoomType
  <2>3. /\ Asked(t) = Asked(s) /\ \A p : Wanted(t, p) = Wanted(s, p)
        /\ \A f : Found(t, f) <=> Found(s, f)
    BY <1>2, <1>4 DEF Asked, Wanted, Found
  <2>4. ASSUME NEW p \in Plugins, t.plugin[p].version # ""
        PROVE  p \in t.catalogue \cap Asked(t) /\ AsAsked(t, p, spoilt)
    <3>1. CASE p = e.name
      <4>1. p \in Asked(s) /\ e \in Wanted(s, p)
        <5>1. CASE s.todo # <<>>
          <6>1. e \in ToSet(s.given)
            <7>1. e \in ToSet(s.todo)
              BY <1>1, <1>2, <5>1
            <7> QED
              BY <7>1 DEF RoomInv, Remaining
          <6> QED
            BY <1>1, <3>1, <6>1 DEF Asked, Names, Wanted
        <5>2. CASE s.todo = <<>>
          <6>1. e.version = "latest" /\ e.name \in Mandatory /\ e.name \notin Names(s.list)
            BY <1>8, <5>2 DEF RoomInv, WantKnown, Wants, e
          <6>2. \A f \in ToSet(s.given) : ~(f.name = p /\ f.version # "")
            BY <3>1, <6>1 DEF RoomInv, GivenIsListed, Names
          <6>3. e = [name |-> p, version |-> "latest"]
            BY <1>1, <3>1, <6>1 DEF Entry
          <6> QED
            BY <3>1, <6>1, <6>2, <6>3 DEF Asked, Wanted
        <5> QED
          BY <5>1, <5>2
      <4>2. t.plugin[p] = [version |-> e.version, dir |-> Dir(e)]
        <5>1. t.plugin[p] \in [version : Versions \cup {"latest", ""}, dir : Dirs \cup {NoDir}]
          BY <1>4 DEF RoomType
        <5>2. t.plugin[p].version = e.version /\ t.plugin[p].dir = Dir(e)
          BY <1>1, <1>2, <1>4, <3>1 DEF d
        <5> QED
          BY <5>1, <5>2
      <4>3. d \notin spoilt => t.files[d] = d
        BY <1>1, <1>2, <1>4, <1>6, <1>8 DEF FilesComplete
      <4>4. Matches(t, e, spoilt)
        BY <3>1, <4>2, <4>3 DEF Matches, d
      <4>5. p \in t.catalogue
        BY <1>1, <1>2, <1>4, <3>1 DEF Found
      <4> QED
        BY <1>3, <1>4, <2>3, <4>1, <4>4, <4>5 DEF AsAsked
    <3>2. CASE p # e.name
      <4>1. t.plugin[p] = s.plugin[p]
        BY <1>2, <1>4, <3>2
      <4>2. p \in s.catalogue \cap Asked(s) /\ AsAsked(s, p, spoilt)
        BY <2>1, <2>4, <3>2, <4>1 DEF InstalledIsAsked, Busy, e
      <4>3. PICK f \in Wanted(s, p) : f \in ToSet(s.list) /\ Matches(s, f, spoilt)
        BY <4>2 DEF AsAsked
      <4>4. f.name = p /\ f.version # "" /\ f \in ToSet(t.list) /\ f \in Entry
        <5>1. f.name = p /\ f.version # ""
          BY WantedFacts
        <5>2. f \in ToSet(t.list)
          BY <1>3, <1>4, <4>3
        <5> QED
          BY <2>2, <5>1, <5>2
      <4>5. Dir(f) \in Dirs /\ Dir(f) # d
        BY <1>1, <3>2, <4>4, DirFacts DEF d
      <4>6. t.files[Dir(f)] = s.files[Dir(f)]
        BY <1>2, <1>4, <4>5
      <4>7. Matches(t, f, spoilt)
        BY <4>1, <4>3, <4>4, <4>6 DEF Matches
      <4> QED
        BY <1>2, <1>4, <2>3, <4>2, <4>3, <4>4, <4>7 DEF AsAsked
    <3> QED
      BY <3>1, <3>2
  <2>5. ASSUME NEW f \in ToSet(t.list), Found(t, f)
        PROVE  f \in ToSet(t.todo) \/ t.plugin[f.name].version # ""
    <3>1. f.name \in Plugins
      BY <2>2 DEF Entry
    <3>2. CASE f = e
      BY <1>1, <1>4, <3>2
    <3>3. CASE f # e
      <4>1. f \in ToSet(s.list)
        BY <1>2, <1>4, <2>5, <3>3
      <4>2. f \in ToSet(s.todo) \/ s.plugin[f.name].version # ""
        BY <2>1, <2>3, <2>5, <4>1 DEF ListedIsInstalled
      <4>3. f \in ToSet(s.todo) => f \in ToSet(t.todo)
        <5>1. CASE s.todo # <<>>
          BY <1>1, <1>2, <1>4, <3>3, <5>1
        <5>2. CASE s.todo = <<>>
          BY <5>2 DEF ToSet
        <5> QED
          BY <5>1, <5>2
      <4>4. s.plugin[f.name].version # "" => t.plugin[f.name].version # ""
        <5>1. CASE f.name = e.name
          BY <1>1, <1>4, <5>1
        <5>2. CASE f.name # e.name
          <6>1. t.plugin[f.name] = s.plugin[f.name]
            BY <1>2, <1>4, <3>1, <5>2
          <6> QED
            BY <6>1
        <5> QED
          BY <5>1, <5>2
      <4> QED
        BY <4>2, <4>3, <4>4
    <3> QED
      BY <3>2, <3>3
  <2>6. ASSUME NEW p \in (Mandatory \cap t.catalogue) \ t.left PROVE t.plugin[p].version # ""
    <3>1. p \in Plugins
      BY PluginsAssumption
    <3>2. CASE p = e.name
      BY <1>1, <1>4, <3>2
    <3>3. CASE p # e.name
      <4>1. s.plugin[p].version # ""
        BY <1>2, <1>4, <2>1, <2>6, <3>3 DEF MandatoryIsInstalled, Busy, e
      <4> QED
        BY <1>2, <1>4, <3>1, <3>3, <4>1
    <3> QED
      BY <3>2, <3>3
  <2> QED
    BY <2>4, <2>5, <2>6 DEF InstalledIsAsked, ListedIsInstalled, MandatoryIsInstalled
<1>9. Equipped(t, spoilt)
  BY <1>2, <1>4, <1>8 DEF Equipped
<1> QED
  BY <1>2, <1>4, <1>5, <1>6, <1>7, <1>9 DEF RoomInv, t

\* A room that begins to install has nothing to its name.
LEMMA ReinstalledKeeps ==
    ASSUME NEW r \in Rooms, NEW c, NEW sp, RoomInv(room[r], c, sp),
           NEW l \in Seq(Entry), NEW catalogue \in SUBSET Plugins
    PROVE  LET t == Reinstalled(r, l, catalogue) IN RoomInv(t, c, sp) /\ t.pc = "install"
<1> DEFINE s == room[r]
           t == Reinstalled(r, l, catalogue)
           State == [version : Versions \cup {"latest", ""}, dir : Dirs \cup {NoDir}]
           pl == [p \in Plugins |-> [version |-> "", dir |-> NoDir]]
           left == Mandatory \cap catalogue
<1>1. s \in RoomType
  BY DEF RoomInv
<1>2. pl \in [Plugins -> State] /\ left \subseteq Mandatory /\ \A p \in Plugins : pl[p].version = ""
  OBVIOUS
<1>3. t = [s EXCEPT !.pc = "install", !.list = l, !.given = l, !.todo = l,
                    !.catalogue = catalogue, !.left = left, !.plugin = pl]
  BY DEF Reinstalled, NoRoom
<1>4. left = Mandatory \cap catalogue
  OBVIOUS
<1> HIDE DEF s, t, State, pl, left
<1>5. /\ t \in RoomType /\ t.pc = "install" /\ t.list = l /\ t.given = l /\ t.todo = l
      /\ t.catalogue = catalogue /\ t.left = left /\ t.plugin = pl
      /\ t.files = s.files /\ t.failed = s.failed
  BY <1>1, <1>2, <1>3 DEF RoomType, State
<1>6. GivenIsListed(t) /\ Remaining(t)
  BY <1>4, <1>5 DEF GivenIsListed, Remaining, Installs
<1>7. FilesComplete(t, sp)
  BY <1>5 DEF RoomInv, FilesComplete, s
<1>8. WantKnown(t) /\ CacheKnown(t, c)
  BY <1>5 DEF WantKnown, CacheKnown, Wants
<1>9. Equipped(t, sp)
  <2>1. InstalledIsAsked(t, sp)
    BY <1>2, <1>5 DEF InstalledIsAsked
  <2>2. ListedIsInstalled(t)
    BY <1>5 DEF ListedIsInstalled
  <2>3. MandatoryIsInstalled(t)
    BY <1>4, <1>5 DEF MandatoryIsInstalled
  <2> QED
    BY <2>1, <2>2, <2>3 DEF Equipped
<1> QED
  BY <1>5, <1>6, <1>7, <1>8, <1>9 DEF RoomInv, t

\* A room that is not there, and its call.
LEMMA GoneKeeps ==
    ASSUME NEW c, NEW sp
    PROVE  RoomInv(NoRoom, c, sp) /\ CallInv(NoCall, NoRoom)
<1>1. /\ NoRoom.pc = "gone" /\ NoRoom.list = <<>>
      /\ NoRoom.given = <<>> /\ NoRoom.catalogue = {}
      /\ NoRoom.todo = <<>> /\ NoRoom.left = {} /\ NoRoom.failed = FALSE
      /\ NoRoom.files = [d \in Dirs |-> Absent]
  BY DEF NoRoom
<1>2. NoRoom \in RoomType
  BY DEF NoRoom, RoomType, Contents
<1>3. GivenIsListed(NoRoom) /\ Remaining(NoRoom)
  BY <1>1 DEF GivenIsListed, Remaining, Installs, ToSet
<1>4. FilesComplete(NoRoom, sp)
  BY <1>1 DEF FilesComplete
<1>5. WantKnown(NoRoom) /\ CacheKnown(NoRoom, c) /\ Equipped(NoRoom, sp)
  BY <1>1 DEF WantKnown, CacheKnown, Equipped, Wants
<1>6. CallInv(NoCall, NoRoom)
  BY <1>1 DEF CallInv, NoCall, CallType
<1> QED
  BY <1>2, <1>3, <1>4, <1>5, <1>6 DEF RoomInv

Moved(s, pc) == [s EXCEPT !.pc = pc]

\* A room that only changes place: it is ready, or its call goes on.
LEMMA MovesKeeps ==
    ASSUME NEW s, NEW c, NEW sp, RoomInv(s, c, sp), s.todo = <<>>, s.left = {},
           s.pc \notin Wants, s.pc # "gone", NEW pc \in {"ready", "results", "core"}
    PROVE  LET t == Moved(s, pc) IN
           RoomInv(t, c, sp) /\ t.pc = pc
<1> DEFINE t == Moved(s, pc)
<1>1. s \in RoomType
  BY DEF RoomInv
<1>2. /\ t \in RoomType /\ t.pc = pc /\ t.list = s.list
      /\ t.given = s.given /\ t.catalogue = s.catalogue
      /\ t.files = s.files /\ t.todo = s.todo /\ t.left = s.left
      /\ t.plugin = s.plugin /\ t.failed = s.failed
  BY <1>1 DEF RoomType, Moved
<1> HIDE DEF t
<1>3. GivenIsListed(t) /\ FilesComplete(t, sp) /\ Remaining(t)
  BY <1>2 DEF RoomInv, GivenIsListed, FilesComplete, Remaining
<1>4. WantKnown(t) /\ CacheKnown(t, c)
  BY <1>2 DEF WantKnown, CacheKnown, Wants
<1>5. Equipped(t, sp)
  <2>1. ASSUME ~s.failed
        PROVE  InstalledIsAsked(t, sp) /\ ListedIsInstalled(t) /\ MandatoryIsInstalled(t)
    <3>1. InstalledIsAsked(s, sp) /\ ListedIsInstalled(s) /\ MandatoryIsInstalled(s)
      BY <2>1 DEF RoomInv, Equipped
    <3>2. \A p : ~Busy(s, p)
      BY DEF Busy
    <3>3. InstalledIsAsked(t, sp)
      BY <1>2, <3>1, <3>2, StaysAsAsked
    <3>4. ListedIsInstalled(t)
      BY <1>2, <3>1 DEF ListedIsInstalled, Found
    <3>5. MandatoryIsInstalled(t)
      BY <1>2, <3>1, <3>2 DEF MandatoryIsInstalled
    <3> QED
      BY <3>3, <3>4, <3>5
  <2> QED
    BY <1>2, <2>1 DEF Equipped
<1> QED
  BY <1>2, <1>3, <1>4, <1>5 DEF RoomInv, t

-----------------------------------------------------------------------------
(* The start, and the end of the process. *)

\* The initial state.
LEMMA InitKeeps == Init => IInv
<1> SUFFICES ASSUME Init PROVE IInv
  OBVIOUS
<1> USE DEF Init, InstallInit
<1>1. \A r \in Rooms : room[r] = NoRoom /\ call[r] = NoCall
  OBVIOUS
<1>2. NoRoom.pc = "gone"
  BY DEF NoRoom
<1>3. Globals
  <2>1. coreList \in Seq(Entry)
    OBVIOUS
  <2> QED
    BY <2>1 DEF Globals, Contents
<1>4. OneHandler
  BY <1>1, <1>2 DEF OneHandler, At
<1>5. CacheSound
  BY ContentsAssumption DEF CacheSound
<1>6. \A r \in Rooms : RoomInv(room[r], cache, spoilt) /\ CallInv(call[r], room[r])
  BY <1>1, GoneKeeps
<1> QED
  BY <1>3, <1>4, <1>5, <1>6 DEF IInv

\* The program starts with a list that the core completes.
LEMMA StartKeeps == IInv /\ Start /\ UNCHANGED call => IInv'
<1> SUFFICES ASSUME IInv, Start, UNCHANGED call PROVE IInv'
  OBVIOUS
<1> USE DEF Start
<1>1. Globals'
  <2>1. PICK l \in Lists, catalogue \in SUBSET Plugins : coreList' \in Completed(l, catalogue)
    BY DEF CoreInstalls
  <2>2. l \in Seq(Entry)
    BY ListsAssumption
  <2>3. coreList' \in Seq(Entry)
    BY <2>1, <2>2, CompletedIsList
  <2> QED
    BY <2>3 DEF IInv, Globals
<1>2. OneHandler'
  BY DEF IInv, OneHandler, At
<1>3. CacheSound'
  BY DEF IInv, CacheSound, At
<1> QED
  BY <1>1, <1>2, <1>3 DEF IInv

\* The process ends, for whatever reason.
LEMMA DownKeeps == IInv /\ Down /\ AllCallsEnd => IInv'
<1> SUFFICES ASSUME IInv, Down, AllCallsEnd PROVE IInv'
  OBVIOUS
<1> DEFINE cut == {Dir(room[r].want) : r \in {x \in Rooms : At(x, "unzip")}}
<1>1. /\ up' = FALSE /\ coreList' = <<>> /\ spoilt' = spoilt \cup cut /\ cache' = cache
      /\ room' = [r \in Rooms |-> NoRoom] /\ call' = [r \in Rooms |-> NoCall]
  BY DEF Down, AllCallsEnd
<1>2. \A r \in Rooms : room'[r] = NoRoom /\ call'[r] = NoCall /\ room'[r].pc = "gone"
  BY <1>1 DEF NoRoom
<1>3. cut \subseteq Dirs
  <2>1. ASSUME NEW r \in Rooms, At(r, "unzip") PROVE Dir(room[r].want) \in Dirs
    <3>1. room[r].want \in Entry /\ room[r].want.version # ""
      BY <2>1 DEF IInv, RoomInv, WantKnown, Wants, At, Found
    <3> QED
      BY <3>1, DirFacts
  <2> QED
    BY <2>1
<1>4. Globals'
  <2>1. coreList' \in Seq(Entry)
    BY <1>1
  <2> QED
    BY <1>1, <1>3, <2>1 DEF IInv, Globals
<1>5. CacheSound'
  <2>1. ASSUME NEW d \in Dirs PROVE cache[d] \in {Absent, Partial, d} /\ (cache[d] = Partial => d \in spoilt')
    BY <1>1 DEF IInv, CacheSound
  <2> QED
    BY <1>1, <2>1 DEF CacheSound
<1>6. OneHandler'
  BY <1>2 DEF OneHandler, At
<1>7. \A r \in Rooms : RoomInv(room'[r], cache', spoilt') /\ CallInv(call'[r], room'[r])
  BY <1>2, GoneKeeps
<1> QED
  BY <1>1, <1>4, <1>5, <1>6, <1>7 DEF IInv

-----------------------------------------------------------------------------
(* Steps of the installation, in a room r. *)

\* A call goes on while its room installs.
LEMMA CallGoesOn ==
    ASSUME NEW k, NEW s, NEW t, CallInv(k, s), s.pc \in Installs, t.pc \in Installs
    PROVE  CallInv(k, t)
BY DEF CallInv, Installs

\* A step from one place of an installation to another.
LEMMA InstallsOn ==
    ASSUME IInv, NEW r \in Rooms, room[r].pc \in Installs \ {"unzip"}, UNCHANGED call,
           NEW t, Step(r, t), RoomInv(t, cache, spoilt), t.pc \in Installs
    PROVE  IInv'
<1>1. up /\ \A q \in Rooms \ {r} : room[q].pc \in {"gone", "ready"}
  BY Alone DEF Installs
<1>2. CallInv(call[r], t)
  BY CallGoesOn DEF IInv
<1>3. call' = [call EXCEPT ![r] = call[r]]
  BY DEF IInv
<1>4. ~At(r, "unzip")
  BY DEF At
<1> QED
  BY <1>1, <1>2, <1>3, <1>4, QuietStep DEF Step

\* onRead makes a room.
LEMMA CreateKeeps ==
    ASSUME IInv, NEW r \in Rooms, Create(r), UNCHANGED call PROVE IInv'
<1>1. PICK catalogue \in SUBSET Plugins : room' = [room EXCEPT ![r] = Reinstalled(r, coreList, catalogue)]
  BY DEF Create
<1> DEFINE t == Reinstalled(r, coreList, catalogue)
<1>2. RoomInv(t, cache, spoilt) /\ t.pc = "install"
  BY ReinstalledKeeps DEF IInv, Globals
<1>3. CallInv(call[r], t)
  <2>1. call[r] = NoCall
    BY DEF IInv, CallInv, Create, At
  <2> QED
    BY <1>2, <2>1 DEF CallInv, NoCall, CallType
<1>4. call' = [call EXCEPT ![r] = call[r]]
  BY DEF IInv
<1>5. up /\ ~At(r, "unzip") /\ \A q \in Rooms \ {r} : room[q].pc \in {"gone", "ready"}
  BY DEF Create, Free, At
<1> HIDE DEF t
<1>6. room' = [room EXCEPT ![r] = t]
  BY <1>1 DEF t
<1> QED
  BY <1>2, <1>3, <1>4, <1>5, <1>6, QuietStep DEF Create

\* The next entry of the list: it is installed, or skipped.
LEMMA PickEntryKeeps ==
    ASSUME IInv, NEW r \in Rooms, PickEntry(r), UNCHANGED call PROVE IInv'
<1> DEFINE s == room[r]
           e == Head(s.todo)
<1>1. RoomInv(s, cache, spoilt) /\ s.pc = "install" /\ s.todo # <<>> /\ s \in RoomType
  BY DEF IInv, RoomInv, PickEntry, At
<1>2. Step(r, IF Found(s, e) THEN Install(s, e) ELSE Proceed(s))
  BY DEF PickEntry
<1> HIDE DEF s
<1>3. e \in Entry
  BY <1>1, TailFacts DEF RoomType
<1>4. CASE Found(s, e)
  <2>1. Due(s, e)
    BY <1>1, <1>3, <1>4 DEF Due
  <2>2. Looked(s, e)
    BY <1>1 DEF RoomInv, Equipped, Looked, MandatoryIsInstalled
  <2>3. RoomInv(Install(s, e), cache, spoilt) /\ Install(s, e).pc \in Installs
    <3>1. GivenIsListed(s) /\ FilesComplete(s, spoilt) /\ Remaining(s)
      BY <1>1 DEF RoomInv
    <3> HIDE DEF e
    <3> QED
      BY <1>1, <2>1, <2>2, <3>1, InstallKeeps
  <2>4. Step(r, Install(s, e))
    BY <1>2, <1>4
  <2> QED
    BY <1>1, <2>3, <2>4, InstallsOn DEF s, Installs
<1>5. CASE ~Found(s, e)
  <2> DEFINE t == Proceed(s)
  <2>1. Step(r, t)
    BY <1>2, <1>5
  <2>2. /\ t \in RoomType /\ t.pc = "install" /\ t.want = NoEntry
        /\ t.given = s.given /\ t.catalogue = s.catalogue
        /\ t.plugin = s.plugin /\ t.files = s.files
        /\ t.left = s.left /\ t.failed = s.failed /\ t.list = s.list
        /\ ToSet(s.todo) = {e} \cup ToSet(t.todo)
    BY <1>1, ProceedFields
  <2>3. Remaining(t) /\ GivenIsListed(t)
    BY <1>1, ProceedKeeps DEF Installs
  <2> HIDE DEF t, e
  <2>4. FilesComplete(t, spoilt) /\ WantKnown(t) /\ CacheKnown(t, cache)
    BY <1>1, <2>2 DEF RoomInv, FilesComplete, WantKnown, CacheKnown, Wants
  <2>5. ASSUME ~s.failed
        PROVE  InstalledIsAsked(t, spoilt) /\ ListedIsInstalled(t) /\ MandatoryIsInstalled(t)
    <3>1. InstalledIsAsked(s, spoilt) /\ ListedIsInstalled(s) /\ MandatoryIsInstalled(s)
      BY <1>1, <2>5 DEF RoomInv, Equipped
    <3>2. \A p : ~Busy(s, p)
      BY <1>1 DEF Busy, Wants
    <3>3. InstalledIsAsked(t, spoilt)
      BY <2>2, <3>1, <3>2, StaysAsAsked
    <3>4. ListedIsInstalled(t)
      BY <1>5, <2>2, <3>1 DEF ListedIsInstalled, Found
    <3>5. MandatoryIsInstalled(t)
      BY <2>2, <3>1, <3>2 DEF MandatoryIsInstalled
    <3> QED
      BY <3>3, <3>4, <3>5
  <2>6. Equipped(t, spoilt)
    BY <2>2, <2>5 DEF Equipped
  <2>7. RoomInv(t, cache, spoilt)
    BY <2>2, <2>3, <2>4, <2>6 DEF RoomInv
  <2> QED
    BY <1>1, <2>1, <2>2, <2>7, InstallsOn DEF s, Installs
<1> QED
  BY <1>4, <1>5

\* The next mandatory plugin: the list lacks it, or it is installed already.
LEMMA PickMandatoryKeeps ==
    ASSUME IInv, NEW r \in Rooms, PickMandatory(r), UNCHANGED call PROVE IInv'
<1>1. PICK p \in room[r].left :
        LET s == [room[r] EXCEPT !.left = @ \ {p}] IN
        Step(r, IF s.plugin[p].version = ""
                THEN Install(s, [name |-> p, version |-> "latest"]) ELSE s)
  BY DEF PickMandatory
<1> DEFINE o == room[r]
           rest == o.left \ {p}
           s == [o EXCEPT !.left = rest]
           e == [name |-> p, version |-> "latest"]
<1>2. RoomInv(o, cache, spoilt) /\ o.pc = "install" /\ o.todo = <<>> /\ o \in RoomType
  BY DEF IInv, RoomInv, PickMandatory, At
<1>3. p \in Mandatory /\ p \in Plugins /\ e \in Entry /\ e.name = p /\ e.version = "latest"
  BY <1>2, PluginsAssumption DEF RoomType, Entry
<1>4. Step(r, IF s.plugin[p].version = "" THEN Install(s, e) ELSE s)
  BY <1>1
<1> HIDE DEF o, e
<1>5. /\ s \in RoomType /\ s.pc = "install" /\ s.todo = <<>> /\ s.left = rest
      /\ s.list = o.list /\ s.given = o.given /\ s.catalogue = o.catalogue
      /\ s.plugin = o.plugin /\ s.files = o.files /\ s.failed = o.failed
  BY <1>2 DEF RoomType
<1> HIDE DEF s
<1>6. GivenIsListed(s) /\ FilesComplete(s, spoilt) /\ Remaining(s)
  BY <1>2, <1>5 DEF RoomInv, GivenIsListed, FilesComplete, Remaining, Installs
<1>7. WantKnown(s) /\ CacheKnown(s, cache)
  BY <1>5 DEF WantKnown, CacheKnown, Wants
<1>8. ASSUME ~s.failed
      PROVE  /\ InstalledIsAsked(s, spoilt) /\ ListedIsInstalled(s)
             /\ \A q \in (Mandatory \cap s.catalogue) \ s.left :
                  s.plugin[q].version # "" \/ q = p
  <2>1. InstalledIsAsked(o, spoilt) /\ ListedIsInstalled(o) /\ MandatoryIsInstalled(o)
    BY <1>2, <1>5, <1>8 DEF RoomInv, Equipped
  <2>2. \A q : ~Busy(o, q)
    BY <1>2 DEF Busy, Wants
  <2>3. InstalledIsAsked(s, spoilt)
    BY <1>5, <2>1, <2>2, StaysAsAsked
  <2>4. ListedIsInstalled(s)
    BY <1>2, <1>5, <2>1 DEF ListedIsInstalled, Found
  <2>5. \A q \in (Mandatory \cap s.catalogue) \ s.left : s.plugin[q].version # "" \/ q = p
    BY <1>5, <2>1, <2>2 DEF MandatoryIsInstalled
  <2> QED
    BY <2>3, <2>4, <2>5
<1>9. CASE s.plugin[p].version # ""
  <2>1. Equipped(s, spoilt)
    BY <1>8, <1>9 DEF Equipped, MandatoryIsInstalled
  <2>2. RoomInv(s, cache, spoilt)
    BY <1>5, <1>6, <1>7, <2>1 DEF RoomInv
  <2>3. Step(r, s)
    BY <1>4, <1>9
  <2> QED
    BY <1>2, <1>5, <2>2, <2>3, InstallsOn DEF o, Installs
<1>10. CASE s.plugin[p].version = ""
  <2>2. p \in s.catalogue
    <3>1. p \in o.catalogue
      BY <1>1, <1>2 DEF RoomInv, Remaining, o
    <3> QED
      BY <1>5, <3>1
  <2>1. ASSUME ~s.failed PROVE p \notin Names(s.list)
    <3>1. ASSUME NEW f \in ToSet(s.list), f.version # "", f.name = p PROVE FALSE
      <4>1. f \in ToSet(s.todo) \/ s.plugin[f.name].version # ""
        BY <1>8, <2>1, <2>2, <3>1 DEF ListedIsInstalled, Found
      <4>2. ToSet(s.todo) = {}
        BY <1>5 DEF ToSet
      <4> QED
        BY <1>10, <3>1, <4>1, <4>2
    <3> QED
      BY <3>1 DEF Names
  <2>3. Due(s, e)
    BY <1>3, <1>5, <2>1, <2>2 DEF Due, Found
  <2>4. Looked(s, e)
    BY <1>3, <1>5, <1>8, <1>10 DEF Looked
  <2>5. RoomInv(Install(s, e), cache, spoilt) /\ Install(s, e).pc \in Installs
    BY <1>5, <1>6, <2>3, <2>4, InstallKeeps
  <2>6. Step(r, Install(s, e))
    BY <1>4, <1>10
  <2> QED
    BY <1>2, <1>5, <2>5, <2>6, InstallsOn DEF o, Installs
<1> QED
  BY <1>9, <1>10

\* Util::download fails.
LEMMA DownloadFailsKeeps ==
    ASSUME IInv, NEW r \in Rooms, DownloadFails(r), UNCHANGED call PROVE IInv'
<1> DEFINE s == room[r]
           t == GivesUp(s, s.want)
<1>1. RoomInv(s, cache, spoilt) /\ s.pc = "download" /\ s \in RoomType
  BY DEF IInv, RoomInv, DownloadFails, At
<1>2. s.want \in Entry /\ Remaining(s) /\ GivenIsListed(s)
  BY <1>1 DEF RoomInv, WantKnown, Wants
<1>3. RoomInv(t, cache, spoilt) /\ t.pc = "install"
  BY <1>1, <1>2, GivesUpKeeps DEF Installs
<1>4. Step(r, t)
  BY DEF DownloadFails
<1> HIDE DEF t
<1> QED
  BY <1>1, <1>3, <1>4, InstallsOn DEF Installs

\* A room of which only the place changes, between two steps of an installation.
LEMMA PlaceKeeps ==
    ASSUME NEW s, NEW c, NEW sp, NEW c2, NEW sp2, RoomInv(s, c, sp), s.pc \in Wants,
           sp \subseteq sp2, NEW pc \in {"unzip", "copy"}, c2[Dir(s.want)] # Absent
    PROVE  LET t == Moved(s, pc) IN
           RoomInv(t, c2, sp2) /\ t.pc = pc /\ t.want = s.want
<1> DEFINE t == Moved(s, pc)
<1>1. s \in RoomType
  BY DEF RoomInv
<1>2. /\ t \in RoomType /\ t.pc = pc /\ t.list = s.list
      /\ t.given = s.given /\ t.catalogue = s.catalogue
      /\ t.files = s.files /\ t.todo = s.todo /\ t.left = s.left /\ t.want = s.want
      /\ t.plugin = s.plugin /\ t.failed = s.failed
  BY <1>1 DEF RoomType, Moved
<1> HIDE DEF t
<1>3. GivenIsListed(t) /\ FilesComplete(t, sp2) /\ Remaining(t)
  BY <1>2 DEF RoomInv, GivenIsListed, FilesComplete, Remaining, Installs, Wants
<1>4. WantKnown(t) /\ CacheKnown(t, c2)
  BY <1>2 DEF RoomInv, WantKnown, CacheKnown, Found
<1>5. ASSUME ~s.failed
      PROVE  InstalledIsAsked(t, sp2) /\ ListedIsInstalled(t) /\ MandatoryIsInstalled(t)
  <2>1. InstalledIsAsked(s, sp) /\ ListedIsInstalled(s) /\ MandatoryIsInstalled(s)
    BY <1>5 DEF RoomInv, Equipped, Wants
  <2>2. \A p : Busy(s, p) <=> Busy(t, p)
    BY <1>2 DEF Busy, Wants
  <2>3. InstalledIsAsked(t, sp2)
    BY <1>2, <2>1, <2>2, StaysAsAsked
  <2>4. ListedIsInstalled(t)
    BY <1>2, <2>1 DEF ListedIsInstalled, Found
  <2>5. MandatoryIsInstalled(t)
    BY <1>2, <2>1, <2>2 DEF MandatoryIsInstalled
  <2> QED
    BY <2>3, <2>4, <2>5
<1>6. Equipped(t, sp2)
  BY <1>2, <1>5 DEF Equipped
<1> QED
  BY <1>2, <1>3, <1>4, <1>6 DEF RoomInv, t

\* The archive is there: its directory was absent until now, and is incomplete.
LEMMA DownloadKeeps ==
    ASSUME IInv, NEW r \in Rooms, Download(r), UNCHANGED call PROVE IInv'
<1> DEFINE s == room[r]
           d == Dir(s.want)
           t == Moved(s, "unzip")
<1>1. RoomInv(s, cache, spoilt) /\ s.pc = "download"
  BY DEF IInv, Download, At
<1>2. d \in Dirs
  <2>1. s.want \in Entry /\ s.want.version # ""
    BY <1>1 DEF RoomInv, WantKnown, Wants, Found
  <2> QED
    BY <2>1, DirFacts
<1>3. up /\ \A q \in Rooms \ {r} : room[q].pc \in {"gone", "ready"}
  BY <1>1, Alone
<1>4. /\ cache' = [cache EXCEPT ![d] = Partial] /\ room' = [room EXCEPT ![r].pc = "unzip"]
      /\ UNCHANGED <<up, coreList, spoilt>>
  BY DEF Download
<1>5. room' = [room EXCEPT ![r] = t]
  BY <1>4 DEF Moved
<1>6. cache \in [Dirs -> Contents] /\ cache'[d] # Absent /\ cache' \in [Dirs -> Contents]
  BY <1>2, <1>4, ContentsAssumption DEF IInv, Globals, Contents
<1>7. RoomInv(t, cache', spoilt') /\ t.pc = "unzip" /\ t.want = s.want
  <2>1. s.pc \in Wants /\ spoilt \subseteq spoilt' /\ cache'[Dir(s.want)] # Absent
    BY <1>1, <1>4, <1>6 DEF Wants
  <2> HIDE DEF s, d
  <2> QED
    BY <1>1, <2>1, PlaceKeeps
<1> HIDE DEF t
<1>8. room'[r] = t
  BY <1>5 DEF IInv
<1>9. CacheSound'
  <2>1. ASSUME NEW c \in Dirs
        PROVE  /\ cache'[c] \in {Absent, Partial, c}
               /\ cache'[c] = Partial =>
                    c \in spoilt' \/ \E q \in Rooms : room'[q].pc = "unzip" /\ Dir(room'[q].want) = c
    <3>1. CASE c = d
      BY <1>4, <1>6, <1>7, <1>8, <3>1
    <3>2. CASE c # d
      <4>1. cache'[c] = cache[c]
        BY <1>4, <1>6, <3>2
      <4>2. \A q \in Rooms : ~At(q, "unzip")
        BY <1>1, <1>3 DEF At
      <4> QED
        BY <1>4, <4>1, <4>2 DEF IInv, CacheSound
    <3> QED
      BY <3>1, <3>2
  <2> QED
    BY <2>1 DEF CacheSound, At
<1>10. Globals'
  BY <1>4, <1>6 DEF IInv, Globals
<1>11. CallInv(call[r], t) /\ call' = [call EXCEPT ![r] = call[r]]
  BY <1>1, <1>7, CallGoesOn DEF IInv, Installs
<1> QED
  BY <1>3, <1>4, <1>5, <1>7, <1>9, <1>10, <1>11, RoomStep

\* The directory is complete, or spoilt.
LEMMA UnzipKeeps ==
    ASSUME IInv, NEW r \in Rooms, Unzip(r), UNCHANGED call PROVE IInv'
<1> DEFINE s == room[r]
           d == Dir(s.want)
           t == Moved(s, "copy")
<1>1. RoomInv(s, cache, spoilt) /\ s.pc = "unzip"
  BY DEF IInv, Unzip, At
<1>2. d \in Dirs /\ cache[d] # Absent
  <2>1. s.want \in Entry /\ s.want.version # "" /\ cache[d] # Absent
    BY <1>1 DEF RoomInv, WantKnown, CacheKnown, Wants, Found
  <2> QED
    BY <2>1, DirFacts
<1>3. up /\ \A q \in Rooms \ {r} : room[q].pc \in {"gone", "ready"}
  BY <1>1, Alone
<1>4. /\ \/ cache' = [cache EXCEPT ![d] = d] /\ spoilt' = spoilt
         \/ spoilt' = spoilt \cup {d} /\ cache' = cache
      /\ room' = [room EXCEPT ![r] = t] /\ UNCHANGED <<up, coreList>>
  BY DEF Unzip, Moved
<1>5. cache \in [Dirs -> Contents] /\ spoilt \subseteq Dirs
  BY DEF IInv, Globals
<1> HIDE DEF s, d
<1>6. /\ cache' \in [Dirs -> Contents] /\ cache'[d] # Absent
      /\ spoilt \subseteq spoilt' /\ spoilt' \subseteq Dirs
      /\ \A c \in Dirs \ {d} : cache'[c] = cache[c]
      /\ cache'[d] = d \/ (d \in spoilt' /\ cache'[d] = cache[d])
  BY <1>2, <1>4, <1>5, ContentsAssumption DEF Contents
<1>7. RoomInv(t, cache', spoilt') /\ t.pc = "copy"
  <2>1. s.pc \in Wants /\ cache'[Dir(s.want)] # Absent
    BY <1>1, <1>6 DEF Wants, d
  <2> QED
    BY <1>1, <1>6, <2>1, PlaceKeeps
<1> HIDE DEF t
<1>8. CacheSound'
  <2>1. ASSUME NEW c \in Dirs
        PROVE  cache'[c] \in {Absent, Partial, c} /\ (cache'[c] = Partial => c \in spoilt')
    <3>0. cache[c] \in {Absent, Partial, c}
      BY DEF IInv, CacheSound
    <3>1. CASE c = d
      BY <1>2, <1>6, <3>0, <3>1, ContentsAssumption
    <3>2. CASE c # d
      <4>1. cache[c] = Partial => c \in spoilt
        BY <1>3, <3>2 DEF IInv, CacheSound, At, d, s
      <4> QED
        BY <1>6, <3>0, <3>2, <4>1
    <3> QED
      BY <3>1, <3>2
  <2> QED
    BY <2>1 DEF CacheSound
<1>9. Globals'
  BY <1>4, <1>6 DEF IInv, Globals
<1>10. CallInv(call[r], t) /\ call' = [call EXCEPT ![r] = call[r]]
  BY <1>1, <1>7, CallGoesOn DEF IInv, Installs, s
<1> QED
  BY <1>3, <1>4, <1>6, <1>7, <1>8, <1>9, <1>10, RoomStep

\* The plugin is copied from the cache, in which the handler is alone.
LEMMA CopyActionKeeps ==
    ASSUME IInv, NEW r \in Rooms, Copy(r), UNCHANGED call PROVE IInv'
<1> DEFINE s == room[r]
           t == Copied(s)
<1>1. RoomInv(s, cache, spoilt) /\ s.pc = "copy"
  BY DEF IInv, Copy, At
<1>2. \A q \in Rooms : ~At(q, "unzip")
  BY <1>1, Alone DEF At
<1>3. \A d \in Dirs : cache[d] \in {Absent, Partial, d} /\ (cache[d] = Partial => d \in spoilt)
  BY <1>2 DEF IInv, CacheSound
<1>4. RoomInv(t, cache, spoilt) /\ t.pc = "install"
  BY <1>1, <1>3, CopyKeeps DEF IInv, Globals
<1>5. Step(r, t)
  BY DEF Copy, Copied
<1> HIDE DEF t
<1> QED
  BY <1>1, <1>4, <1>5, InstallsOn DEF Installs

-----------------------------------------------------------------------------
(* Steps of a call, in a room r. *)

\* A step that only moves the room and changes its call.
LEMMA MoveStep ==
    ASSUME IInv, NEW r \in Rooms, room[r].pc \notin Wants, room[r].pc # "gone",
           room[r].todo = <<>>, room[r].left = {},
           up, \A q \in Rooms \ {r} : room[q].pc \in {"gone", "ready"},
           NEW pc \in {"ready", "results", "core"}, room' = [room EXCEPT ![r] = Moved(room[r], pc)],
           NEW k, call' = [call EXCEPT ![r] = k],
           \A t : t.pc = pc => CallInv(k, t),
           Globals', UNCHANGED <<up, cache, spoilt>>
    PROVE  IInv'
<1> DEFINE t == Moved(room[r], pc)
<1>1. RoomInv(t, cache, spoilt) /\ t.pc = pc
  BY MovesKeeps DEF IInv
<1>2. room' = [room EXCEPT ![r] = t]
  OBVIOUS
<1> HIDE DEF t
<1>3. CallInv(k, t)
  BY <1>1
<1>4. CacheSound'
  <2>1. \A q \in Rooms : ~At(q, "unzip")
    BY DEF At, Wants
  <2>2. \A d \in Dirs : cache[d] \in {Absent, Partial, d} /\ (cache[d] = Partial => d \in spoilt)
    BY <2>1 DEF IInv, CacheSound
  <2> QED
    BY <2>2 DEF CacheSound
<1> QED
  BY <1>1, <1>2, <1>3, <1>4, RoomStep

\* A room in which no installation runs.
LEMMA NotInstalling ==
    ASSUME IInv, NEW r \in Rooms, room[r].pc \in {"ready", "results", "core"}
    PROVE  /\ room[r].pc \notin Wants /\ room[r].pc # "gone"
           /\ room[r].todo = <<>> /\ room[r].left = {}
           /\ Moved(room[r], room[r].pc) = room[r]
           /\ CallInv(call[r], room[r]) /\ call[r] \in CallType
           /\ Globals /\ room = [room EXCEPT ![r] = room[r]]
<1>1. room[r] \in RoomType /\ CallInv(call[r], room[r]) /\ Globals /\ room = [room EXCEPT ![r] = room[r]]
  BY DEF IInv, RoomInv
<1>2. room[r].todo = <<>> /\ room[r].left = {}
  BY DEF IInv, RoomInv, Remaining, Installs
<1>3. Moved(room[r], room[r].pc) = room[r]
  BY <1>1 DEF Moved, RoomType
<1> QED
  BY <1>1, <1>2, <1>3 DEF CallInv, Wants

\* A call begins: it throws, does nothing or runs its plugin.
LEMMA CallBegins ==
    ASSUME IInv, NEW r \in Rooms, CallThrows(r) \/ CallDoesNothing(r) \/ CallRuns(r)
    PROVE  IInv'
<1>1. Free /\ room[r].pc = "ready"
  BY DEF CallThrows, CallDoesNothing, CallRuns, At
<1>2. up /\ \A q \in Rooms \ {r} : room[q].pc \in {"gone", "ready"}
  BY <1>1 DEF Free
<1>3. /\ room[r].pc \notin Wants /\ room[r].pc # "gone"
      /\ room[r].todo = <<>> /\ room[r].left = {}
      /\ room = [room EXCEPT ![r] = Moved(room[r], "ready")] /\ Globals
  BY <1>1, NotInstalling
<1>4. CASE CallThrows(r)
  <2> DEFINE k == [NoCall EXCEPT !.answer = "error"]
  <2>1. \A t : t.pc = "ready" => CallInv(k, t)
    BY DEF CallInv, NoCall, CallType, Installs
  <2>2. call' = [call EXCEPT ![r] = k] /\ UNCHANGED installVars
    BY <1>4 DEF CallThrows
  <2> HIDE DEF k
  <2>3. room' = [room EXCEPT ![r] = Moved(room[r], "ready")] /\ Globals'
    BY <1>3, <2>2 DEF installVars, Globals
  <2> QED
    BY <1>2, <1>3, <2>1, <2>2, <2>3, MoveStep DEF installVars
<1>5. CASE CallDoesNothing(r)
  <2>1. \A t : t.pc = "ready" => CallInv(NoCall, t)
    BY DEF CallInv, NoCall, CallType, Installs
  <2>2. call' = [call EXCEPT ![r] = NoCall] /\ UNCHANGED installVars
    BY <1>5 DEF CallDoesNothing
  <2>3. room' = [room EXCEPT ![r] = Moved(room[r], "ready")] /\ Globals'
    BY <1>3, <2>2 DEF installVars, Globals
  <2> QED
    BY <1>2, <1>3, <2>1, <2>2, <2>3, MoveStep DEF installVars
<1>6. CASE CallRuns(r)
  <2> DEFINE k == [NoCall EXCEPT !.answer = "none", !.open = TRUE]
  <2>1. \A t : t.pc = "results" => CallInv(k, t)
    BY DEF CallInv, NoCall, CallType, Installs
  <2>2. /\ call' = [call EXCEPT ![r] = k] /\ room' = [room EXCEPT ![r].pc = "results"]
        /\ UNCHANGED <<up, coreList, cache, spoilt>>
    BY <1>6 DEF CallRuns
  <2> HIDE DEF k
  <2>3. room' = [room EXCEPT ![r] = Moved(room[r], "results")] /\ Globals'
    BY <1>3, <2>2 DEF Moved, Globals
  <2> QED
    BY <1>2, <1>3, <2>1, <2>2, <2>3, MoveStep
<1> QED
  BY <1>4, <1>5, <1>6

\* The results cannot be read: nothing was patched.
LEMMA ResultsThrowKeeps ==
    ASSUME IInv, NEW r \in Rooms, ResultsThrow(r) PROVE IInv'
<1> DEFINE k == [call[r] EXCEPT !.answer = "error"]
<1>1. room[r].pc = "results"
  BY DEF ResultsThrow, At
<1>2. up /\ \A q \in Rooms \ {r} : room[q].pc \in {"gone", "ready"}
  BY <1>1, Alone
<1>3. /\ room[r].pc \notin Wants /\ room[r].pc # "gone" /\ room[r].todo = <<>>
      /\ room[r].left = {} /\ CallInv(call[r], room[r]) /\ call[r] \in CallType /\ Globals
  BY <1>1, NotInstalling
<1>4. k \in CallType /\ k.answer = "error" /\ k.made = {}
  BY <1>1, <1>3 DEF CallInv, CallType
<1>5. /\ call' = [call EXCEPT ![r] = k] /\ room' = [room EXCEPT ![r] = Moved(room[r], "ready")]
      /\ UNCHANGED <<up, coreList, cache, spoilt>>
  BY DEF ResultsThrow, Answer, Moved
<1> HIDE DEF k
<1>6. \A t : t.pc = "ready" => CallInv(k, t)
  BY <1>4 DEF CallInv
<1>7. Globals'
  BY <1>3, <1>5 DEF Globals
<1> QED
  BY <1>2, <1>3, <1>5, <1>6, <1>7, MoveStep

\* The results are read, and the room is patched.
LEMMA ResultsKeeps ==
    ASSUME IInv, NEW r \in Rooms, Results(r) PROVE IInv'
<1>1. PICK asked \in SUBSET {"room", "core"} :
        /\ call' = [call EXCEPT ![r].asked = asked, ![r].made = asked \cap {"room"},
                                ![r].open = FALSE]
        /\ \/ room' = [room EXCEPT ![r].pc = "core"]
           \/ \E l \in Lists \cup {room[r].list}, catalogue \in SUBSET Plugins :
                room' = [room EXCEPT ![r] = Reinstalled(r, l, catalogue)]
  BY DEF Results
<1> DEFINE k == [call[r] EXCEPT !.asked = asked, !.made = asked \cap {"room"}, !.open = FALSE]
<1>2. room[r].pc = "results" /\ UNCHANGED <<up, coreList, cache, spoilt>>
  BY DEF Results, At
<1>3. up /\ \A q \in Rooms \ {r} : room[q].pc \in {"gone", "ready"}
  BY <1>2, Alone
<1>4. /\ room[r].pc \notin Wants /\ room[r].pc # "gone" /\ room[r].todo = <<>>
      /\ room[r].left = {} /\ CallInv(call[r], room[r]) /\ call[r] \in CallType /\ Globals
  BY <1>2, NotInstalling
<1>5. /\ k \in CallType /\ k.answer = "none" /\ k.asked = asked
      /\ k.made = asked \cap {"room"} /\ ~k.open
  BY <1>2, <1>4 DEF CallInv, CallType
<1>6. call' = [call EXCEPT ![r] = k]
  BY <1>1 DEF IInv
<1> HIDE DEF k
<1>7. Globals'
  BY <1>2, <1>4 DEF Globals
<1>8. \A t : t.pc \in {"core", "install"} => CallInv(k, t)
  BY <1>5 DEF CallInv, Installs
<1>9. CASE room' = [room EXCEPT ![r].pc = "core"]
  <2>1. room' = [room EXCEPT ![r] = Moved(room[r], "core")]
    BY <1>9 DEF Moved
  <2>2. \A t : t.pc = "core" => CallInv(k, t)
    BY <1>8
  <2> QED
    BY <1>2, <1>3, <1>4, <1>6, <1>7, <2>1, <2>2, MoveStep
<1>10. CASE \E l \in Lists \cup {room[r].list}, catalogue \in SUBSET Plugins :
              room' = [room EXCEPT ![r] = Reinstalled(r, l, catalogue)]
  <2>1. PICK l \in Lists \cup {room[r].list}, catalogue \in SUBSET Plugins :
          room' = [room EXCEPT ![r] = Reinstalled(r, l, catalogue)]
    BY <1>10
  <2> DEFINE t == Reinstalled(r, l, catalogue)
  <2>2. l \in Seq(Entry)
    BY ListsAssumption DEF IInv, RoomInv, RoomType
  <2>3. RoomInv(t, cache, spoilt) /\ t.pc = "install"
    BY <2>2, ReinstalledKeeps DEF IInv
  <2> HIDE DEF t
  <2>4. CallInv(k, t) /\ room' = [room EXCEPT ![r] = t] /\ ~At(r, "unzip")
    BY <1>2, <1>8, <2>1, <2>3 DEF At, t
  <2> QED
    BY <1>2, <1>3, <1>6, <2>3, <2>4, QuietStep
<1> QED
  BY <1>1, <1>9, <1>10

\* The installation is over.
LEMMA InstallEndsKeeps ==
    ASSUME IInv, NEW r \in Rooms, InstallEnds(r) PROVE IInv'
<1> DEFINE pc == IF InCall(r) THEN "core" ELSE "ready"
<1>1. room[r].pc = "install" /\ room[r].todo = <<>> /\ room[r].left = {}
  BY DEF InstallEnds, Installed, At
<1>2. up /\ \A q \in Rooms \ {r} : room[q].pc \in {"gone", "ready"}
  BY <1>1, Alone
<1>3. /\ room' = [room EXCEPT ![r] = Moved(room[r], pc)]
      /\ UNCHANGED <<up, coreList, cache, spoilt>>
  BY DEF InstallEnds, Moved
<1>4. \A t : t.pc = pc => CallInv(call[r], t)
  <2>1. CallInv(call[r], room[r])
    BY DEF IInv
  <2> QED
    BY <1>1, <2>1 DEF CallInv, InCall, Installs
<1>5. pc \in {"ready", "results", "core"} /\ room[r].pc \notin Wants /\ room[r].pc # "gone"
  BY <1>1 DEF Wants
<1> HIDE DEF pc
<1>6. Globals'
  BY <1>3 DEF IInv, Globals
<1>7. call' = [call EXCEPT ![r] = call[r]]
  BY DEF InstallEnds, IInv
<1> QED
  BY <1>1, <1>2, <1>3, <1>4, <1>5, <1>6, <1>7, MoveStep

\* The core is patched, and the call answered.
LEMMA PatchCoreKeeps ==
    ASSUME IInv, NEW r \in Rooms, PatchCore(r) PROVE IInv'
<1> DEFINE o == call[r]
<1>1. room[r].pc = "core"
  BY DEF PatchCore, At
<1>2. up /\ \A q \in Rooms \ {r} : room[q].pc \in {"gone", "ready"}
  BY <1>1, Alone
<1>3. /\ room[r].pc \notin Wants /\ room[r].pc # "gone" /\ room[r].todo = <<>>
      /\ room[r].left = {} /\ CallInv(o, room[r]) /\ o \in CallType /\ Globals
  BY <1>1, NotInstalling
<1>4. o.answer = "none" /\ o.made = o.asked \cap {"room"} /\ ~o.open
  BY <1>1, <1>3 DEF CallInv
<1>5. PICK k : /\ call' = [call EXCEPT ![r] = k] /\ k \in CallType
               /\ k.answer \in {"ok", "error"} /\ k.made = k.asked /\ ~k.open
  <2>1. CASE "core" \in o.asked
    <3>0. PICK answer \in {"ok", "error"} :
            call' = [call EXCEPT ![r].made = @ \cup {"core"}, ![r].answer = answer]
      BY <2>1 DEF PatchCore
    <3> DEFINE k == [o EXCEPT !.made = @ \cup {"core"}, !.answer = answer]
    <3>1. /\ k \in CallType /\ k.answer = answer /\ k.asked = o.asked
          /\ k.made = o.made \cup {"core"} /\ k.open = o.open
      BY <1>3 DEF CallType
    <3>2. call' = [call EXCEPT ![r] = k]
      BY <3>0 DEF IInv
    <3>3. o.asked \subseteq {"room", "core"}
      BY <1>3 DEF CallType
    <3> HIDE DEF k
    <3>4. k.made = k.asked
      BY <1>4, <2>1, <3>1, <3>3
    <3> QED
      BY <1>4, <3>1, <3>2, <3>4
  <2>2. CASE "core" \notin o.asked
    <3> DEFINE k == [o EXCEPT !.answer = "ok"]
    <3>1. /\ k \in CallType /\ k.answer = "ok" /\ k.asked = o.asked
          /\ k.made = o.made /\ k.open = o.open
      BY <1>3 DEF CallType
    <3>2. call' = [call EXCEPT ![r] = k]
      BY <2>2 DEF PatchCore, Answer, IInv
    <3>3. o.asked \subseteq {"room", "core"}
      BY <1>3 DEF CallType
    <3> HIDE DEF k
    <3> QED
      BY <1>4, <2>2, <3>1, <3>2, <3>3
  <2> QED
    BY <2>1, <2>2
<1>6. \A t : t.pc = "ready" => CallInv(k, t)
  BY <1>5 DEF CallInv
<1>7. room' = [room EXCEPT ![r] = Moved(room[r], "ready")] /\ UNCHANGED <<up, cache, spoilt>>
  BY DEF PatchCore, Moved
<1>8. Globals'
  <2>1. coreList \in Seq(Entry)
    BY <1>3 DEF Globals
  <2>2. \/ coreList' = coreList
        \/ \E l \in Lists \cup {coreList}, catalogue \in SUBSET Plugins :
              coreList' \in Completed(l, catalogue)
    BY DEF PatchCore, CoreInstalls
  <2>3. \A l \in Lists \cup {coreList} : l \in Seq(Entry)
    BY <2>1, ListsAssumption
  <2>4. coreList' \in Seq(Entry)
    BY <2>1, <2>2, <2>3, CompletedIsList
  <2> QED
    BY <1>3, <1>7, <2>4 DEF Globals
<1> QED
  BY <1>2, <1>3, <1>5, <1>6, <1>7, <1>8, MoveStep

\* The room's patch cannot be carried out: the call ends with the core unpatched.
LEMMA RoomThrowsKeeps ==
    ASSUME IInv, NEW r \in Rooms, RoomThrows(r) PROVE IInv'
<1> DEFINE k == [call[r] EXCEPT !.answer = "error"]
<1>1. room[r].pc = "core"
  BY DEF RoomThrows, At
<1>2. up /\ \A q \in Rooms \ {r} : room[q].pc \in {"gone", "ready"}
  BY <1>1, Alone
<1>3. /\ room[r].pc \notin Wants /\ room[r].pc # "gone" /\ room[r].todo = <<>>
      /\ room[r].left = {} /\ CallInv(call[r], room[r]) /\ call[r] \in CallType /\ Globals
  BY <1>1, NotInstalling
<1>4. k \in CallType /\ k.answer = "error" /\ k.made = k.asked \cap {"room"} /\ ~k.open
  BY <1>1, <1>3 DEF CallInv, CallType
<1>5. /\ call' = [call EXCEPT ![r] = k] /\ room' = [room EXCEPT ![r] = Moved(room[r], "ready")]
      /\ UNCHANGED <<up, coreList, cache, spoilt>>
  BY DEF RoomThrows, Answer, Moved
<1> HIDE DEF k
<1>6. \A t : t.pc = "ready" => CallInv(k, t)
  BY <1>4 DEF CallInv
<1>7. Globals'
  BY <1>3, <1>5 DEF Globals
<1> QED
  BY <1>2, <1>3, <1>5, <1>6, <1>7, MoveStep

\* Plugins cannot be installed during a call: the room counts as failed.
LEMMA CallInstallThrowsKeeps ==
    ASSUME IInv, NEW r \in Rooms, CallInstallThrows(r) PROVE IInv'
<1> DEFINE s == room[r]
           k == [call[r] EXCEPT !.answer = "error"]
           fi == LeftBehind(s)
           t == [s EXCEPT !.pc = "ready", !.todo = <<>>, !.left = {}, !.want = NoEntry,
                          !.failed = TRUE, !.files = fi]
<1>1. /\ RoomInv(s, cache, spoilt) /\ s.pc \in {"install", "copy"} /\ s \in RoomType
      /\ call[r].answer = "none"
  BY DEF IInv, RoomInv, CallInstallThrows, InstallThrows, InCall, At
<1>2. up /\ \A q \in Rooms \ {r} : room[q].pc \in {"gone", "ready"}
  BY <1>1, Alone
<1>3. fi \in [Dirs -> Contents]
  BY <1>1 DEF RoomType, Contents, LeftBehind
<1>4. /\ room' = [room EXCEPT ![r] = t] /\ call' = [call EXCEPT ![r] = k]
      /\ UNCHANGED <<up, coreList, cache, spoilt>>
  <2>1. room'[r] = t
    BY <1>1 DEF CallInstallThrows, IInv, RoomType
  <2>2. room' = [q \in Rooms |-> IF q = r THEN room'[r] ELSE room[q]]
    BY DEF CallInstallThrows, IInv
  <2>3. call' = [call EXCEPT ![r] = k] /\ UNCHANGED <<up, coreList, cache, spoilt>>
    BY DEF CallInstallThrows, Answer, IInv
  <2>4. room = [q \in Rooms |-> room[q]]
    BY DEF IInv
  <2> HIDE DEF t, k
  <2>5. room' = [room EXCEPT ![r] = t]
    BY <2>1, <2>2, <2>4
  <2> QED
    BY <2>3, <2>5
<1> HIDE DEF s, fi
<1>5. /\ t \in RoomType /\ t.pc = "ready" /\ t.todo = <<>> /\ t.left = {} /\ t.failed = TRUE
      /\ t.list = s.list /\ t.given = s.given
  <2>1. /\ t.pc = "ready" /\ t.todo = <<>> /\ t.left = {} /\ t.failed = TRUE
        /\ t.list = s.list /\ t.given = s.given
    BY <1>1 DEF RoomType
  <2>2. <<>> \in Seq(Entry) /\ {} \in SUBSET Mandatory /\ NoEntry \in Entry \cup {NoEntry}
    OBVIOUS
  <2>3. t \in RoomType
    BY <1>1, <1>3, <2>2 DEF RoomType
  <2> QED
    BY <2>1, <2>3
<1> HIDE DEF t
<1>6. RoomInv(t, cache, spoilt)
  <2>1. GivenIsListed(t) /\ FilesComplete(t, spoilt) /\ Equipped(t, spoilt)
    BY <1>1, <1>5 DEF RoomInv, GivenIsListed, FilesComplete, Equipped
  <2>2. WantKnown(t) /\ CacheKnown(t, cache) /\ Remaining(t)
    BY <1>5 DEF WantKnown, CacheKnown, Remaining, Wants, ToSet
  <2> QED
    BY <1>5, <2>1, <2>2 DEF RoomInv
<1>7. CallInv(k, t)
  <2>1. CallInv(call[r], s) /\ call[r] \in CallType
    BY DEF IInv, CallInv, s
  <2>2. k \in CallType /\ k.answer = "error" /\ k.made = k.asked \cap {"room"} /\ ~k.open
    BY <1>1, <2>1 DEF CallInv, CallType
  <2> HIDE DEF k
  <2> QED
    BY <1>5, <2>2 DEF CallInv
<1> QED
  BY <1>1, <1>2, <1>4, <1>6, <1>7, QuietStep DEF At, s

\* The room is erased.
LEMMA LeaveKeeps ==
    ASSUME IInv, NEW r \in Rooms, Leave(r) PROVE IInv'
<1>1. RoomInv(NoRoom, cache, spoilt) /\ CallInv(NoCall, NoRoom)
  BY GoneKeeps
<1>2. up /\ ~At(r, "unzip") /\ \A q \in Rooms \ {r} : room[q].pc \in {"gone", "ready"}
  BY DEF Leave, Free, At
<1>3. /\ room' = [room EXCEPT ![r] = NoRoom] /\ call' = [call EXCEPT ![r] = NoCall]
      /\ UNCHANGED <<up, coreList, cache, spoilt>>
  BY DEF Leave
<1> QED
  BY <1>1, <1>2, <1>3, QuietStep

-----------------------------------------------------------------------------
\* The invariant holds, whatever the catalogues, the rooms and their lists.
THEOREM Invariance == Spec => []IInv
<1>1. Init => IInv
  BY InitKeeps
<1>2. IInv /\ [Next]_vars => IInv'
  <2> SUFFICES ASSUME IInv, [Next]_vars PROVE IInv'
    OBVIOUS
  <2>1. CASE UNCHANGED vars
    <3>1. UNCHANGED <<up, coreList, cache, room, spoilt, call>>
      BY <2>1 DEF vars, installVars
    <3> QED
      BY <3>1 DEF IInv, Globals, OneHandler, CacheSound, At
  <2>2. CASE Start /\ UNCHANGED call
    BY <2>2, StartKeeps
  <2>3. CASE Crash
    BY <2>3, DownKeeps DEF Crash
  <2>4. ASSUME NEW r \in Rooms, Installing(r) PROVE IInv'
    BY <2>4, CreateKeeps, PickEntryKeeps, PickMandatoryKeeps, DownloadFailsKeeps,
       DownloadKeeps, UnzipKeeps, CopyActionKeeps DEF Installing, InstallStep
  <2>5. ASSUME NEW r \in Rooms, CallStep(r) PROVE IInv'
    BY <2>5, CallBegins, ResultsThrowKeeps, ResultsKeeps, RoomThrowsKeeps,
       PatchCoreKeeps DEF CallStep
  <2>6. ASSUME NEW r \in Rooms, InstallEnds(r) \/ CallInstallThrows(r) \/ Leave(r) PROVE IInv'
    BY <2>6, InstallEndsKeeps, CallInstallThrowsKeeps, LeaveKeeps
  <2>7. ASSUME NEW r \in Rooms, CreateThrows(r) \/ AssetsThrow(r) PROVE IInv'
    BY <2>7, DownKeeps DEF CreateThrows, AssetsThrow
  <2> QED
    BY <2>1, <2>2, <2>3, <2>4, <2>5, <2>6, <2>7 DEF Next
<1> QED
  BY <1>1, <1>2, PTL DEF Spec

\* Rooms, their lists and directories, the cache and the calls keep their types
\* (TypeOK).
THEOREM TypeCorrect == Spec => []TypeOK
<1>1. IInv => TypeOK
  <2> SUFFICES ASSUME IInv PROVE TypeOK
    OBVIOUS
  <2>1. \A r \in Rooms : room[r] \in RoomType /\ call[r] \in CallType
    BY DEF IInv, RoomInv, CallInv
  <2> HIDE DEF RoomType
  <2>2. room \in [Rooms -> RoomType] /\ call \in [Rooms -> CallType]
    BY <2>1 DEF IInv
  <2> QED
    BY <2>2 DEF IInv, Globals, TypeOK
<1> QED
  BY <1>1, Invariance, PTL

\* Every room in which no installation failed has the plugins that are listed or
\* mandatory and that the catalogue had, as the list says, and no others
\* (RoomHasItsPlugins), whatever the lists are and whatever a catalogue had.
THEOREM EveryRoomIsEquipped == Spec => []RoomHasItsPlugins
<1>1. IInv => RoomHasItsPlugins
  <2> SUFFICES ASSUME IInv, NEW r \in Rooms, At(r, "ready"), ~room[r].failed, NEW p \in Plugins
               PROVE  IF p \in room[r].catalogue \cap Asked(room[r])
                      THEN AsAsked(room[r], p, spoilt)
                      ELSE room[r].plugin[p].version = ""
    BY DEF RoomHasItsPlugins, AsAsked
  <2> DEFINE s == room[r]
  <2>1. RoomInv(s, cache, spoilt) /\ s.pc = "ready" /\ s \in RoomType
    BY DEF IInv, RoomInv, At
  <2>2. s.todo = <<>> /\ s.left = {} /\ \A q : ~Busy(s, q)
    BY <2>1 DEF RoomInv, Remaining, Installs, Busy, Wants
  <2>3. InstalledIsAsked(s, spoilt) /\ ListedIsInstalled(s) /\ MandatoryIsInstalled(s)
    BY <2>1 DEF RoomInv, Equipped
  <2>4. ASSUME p \in s.catalogue \cap Asked(s) PROVE s.plugin[p].version # ""
    <3>1. CASE p \in Mandatory
      BY <2>2, <2>3, <2>4, <3>1 DEF MandatoryIsInstalled
    <3>2. CASE p \in Names(s.given)
      <4>1. PICK e \in ToSet(s.given) : e.version # "" /\ e.name = p
        BY <3>2 DEF Names
      <4>2. e \in ToSet(s.list) /\ Found(s, e)
        BY <2>1, <2>4, <4>1 DEF RoomInv, GivenIsListed, Found
      <4>3. ToSet(s.todo) = {}
        BY <2>2 DEF ToSet
      <4> QED
        BY <2>3, <4>1, <4>2, <4>3 DEF ListedIsInstalled
    <3> QED
      BY <2>4, <3>1, <3>2 DEF Asked
  <2>5. s.plugin[p].version # "" => p \in s.catalogue \cap Asked(s) /\ AsAsked(s, p, spoilt)
    BY <2>2, <2>3 DEF InstalledIsAsked
  <2> QED
    BY <2>4, <2>5
<1> QED
  BY <1>1, Invariance, PTL

\* A caller that is answered well has its patches made, a library is left open only
\* by a call that patched nothing, and the core is patched last (AnswersAreTrue),
\* wherever the handler of the call throws.
THEOREM CallersAreToldTheTruth == Spec => []AnswersAreTrue
<1>1. IInv => AnswersAreTrue
  <2> SUFFICES ASSUME IInv, NEW r \in Rooms
               PROVE  LET k == call[r] IN
                      /\ k.made \subseteq k.asked
                      /\ k.answer = "ok" => k.made = k.asked /\ ~k.open
                      /\ k.open => k.made = {}
                      /\ "core" \in k.made => k.made = k.asked /\ ~InCall(r)
    BY DEF AnswersAreTrue
  <2>1. CallInv(call[r], room[r])
    BY DEF IInv
  <2>2. call[r].answer \in {"none", "ok", "error"}
    BY <2>1 DEF CallInv, CallType
  <2>3. CASE call[r].answer = "none"
    BY <2>1, <2>3 DEF CallInv, InCall
  <2>4. CASE call[r].answer # "none"
    BY <2>1, <2>2, <2>4 DEF CallInv, InCall
  <2> QED
    BY <2>3, <2>4
<1> QED
  BY <1>1, Invariance, PTL

\* No step takes a complete directory out of the cache (CompleteStays): a download
\* only begins where there is none.
THEOREM TheCacheKeeps == Spec => CompleteStays
<1>1. IInv /\ [Next]_vars => [\A d \in Dirs : cache[d] = d => cache'[d] = d]_vars
  <2> SUFFICES ASSUME IInv, Next, NEW d \in Dirs, cache[d] = d PROVE cache'[d] = d
    OBVIOUS
  <2>1. ASSUME NEW r \in Rooms, Download(r) PROVE cache'[d] = d
    <3>1. CacheKnown(room[r], cache) /\ room[r].pc = "download"
      BY <2>1 DEF IInv, RoomInv, Download, At
    <3>2. Dir(room[r].want) # d
      BY <3>1, ContentsAssumption DEF CacheKnown
    <3> QED
      BY <2>1, <3>2 DEF Download, IInv, Globals
  <2>2. ASSUME NEW r \in Rooms, Unzip(r) PROVE cache'[d] = d
    BY <2>2 DEF Unzip, IInv, Globals
  <2>3. CASE UNCHANGED cache
    BY <2>3
  <2> QED
    BY <2>1, <2>2, <2>3 DEF Next, Start, Crash, Down, Installing, Create, InstallStep, PickEntry,
       PickMandatory, DownloadFails, Copy, Step, CallStep, CallThrows, CallDoesNothing,
       CallRuns, ResultsThrow, Results, RoomThrows, PatchCore, InstallEnds, CallInstallThrows,
       CreateThrows, AssetsThrow, Leave, installVars
<1> QED
  BY <1>1, Invariance, PTL DEF Spec, CompleteStays

-----------------------------------------------------------------------------
(* How far a handler is from its end: running a plugin comes before installing,  *)
(* that before patching the core; an installation has entries of the list and    *)
(* mandatory plugins to look at, and takes each through up to four places.       *)

Phase(s) ==
    CASE s.pc = "results" -> 3
      [] s.pc \in Installs -> 2
      [] s.pc = "core" -> 1
      [] OTHER -> 0

\* What is to be looked at.  A mandatory plugin leaves s.left when it is picked.
ToLookAt(s) ==
    Len(s.todo) + Cardinality(s.left) + (IF s.pc \in Wants /\ s.todo = <<>> THEN 1 ELSE 0)

Turns(s) ==
    4 * ToLookAt(s) + (CASE s.pc = "download" -> 2
                         [] s.pc = "unzip" -> 1
                         [] s.pc = "copy" -> 0
                         [] OTHER -> 3)

\* From the room s to the room t, the handler gets nearer to its end.
Nearer(s, t) ==
    \/ Phase(t) < Phase(s)
    \/ Phase(s) = 2 /\ Phase(t) = 2 /\ Turns(t) < Turns(s)

HandlersAdvance ==
    [][\A r \in Rooms : room[r].pc \notin {"gone", "ready"} =>
          Nearer(room[r], room'[r]) \/ UNCHANGED room[r]]_vars

\* What is to be looked at is a number.
LEMMA ToLookAtIsNat ==
    ASSUME NEW s \in RoomType
    PROVE  /\ Len(s.todo) \in Nat /\ (s.todo = <<>> <=> Len(s.todo) = 0)
           /\ Cardinality(s.left) \in Nat /\ ToLookAt(s) \in Nat
<1>1. s.todo \in Seq(Entry) /\ s.left \subseteq Plugins
  BY PluginsAssumption DEF RoomType
<1>2. Cardinality(s.left) \in Nat
  BY <1>1, PluginsAssumption, FS_Subset, FS_CardinalityType
<1>3. Len(s.todo) \in Nat /\ (s.todo = <<>> <=> Len(s.todo) = 0)
  BY <1>1
<1> QED
  BY <1>2, <1>3 DEF ToLookAt

\* An entry that was looked at, or given up, is never looked at again.
LEMMA ProceedNearer ==
    ASSUME NEW s \in RoomType, NEW t, t.pc = "install", t.left = s.left,
           t.todo = Proceed(s).todo, s.todo = <<>> => s.want \in Entry
    PROVE  Turns(t) = 4 * (IF s.todo = <<>> THEN Cardinality(s.left)
                           ELSE Len(s.todo) - 1 + Cardinality(s.left)) + 3
<1>1. Len(s.todo) \in Nat /\ Cardinality(s.left) \in Nat /\ s.todo \in Seq(Entry)
  BY ToLookAtIsNat DEF RoomType
<1>2. CASE s.todo = <<>>
  <2>1. t.todo = <<>>
    BY <1>2, ProceedFields
  <2> QED
    BY <1>1, <1>2, <2>1 DEF Turns, ToLookAt, Wants
<1>3. CASE s.todo # <<>>
  <2>1. t.todo = Tail(s.todo)
    BY <1>3 DEF Proceed, RoomType
  <2>2. Len(t.todo) = Len(s.todo) - 1
    BY <1>1, <1>3, <2>1
  <2> QED
    BY <1>1, <1>3, <2>2 DEF Turns, ToLookAt, Wants
<1> QED
  BY <1>2, <1>3

\* An entry that Plugin::install is called for.
HasVersion(e) == e \in Entry /\ e.version # ""

\* Plugin::install either goes on to its next place or gives the entry up.
LEMMA InstallNearer ==
    ASSUME NEW s \in RoomType, NEW e, HasVersion(e), s.pc = "install"
    PROVE  LET t == Install(s, e) IN
           /\ t.pc \in Installs
           /\ s.todo = <<>> => Turns(t) \in 0 .. 4 * Cardinality(s.left) + 6
           /\ s.todo # <<>> => Turns(t) \in 0 .. 4 * (Len(s.todo) + Cardinality(s.left)) + 2
<1> DEFINE o == Sought(s, e)
           n == Len(s.todo)
           c == Cardinality(s.left)
           Less(t) == /\ t.pc \in Installs
                      /\ n = 0 => Turns(t) \in 0 .. 4 * c + 6
                      /\ n # 0 => Turns(t) \in 0 .. 4 * (n + c) + 2
<1>1. n \in Nat /\ c \in Nat /\ (s.todo = <<>> <=> n = 0)
  BY ToLookAtIsNat
<1>2. o \in RoomType /\ o.want = e /\ o.pc = "install" /\ o.todo = s.todo /\ o.left = s.left
  BY InstallFields DEF HasVersion
<1>3. Install(s, e) = IF InCache(Dir(e)) THEN [o EXCEPT !.pc = "copy"]
                      ELSE IF Dir(e)[2] \in Offered THEN [o EXCEPT !.pc = "download"]
                      ELSE GivesUp(o, e)
  BY DEF Install, Sought
<1> HIDE DEF o, n, c
<1>4. ASSUME NEW pc \in {"copy", "download"} PROVE Less([o EXCEPT !.pc = pc])
  <2> DEFINE t == [o EXCEPT !.pc = pc]
  <2>1. t.pc = pc /\ t.todo = s.todo /\ t.left = s.left
    BY <1>2 DEF RoomType
  <2> HIDE DEF t
  <2>2. t.pc \in Installs /\ t.pc \in Wants
    BY <2>1 DEF Installs, Wants
  <2>3. ToLookAt(t) = n + c + (IF n = 0 THEN 1 ELSE 0)
    BY <1>1, <2>1, <2>2 DEF ToLookAt, n, c
  <2>4. n = 0 => ToLookAt(t) = c + 1
    BY <1>1, <2>3
  <2>5. n # 0 => ToLookAt(t) = n + c
    BY <1>1, <2>3
  <2>6. Turns(t) = 4 * ToLookAt(t) + 2 \/ Turns(t) = 4 * ToLookAt(t) + 0
    BY <2>1 DEF Turns
  <2>7. n = 0 => Turns(t) \in 0 .. 4 * c + 6
    BY <1>1, <2>4, <2>6
  <2>8. n # 0 => Turns(t) \in 0 .. 4 * (n + c) + 2
    BY <1>1, <2>5, <2>6
  <2> QED
    BY <2>2, <2>7, <2>8 DEF t
<1>5. Less(GivesUp(o, e))
  <2> DEFINE t == GivesUp(o, e)
             m == Proceed(o)
  <2>1. m \in RoomType /\ m.pc = "install" /\ m.left = o.left
    BY <1>2, ProceedFields DEF HasVersion
  <2>2. t.pc = "install" /\ t.left = o.left /\ t.todo = m.todo
    BY <2>1 DEF GivesUp, RoomType
  <2> HIDE DEF t, m
  <2>3. Turns(t) = 4 * (IF n = 0 THEN c ELSE n - 1 + c) + 3
    BY <1>1, <1>2, <2>2, ProceedNearer DEF m, n, c, HasVersion
  <2>4. n = 0 => Turns(t) \in 0 .. 4 * c + 6
    BY <1>1, <2>3
  <2>5. n # 0 => Turns(t) \in 0 .. 4 * (n + c) + 2
    BY <1>1, <2>3
  <2> QED
    BY <2>2, <2>4, <2>5 DEF t, Installs
<1> QED
  BY <1>1, <1>3, <1>4, <1>5 DEF n, c

\* Every step of a handler is one of its own, or the process ends.
LEMMA HandlerSteps ==
    ASSUME IInv, Next, NEW r \in Rooms, room[r].pc \notin {"gone", "ready"}
    PROVE  \/ Down
           \/ \/ InstallStep(r) \/ InstallEnds(r) \/ CallInstallThrows(r)
              \/ ResultsThrow(r) \/ Results(r) \/ RoomThrows(r) \/ PatchCore(r)
<1>1. up /\ \A q \in Rooms \ {r} : room[q].pc \in {"gone", "ready"}
  BY Alone
<1>2. ~Free
  BY DEF Free
<1>3. CASE Start \/ Crash
  BY <1>1, <1>3 DEF Start, Crash
<1>4. ASSUME NEW q \in Rooms,
             \/ Installing(q) \/ InstallEnds(q) \/ CallStep(q)
             \/ CallInstallThrows(q) \/ CreateThrows(q) \/ AssetsThrow(q) \/ Leave(q)
      PROVE  \/ Down
             \/ \/ InstallStep(r) \/ InstallEnds(r) \/ CallInstallThrows(r)
                \/ ResultsThrow(r) \/ Results(r) \/ RoomThrows(r) \/ PatchCore(r)
  <2>1. \/ Down
        \/ \/ InstallStep(q) \/ InstallEnds(q) \/ CallInstallThrows(q)
           \/ ResultsThrow(q) \/ Results(q) \/ RoomThrows(q) \/ PatchCore(q)
    BY <1>2, <1>4 DEF Installing, Create, CallStep, CallThrows, CallDoesNothing, CallRuns,
                      CreateThrows, AssetsThrow, Leave
  <2>2. ~Down => room[q].pc \notin {"gone", "ready"}
    BY <2>1 DEF InstallStep, PickEntry, PickMandatory, DownloadFails, Download, Unzip, Copy,
                InstallEnds, Installed, CallInstallThrows, InstallThrows, ResultsThrow, Results,
                RoomThrows, PatchCore, At
  <2> QED
    BY <1>1, <2>1, <2>2
<1> QED
  BY <1>3, <1>4 DEF Next

\* Every step of an installation leaves less to be done, also where it puts
\* mandatory plugins on the list.
LEMMA InstallStepNearer ==
    ASSUME IInv, NEW r \in Rooms, InstallStep(r)
    PROVE  Nearer(room[r], room'[r])
<1> DEFINE s == room[r]
<1>1. /\ RoomInv(s, cache, spoilt) /\ s \in RoomType /\ room = [q \in Rooms |-> room[q]]
      /\ Len(s.todo) \in Nat /\ (s.todo = <<>> <=> Len(s.todo) = 0)
      /\ Cardinality(s.left) \in Nat
  BY ToLookAtIsNat DEF IInv, RoomInv
<1>2. s.todo \in Seq(Entry)
  BY <1>1 DEF RoomType
<1>3. \A t : Step(r, t) => room'[r] = t
  BY <1>1 DEF Step
<1>4. s.pc \in Installs
  BY DEF InstallStep, PickEntry, PickMandatory, DownloadFails, Download, Unzip, Copy, At, Installs
<1>5. \A t : t.pc \in Installs /\ Turns(t) < Turns(s) => Nearer(s, t)
  BY <1>4 DEF Nearer, Phase, Installs
<1>6. CASE PickEntry(r)
  <2> DEFINE e == Head(s.todo)
  <2>1. s.pc = "install" /\ s.todo # <<>>
    BY <1>6 DEF PickEntry, At
  <2>2. room'[r] = IF Found(s, e) THEN Install(s, e) ELSE Proceed(s)
    BY <1>3, <1>6 DEF PickEntry
  <2>3. e \in Entry
    BY <1>1, <2>1, TailFacts DEF RoomType
  <2>4. Turns(s) = 4 * (Len(s.todo) + Cardinality(s.left)) + 3
    BY <1>1, <2>1 DEF Turns, ToLookAt, Wants
  <2> HIDE DEF s, e
  <2>5. CASE Found(s, e)
    <3>1. /\ Install(s, e).pc \in Installs
          /\ Turns(Install(s, e)) \in 0 .. 4 * (Len(s.todo) + Cardinality(s.left)) + 2
      BY <1>1, <2>1, <2>3, <2>5, InstallNearer DEF HasVersion, Found
    <3>2. Turns(Install(s, e)) < Turns(s)
      BY <1>1, <2>4, <3>1
    <3> QED
      BY <1>5, <2>2, <2>5, <3>1, <3>2 DEF s
  <2>6. CASE ~Found(s, e)
    <3>1. Proceed(s).pc = "install" /\ Proceed(s).left = s.left
      BY <1>1, <2>1, ProceedFields
    <3>2. Turns(Proceed(s)) = 4 * (Len(s.todo) - 1 + Cardinality(s.left)) + 3
      BY <1>1, <2>1, <3>1, ProceedNearer
    <3>3. Turns(Proceed(s)) < Turns(s)
      BY <1>1, <2>4, <3>2
    <3> QED
      BY <1>5, <2>2, <2>6, <3>1, <3>3 DEF s, Installs
  <2> QED
    BY <2>5, <2>6
<1>7. CASE PickMandatory(r)
  <2>1. s.pc = "install" /\ s.todo = <<>>
    BY <1>7 DEF PickMandatory, At
  <2>2. PICK p \in s.left :
          LET u == [s EXCEPT !.left = @ \ {p}] IN
          Step(r, IF u.plugin[p].version = ""
                  THEN Install(u, [name |-> p, version |-> "latest"]) ELSE u)
    BY <1>7 DEF PickMandatory
  <2> DEFINE rest == s.left \ {p}
             u == [s EXCEPT !.left = rest]
             e == [name |-> p, version |-> "latest"]
  <2>3. room'[r] = u \/ room'[r] = Install(u, e)
    BY <1>3, <2>2
  <2>4. /\ Cardinality(rest) = Cardinality(s.left) - 1 /\ Cardinality(rest) \in Nat
        /\ p \in Plugins
    <3>1. s.left \subseteq Plugins
      BY <1>1, PluginsAssumption DEF RoomType
    <3>2. IsFiniteSet(s.left)
      BY <3>1, PluginsAssumption, FS_Subset
    <3>3. Cardinality(rest) = Cardinality(s.left) - 1
      BY <3>2, FS_RemoveElement
    <3>4. Cardinality(rest) \in Nat
      BY <3>2, FS_Subset, FS_CardinalityType
    <3> QED
      BY <3>1, <3>3, <3>4
  <2>5. /\ u \in RoomType /\ u.pc = "install" /\ u.todo = <<>> /\ u.left = rest
        /\ e \in Entry /\ e.version = "latest"
    BY <1>1, <2>1, <2>4 DEF RoomType, Entry
  <2>6. Turns(s) = 4 * Cardinality(s.left) + 3
    BY <1>1, <2>1 DEF Turns, ToLookAt, Wants
  <2> HIDE DEF s, rest, u, e
  <2>7. CASE room'[r] = u
    <3>1. Turns(u) = 4 * Cardinality(rest) + 3
      BY <2>4, <2>5 DEF Turns, ToLookAt, Wants
    <3>2. Turns(u) < Turns(s)
      BY <1>1, <2>4, <2>6, <3>1
    <3> QED
      BY <1>5, <2>5, <2>7, <3>2 DEF s, Installs
  <2>8. CASE room'[r] = Install(u, e)
    <3>1. /\ Install(u, e).pc \in Installs
          /\ Turns(Install(u, e)) \in 0 .. 4 * Cardinality(rest) + 6
      BY <2>5, InstallNearer DEF HasVersion
    <3>2. Turns(Install(u, e)) < Turns(s)
      BY <1>1, <2>4, <2>6, <3>1
    <3> QED
      BY <1>5, <2>8, <3>1, <3>2 DEF s
  <2> QED
    BY <2>3, <2>7, <2>8
<1>8. CASE DownloadFails(r) \/ Copy(r)
  <2>1. s.pc \in Wants /\ s.pc # "unzip" /\ s.want \in Entry
    BY <1>1, <1>8 DEF DownloadFails, Copy, At, RoomInv, WantKnown, Wants
  <2> DEFINE t == room'[r]
             m == Proceed(s)
  <2>2. m \in RoomType /\ m.pc = "install" /\ m.left = s.left
    BY <1>1, <2>1, ProceedFields
  <2>3. t.pc = "install" /\ t.left = s.left /\ t.todo = m.todo
    <3>1. CASE DownloadFails(r)
      <4>1. t = GivesUp(s, s.want)
        BY <1>3, <3>1 DEF DownloadFails
      <4> QED
        BY <2>2, <4>1 DEF GivesUp, RoomType
    <3>2. CASE Copy(r)
      <4>1. t = Copied(s)
        BY <1>3, <3>2 DEF Copy, Copied
      <4> QED
        BY <2>2, <4>1 DEF Copied, RoomType
    <3> QED
      BY <1>8, <3>1, <3>2
  <2> HIDE DEF s, t, m
  <2>4. Turns(t) = 4 * (IF s.todo = <<>> THEN Cardinality(s.left)
                        ELSE Len(s.todo) - 1 + Cardinality(s.left)) + 3
    BY <1>1, <2>1, <2>3, ProceedNearer DEF m
  <2>5. ToLookAt(s) = Len(s.todo) + Cardinality(s.left) + (IF s.todo = <<>> THEN 1 ELSE 0)
    BY <2>1 DEF ToLookAt
  <2>6. Turns(s) = 4 * ToLookAt(s) + 2 \/ Turns(s) = 4 * ToLookAt(s) + 0
    BY <2>1 DEF Turns, Wants
  <2>7. Turns(t) < Turns(s)
    <3>1. CASE s.todo = <<>>
      BY <1>1, <2>4, <2>5, <2>6, <3>1
    <3>2. CASE s.todo # <<>>
      BY <1>1, <2>4, <2>5, <2>6, <3>2
    <3> QED
      BY <3>1, <3>2
  <2> QED
    BY <1>5, <2>3, <2>7 DEF s, t, Installs
<1>9. CASE Download(r) \/ Unzip(r)
  <2> DEFINE t == room'[r]
  <2>1. /\ t.todo = s.todo /\ t.left = s.left
        /\ \/ s.pc = "download" /\ t.pc = "unzip"
           \/ s.pc = "unzip" /\ t.pc = "copy"
    <3>1. \/ s.pc = "download" /\ room' = [room EXCEPT ![r].pc = "unzip"]
          \/ s.pc = "unzip" /\ room' = [room EXCEPT ![r].pc = "copy"]
      BY <1>9 DEF Download, Unzip, At
    <3>2. \/ s.pc = "download" /\ t = [s EXCEPT !.pc = "unzip"]
          \/ s.pc = "unzip" /\ t = [s EXCEPT !.pc = "copy"]
      BY <1>1, <3>1
    <3> HIDE DEF s, t
    <3> QED
      BY <1>1, <3>2 DEF RoomType
  <2> HIDE DEF s, t
  <2>2. s.pc \in Wants /\ t.pc \in Wants /\ t.pc \in Installs
    BY <2>1 DEF Wants, Installs
  <2>3. ToLookAt(t) = ToLookAt(s) /\ ToLookAt(s) \in Nat
    BY <1>1, <2>1, <2>2, ToLookAtIsNat DEF ToLookAt
  <2>4. Turns(t) < Turns(s)
    BY <2>1, <2>3 DEF Turns
  <2> QED
    BY <1>5, <2>2, <2>4 DEF s, t
<1> QED
  BY <1>6, <1>7, <1>8, <1>9 DEF InstallStep

\* Handlers have no endless loop (HandlersAdvance): each step of a handler has it go
\* on to a later phase or leaves less of the installation, although an installation
\* makes the list longer that it goes through, and no other handler sets it back.
\* So a handler has finitely many steps to its end.
THEOREM HandlersDoAdvance == Spec => HandlersAdvance
<1>1. IInv /\ [Next]_vars =>
         [\A r \in Rooms : room[r].pc \notin {"gone", "ready"} =>
            Nearer(room[r], room'[r]) \/ UNCHANGED room[r]]_vars
  <2> SUFFICES ASSUME IInv, Next, NEW r \in Rooms, room[r].pc \notin {"gone", "ready"}
               PROVE  Nearer(room[r], room'[r])
    OBVIOUS
  <2> DEFINE s == room[r]
             t == room'[r]
  <2>1. s \in RoomType /\ room = [q \in Rooms |-> room[q]]
    BY DEF IInv, RoomInv
  <2>2. Phase(s) \in {1, 2, 3} /\ (s.pc \in Installs <=> Phase(s) = 2)
    <3>1. s.pc \in Installs \cup {"results", "core"}
      BY <2>1 DEF RoomType, Installs
    <3> HIDE DEF s
    <3>2. s.pc \in Installs => Phase(s) = 2
      BY DEF Phase, Installs
    <3>3. s.pc \in {"results", "core"} => Phase(s) \in {1, 3} /\ s.pc \notin Installs
      BY DEF Phase, Installs
    <3> QED
      BY <3>1, <3>2, <3>3
  <2>3. CASE Down
    <3>1. t.pc = "gone"
      BY <2>3 DEF Down, NoRoom
    <3>2. Phase(t) = 0
      BY <3>1 DEF Phase, Installs
    <3> QED
      BY <2>2, <3>2 DEF Nearer
  <2>4. CASE InstallStep(r)
    BY <2>4, InstallStepNearer
  <2>5. CASE InstallEnds(r) \/ CallInstallThrows(r)
    <3>1. s.pc \in Installs /\ t.pc \in {"ready", "core"}
      <4>1. CASE InstallEnds(r)
        BY <2>1, <4>1 DEF InstallEnds, Installed, At, Installs, RoomType
      <4>2. CASE CallInstallThrows(r)
        BY <2>1, <4>2 DEF CallInstallThrows, InstallThrows, At, Installs, RoomType
      <4> QED
        BY <2>5, <4>1, <4>2
    <3>2. Phase(s) = 2 /\ Phase(t) \in {0, 1}
      BY <3>1 DEF Phase, Installs
    <3> QED
      BY <3>2 DEF Nearer
  <2>6. CASE ResultsThrow(r) \/ Results(r)
    <3>1. s.pc = "results" /\ t.pc \in {"ready", "core", "install"}
      <4>1. s.pc = "results"
        BY <2>6 DEF ResultsThrow, Results, At
      <4>2. CASE ResultsThrow(r) \/ room' = [room EXCEPT ![r].pc = "core"]
        BY <2>1, <4>1, <4>2 DEF ResultsThrow, RoomType
      <4>3. ASSUME NEW l, NEW catalogue,
                   room' = [room EXCEPT ![r] = Reinstalled(r, l, catalogue)]
            PROVE  t.pc = "install"
        <5>1. t = Reinstalled(r, l, catalogue)
          BY <2>1, <4>3
        <5> QED
          BY <2>1, <5>1 DEF Reinstalled, RoomType
      <4> QED
        BY <2>6, <4>1, <4>2, <4>3 DEF Results
    <3>2. Phase(s) = 3 /\ Phase(t) \in {0, 1, 2}
      BY <3>1 DEF Phase, Installs
    <3> QED
      BY <3>2 DEF Nearer
  <2>7. CASE RoomThrows(r) \/ PatchCore(r)
    <3>1. s.pc = "core" /\ room' = [room EXCEPT ![r].pc = "ready"]
      BY <2>7 DEF RoomThrows, PatchCore, At
    <3>3. t.pc = "ready"
      <4>1. t = [s EXCEPT !.pc = "ready"]
        BY <2>1, <3>1
      <4> QED
        BY <2>1, <4>1 DEF RoomType
    <3>2. Phase(s) = 1 /\ Phase(t) = 0
      BY <3>1, <3>3 DEF Phase, Installs
    <3> QED
      BY <3>2 DEF Nearer
  <2> QED
    BY <2>3, <2>4, <2>5, <2>6, <2>7, HandlerSteps
<1> QED
  BY <1>1, Invariance, PTL DEF Spec, HandlersAdvance

================================================================================
