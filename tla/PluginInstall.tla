---------------------------- MODULE PluginInstall ----------------------------
(***************************************************************************)
(* How rooms come by their plugins: Room::applyCurrentConfig goes through    *)
(* the list of plugins in its configuration, then through the plugins that   *)
(* are not optional; Plugin::install downloads a version into the cache that *)
(* all rooms and all runs of the program share, and copies it into the room. *)
(* Core only completes its list, from which rooms take theirs.               *)
(*                                                                           *)
(* tmp.zip and the cache have no lock: the module has one thread, on which   *)
(* one room installs at a time.  The process may crash between any two steps *)
(* and is started again.  Module PluginCall completes the specification.     *)
(* A definition Name_How is Name with a fault in it; it is no part of the    *)
(* specification and only tests the properties.                              *)
(***************************************************************************)
EXTENDS Naturals, SequencesExt

CONSTANTS
    Rooms,       \* rooms that may exist at a time
    Plugins,     \* plugins that a list or a catalogue may name
    Mandatory,   \* those that are not optional
    Assets,      \* the plugin that has the files of the front page
    Versions,    \* versions anyone may ask for
    Offered,     \* versions_ in the catalogue
    Newest,      \* versions_.at(0)
    Lists,       \* lists of plugins that users and plugins write
    Absent,      \* no such directory
    Partial,     \* a directory that lacks some of its files
    NoPlugin     \* no plugin

ASSUME PluginsAssumption == IsFiniteSet(Plugins) /\ Mandatory \subseteq Plugins
ASSUME OfferedAssumption == Offered \subseteq Versions /\ Newest \in Offered
ASSUME TagsAssumption == "latest" \notin Versions /\ "" \notin Versions

\* A directory is named for a plugin and a version; complete, it holds the files
\* of that archive.
Dirs == Plugins \X Versions
Contents == Dirs \cup {Absent, Partial}
NoDir == <<>>

Entry == [name : Plugins, version : Versions \cup {"latest", ""}]
NoEntry == [name |-> NoPlugin, version |-> ""]

ASSUME ListsAssumption == Lists \subseteq Seq(Entry)
ASSUME ContentsAssumption == Absent # Partial /\ {Absent, Partial} \cap Dirs = {}

VARIABLES
    up,         \* the process runs
    coreList,   \* config.plugin.installed of the core
    cache,      \* DoppelgangerRootDir/plugin, on disk
    room,       \* the rooms, as far as plugins are concerned
    spoilt      \* history: cache directories whose unzipping was cut short

installVars == <<up, coreList, cache, room, spoilt>>

\* A room: where its handler is ("gone" if there is no room), its
\* config.plugin.installed, that list when the room last began to install
\* (history), the plugins of the catalogue as it was fetched then,
\* installedVersion_ and dir_ of each plugin, dataDir/plugin, the entries and
\* the mandatory plugins left to look at, the entry that is being installed,
\* and (history) whether an installation failed.
NoRoom ==
    [pc |-> "gone", list |-> <<>>, given |-> <<>>, catalogue |-> {},
     plugin |-> [p \in Plugins |-> [version |-> "", dir |-> NoDir]],
     files |-> [d \in Dirs |-> Absent],
     todo |-> <<>>, left |-> {}, want |-> NoEntry, failed |-> FALSE]

InstallInit ==
    /\ up = FALSE
    /\ coreList = <<>>
    /\ cache = [d \in Dirs |-> Absent]
    /\ room = [r \in Rooms |-> NoRoom]
    /\ spoilt = {}

At(r, place) == room[r].pc = place

\* On one thread a handler starts when no other is under way.
Free == up /\ \A r \in Rooms : room[r].pc \in {"gone", "ready"}

\* "latest" is the first version in the catalogue.
Dir(e) == <<e.name, IF e.version = "latest" THEN Newest ELSE e.version>>

-----------------------------------------------------------------------------
(* Core::applyCurrentConfig: the mandatory plugins of the catalogue that the    *)
(* list lacks are appended to it, in any order.  The catalogue is what could be *)
(* fetched of those at several URLs, so any of the plugins may be missing.      *)

Names(l) == {e.name : e \in {x \in ToSet(l) : x.version # ""}}

Completed(l, catalogue) ==
    { l \o [i \in DOMAIN order |-> [name |-> order[i], version |-> "latest"]] :
        order \in SetToSeqs((Mandatory \cap catalogue) \ Names(l)) }

\* The program starts with the list of config.json, or a call patches it.
CoreInstalls(l) ==
    \E catalogue \in SUBSET Plugins : coreList' \in Completed(l, catalogue)

Start ==
    /\ ~up
    /\ up' = TRUE
    /\ \E l \in Lists : CoreInstalls(l)
    /\ UNCHANGED <<cache, room, spoilt>>

-----------------------------------------------------------------------------
(* Room::applyCurrentConfig with reInstall set: the plugins are forgotten and  *)
(* made anew from the catalogue.                                               *)

Reinstalled(r, l, catalogue) ==
    [room[r] EXCEPT !.pc = "install", !.list = l, !.given = l, !.todo = l,
                    !.catalogue = catalogue, !.left = Mandatory \cap catalogue,
                    !.plugin = NoRoom.plugin]

\* onRead makes a room, which inherits the list of the core.
Create(r) ==
    /\ Free
    /\ At(r, "gone")
    /\ \E catalogue \in SUBSET Plugins :
         room' = [room EXCEPT ![r] = Reinstalled(r, coreList, catalogue)]
    /\ UNCHANGED <<up, coreList, cache, spoilt>>

\* The loop over the list goes on; a mandatory plugin is put on the list.
Proceed_ClearsFirst(s) ==
    IF s.todo # <<>>
    THEN [s EXCEPT !.pc = "install", !.want = NoEntry, !.todo = Tail(s.todo)]
    ELSE [s EXCEPT !.pc = "install", !.want = NoEntry, !.list = Append(s.list, NoEntry)]
Proceed(s) ==
    IF s.todo # <<>>
    THEN [s EXCEPT !.pc = "install", !.want = NoEntry, !.todo = Tail(s.todo)]
    ELSE [s EXCEPT !.pc = "install", !.want = NoEntry, !.list = Append(s.list, s.want)]

\* Plugin::install gives up: dir_ is cleared, installedVersion_ stays as it was.
GivesUp(s, e) == [Proceed(s) EXCEPT !.plugin[e.name].dir = NoDir, !.failed = TRUE]

\* Plugin::install up to the first access to the network: a directory in the
\* cache is taken as it is.
InCache_Never(d) == FALSE
InCache(d) == cache[d] # Absent

Install(s, e) ==
    LET t == [s EXCEPT !.want = e, !.plugin[e.name].dir = Dir(e)] IN
    IF InCache(Dir(e)) THEN [t EXCEPT !.pc = "copy"]
    ELSE IF Dir(e)[2] \in Offered THEN [t EXCEPT !.pc = "download"]
    ELSE GivesUp(t, e)

Step(r, s) ==
    /\ room' = [room EXCEPT ![r] = s]
    /\ UNCHANGED <<up, coreList, cache, spoilt>>

\* The next entry of the list; one without a version or not in the catalogue is
\* skipped, and stays on the list.
Found(s, e) == e.name \in s.catalogue /\ e.version # ""

PickEntry_Stays(r) ==
    /\ At(r, "install") /\ room[r].todo # <<>>
    /\ LET e == Head(room[r].todo) IN
         Step(r, IF Found(room[r], e) THEN Install(room[r], e) ELSE room[r])
PickEntry(r) ==
    /\ At(r, "install") /\ room[r].todo # <<>>
    /\ LET e == Head(room[r].todo) IN
         Step(r, IF Found(room[r], e) THEN Install(room[r], e) ELSE Proceed(room[r]))

\* Mandatory plugins that have no version by now are installed too.
PickMandatory_Always(r) ==
    /\ At(r, "install") /\ room[r].todo = <<>>
    /\ \E p \in room[r].left :
         LET s == [room[r] EXCEPT !.left = @ \ {p}] IN
         Step(r, Install(s, [name |-> p, version |-> "latest"]))
PickMandatory(r) ==
    /\ At(r, "install") /\ room[r].todo = <<>>
    /\ \E p \in room[r].left :
         LET s == [room[r] EXCEPT !.left = @ \ {p}] IN
         Step(r, IF s.plugin[p].version = ""
                 THEN Install(s, [name |-> p, version |-> "latest"]) ELSE s)

\* Util::download fails.
DownloadFails(r) ==
    /\ At(r, "download")
    /\ Step(r, GivesUp(room[r], room[r].want))

\* The archive is in tmp.zip, and unzipping it creates the directory.
Download(r) ==
    /\ At(r, "download")
    /\ cache' = [cache EXCEPT ![Dir(room[r].want)] = Partial]
    /\ room' = [room EXCEPT ![r].pc = "unzip"]
    /\ UNCHANGED <<up, coreList, spoilt>>

\* Util::unzip ends; whether it succeeded is not looked at.
Unzip(r) ==
    /\ At(r, "unzip")
    /\ LET d == Dir(room[r].want) IN
         \/ cache' = [cache EXCEPT ![d] = d] /\ UNCHANGED spoilt
         \/ spoilt' = spoilt \cup {d} /\ UNCHANGED cache
    /\ room' = [room EXCEPT ![r].pc = "copy"]
    /\ UNCHANGED <<up, coreList>>

\* The directory is copied unless the room has one, and counts as installed.
Copy(r) ==
    /\ At(r, "copy")
    /\ LET e == room[r].want
           d == Dir(e) IN
         Step(r, [Proceed(room[r]) EXCEPT
                    !.plugin[e.name].version = e.version,
                    !.files[d] = IF @ = Absent THEN cache[d] ELSE @])

\* An exception: between two plugins, of an entry without a name or a plugin
\* without a version, or of fs::copy in the middle of its work.
InstallThrows(r) ==
    \/ At(r, "install")
    \/ At(r, "copy") /\ room[r].files[Dir(room[r].want)] = Absent

\* All plugins were looked at.
Installed(r) == At(r, "install") /\ room[r].todo = <<>> /\ room[r].left = {}

-----------------------------------------------------------------------------
(* The process ends; what is on disk stays.  A directory that was being        *)
(* unzipped is left as it is.                                                   *)
Down ==
    /\ up' = FALSE
    /\ coreList' = <<>>
    /\ room' = [r \in Rooms |-> NoRoom]
    /\ spoilt' = spoilt \cup {Dir(room[r].want) : r \in {x \in Rooms : At(x, "unzip")}}
    /\ UNCHANGED cache

InstallStep(r) ==
    PickEntry(r) \/ PickMandatory(r) \/ DownloadFails(r) \/ Download(r) \/ Unzip(r) \/ Copy(r)

==============================================================================
