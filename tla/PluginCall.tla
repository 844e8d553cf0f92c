----------------------------- MODULE PluginCall -----------------------------
(***************************************************************************)
(* API calls of rooms with the plugins that PluginInstall gives them: a call *)
(* opens the plugin's library, runs it, reads what it returns, patches the   *)
(* room (which may install plugins) and then the core, and answers.  An       *)
(* exception during a call is caught and answered with an error, one during  *)
(* the making of a room ends the process.  Which clients hear of a call is in *)
(* module Room.                                                               *)
(* A definition Name_How is Name with a fault in it; it is no part of the    *)
(* specification and only tests the properties.                              *)
(***************************************************************************)
EXTENDS PluginInstall

CONSTANT MaxEntries   \* bound: length of a room's list when it installs again

ASSUME MaxEntriesAssumption == MaxEntries \in Nat

VARIABLE call   \* the last call in each room

vars == <<installVars, call>>

\* A call: its answer ("none" until it is given), the patches its plugin asks
\* for, those that were made, and whether its library is open.
NoCall == [answer |-> "ok", asked |-> {}, made |-> {}, open |-> FALSE]

Init == InstallInit /\ call = [r \in Rooms |-> NoCall]

InCall(r) == call[r].answer = "none"

\* The handler of the call leaves it, with an answer.
Answer(r, answer) == call' = [call EXCEPT ![r].answer = answer]

-----------------------------------------------------------------------------
(* Plugin::pluginProcess and functionCall *)

\* The parameters or the name of the plugin are wrong: at() or parse() throws.
CallThrows(r) ==
    /\ Free /\ At(r, "ready")
    /\ call' = [call EXCEPT ![r] = [NoCall EXCEPT !.answer = "error"]]
    /\ UNCHANGED installVars

\* There is no library, or it cannot be loaded or lacks a function: the call does
\* nothing, and that is not an error.
CallDoesNothing(r) ==
    /\ Free /\ At(r, "ready") /\ room[r].catalogue # {}
    /\ call' = [call EXCEPT ![r] = NoCall]
    /\ UNCHANGED installVars

HasLibrary(r, p) ==
    /\ room[r].plugin[p].dir # NoDir
    /\ room[r].files[room[r].plugin[p].dir] # Absent

\* The library is opened, and the plugin runs.
CallRuns(r) ==
    /\ Free /\ At(r, "ready")
    /\ \E p \in room[r].catalogue : HasLibrary(r, p)
    /\ call' = [call EXCEPT ![r] = [NoCall EXCEPT !.answer = "none", !.open = TRUE]]
    /\ room' = [room EXCEPT ![r].pc = "results"]
    /\ UNCHANGED <<up, coreList, cache, spoilt>>

\* parse() throws on one of the strings the plugin returned, before any patch is
\* made and before deallocate and dlclose.
ResultsThrow(r) ==
    /\ At(r, "results")
    /\ Answer(r, "error")
    /\ room' = [room EXCEPT ![r].pc = "ready"]
    /\ UNCHANGED <<up, coreList, cache, spoilt>>

\* The results are read, the library is closed, and the room is patched first; the
\* patch of the core that a call over a websocket returns is dropped, as if it were
\* not asked for.  The patch of the room may ask for plugins to be installed again,
\* with another list.
Results_CoreFirst(r) ==
    /\ At(r, "results")
    /\ \E asked \in SUBSET {"room", "core"} :
         /\ call' = [call EXCEPT ![r].asked = asked, ![r].made = asked,
                                 ![r].open = FALSE]
         /\ \/ room' = [room EXCEPT ![r].pc = "core"]
            \/ /\ "room" \in asked
               /\ \E l \in Lists \cup {room[r].list}, catalogue \in SUBSET Plugins :
                    /\ Len(l) <= MaxEntries
                    /\ room' = [room EXCEPT ![r] = Reinstalled(r, l, catalogue)]
    /\ UNCHANGED <<up, coreList, cache, spoilt>>
Results(r) ==
    /\ At(r, "results")
    /\ \E asked \in SUBSET {"room", "core"} :
         /\ call' = [call EXCEPT ![r].asked = asked, ![r].made = asked \cap {"room"},
                                 ![r].open = FALSE]
         /\ \/ room' = [room EXCEPT ![r].pc = "core"]
            \/ /\ "room" \in asked
               /\ \E l \in Lists \cup {room[r].list}, catalogue \in SUBSET Plugins :
                    /\ Len(l) <= MaxEntries
                    /\ room' = [room EXCEPT ![r] = Reinstalled(r, l, catalogue)]
    /\ UNCHANGED <<up, coreList, cache, spoilt>>

\* The room's installation is over: a new room is ready, a call goes on.
InstallEnds(r) ==
    /\ Installed(r)
    /\ room' = [room EXCEPT ![r].pc = IF InCall(r) THEN "core" ELSE "ready"]
    /\ UNCHANGED <<up, coreList, cache, spoilt, call>>

\* Room::applyCurrentConfig throws although nothing failed to install: a directory
\* or a setting is not as it should be, before the installation or in
\* Room::shutdown.  The room was patched, the core is not.
RoomThrows(r) ==
    /\ At(r, "core") /\ "room" \in call[r].asked
    /\ Answer(r, "error")
    /\ room' = [room EXCEPT ![r].pc = "ready"]
    /\ UNCHANGED <<up, coreList, cache, spoilt>>

\* The core is patched, which may complete its list.  The caller gets its answer:
\* an error if Core::applyCurrentConfig throws, when the core has its patch.
PatchCore(r) ==
    /\ At(r, "core")
    /\ IF "core" \in call[r].asked
       THEN /\ \E answer \in {"ok", "error"} :
                 call' = [call EXCEPT ![r].made = @ \cup {"core"}, ![r].answer = answer]
            /\ \E l \in Lists \cup {coreList} : CoreInstalls(l)
       ELSE Answer(r, "ok") /\ UNCHANGED coreList
    /\ room' = [room EXCEPT ![r].pc = "ready"]
    /\ UNCHANGED <<up, cache, spoilt>>

-----------------------------------------------------------------------------
(* An installation throws: the handler of a call catches the exception, that   *)
(* of a new room does not, and the process ends.                                *)

\* A directory that was being copied is left as it is.
LeftBehind(s) ==
    IF s.pc = "copy" THEN [s.files EXCEPT ![Dir(s.want)] = Partial] ELSE s.files

CallInstallThrows(r) ==
    /\ InstallThrows(r) /\ InCall(r)
    /\ room' = [room EXCEPT ![r].pc = "ready", ![r].todo = <<>>, ![r].left = {},
                            ![r].want = NoEntry, ![r].failed = TRUE,
                            ![r].files = LeftBehind(room[r])]
    /\ Answer(r, "error")
    /\ UNCHANGED <<up, coreList, cache, spoilt>>

AllCallsEnd == call' = [r \in Rooms |-> NoCall]

CreateThrows(r) == InstallThrows(r) /\ ~InCall(r) /\ Down /\ AllCallsEnd

Crash == up /\ Down /\ AllCallsEnd

\* A file of the plugin "assets" is asked for, which the catalogue did not have:
\* at() throws outside the try block.
AssetsThrow(r) ==
    /\ Free /\ At(r, "ready") /\ Assets \notin room[r].catalogue
    /\ Down
    /\ AllCallsEnd

\* The room was shut down and core erased it (module Rooms).
Leave(r) ==
    /\ Free /\ At(r, "ready")
    /\ room' = [room EXCEPT ![r] = NoRoom]
    /\ call' = [call EXCEPT ![r] = NoCall]
    /\ UNCHANGED <<up, coreList, cache, spoilt>>

-----------------------------------------------------------------------------
Installing(r) == (Create(r) \/ InstallStep(r)) /\ UNCHANGED call
CallStep(r) ==
    \/ CallThrows(r) \/ CallDoesNothing(r) \/ CallRuns(r)
    \/ ResultsThrow(r) \/ Results(r) \/ RoomThrows(r) \/ PatchCore(r)

Next ==
    \/ Start /\ UNCHANGED call
    \/ Crash
    \/ \E r \in Rooms :
         \/ Installing(r) \/ InstallEnds(r) \/ CallStep(r)
         \/ CallInstallThrows(r) \/ CreateThrows(r)
         \/ AssetsThrow(r) \/ Leave(r)

\* A handler that has begun goes on.
Proceeds(r) ==
    \/ InstallStep(r) /\ UNCHANGED call
    \/ InstallEnds(r) \/ ResultsThrow(r) \/ Results(r) \/ PatchCore(r)

Spec == Init /\ [][Next]_vars /\ \A r \in Rooms : WF_vars(Proceeds(r))

-----------------------------------------------------------------------------
RoomType ==
    [pc : {"gone", "ready", "install", "download", "unzip", "copy", "results", "core"},
     list : Seq(Entry), given : Seq(Entry), catalogue : SUBSET Plugins,
     plugin : [Plugins -> [version : Versions \cup {"latest", ""},
                           dir : Dirs \cup {NoDir}]],
     files : [Dirs -> Contents], todo : Seq(Entry), left : SUBSET Mandatory,
     want : Entry \cup {NoEntry}, failed : BOOLEAN]

CallType ==
    [answer : {"none", "ok", "error"}, asked : SUBSET {"room", "core"},
     made : SUBSET {"room", "core"}, open : BOOLEAN]

TypeOK ==
    /\ up \in BOOLEAN
    /\ coreList \in Seq(Entry)
    /\ cache \in [Dirs -> Contents]
    /\ room \in [Rooms -> RoomType]
    /\ spoilt \subseteq Dirs
    /\ call \in [Rooms -> CallType]

\* The plugins a room was asked for, and the entries that ask for a plugin p: those
\* of its list when it began to install, or its newest version if there were none.
Asked(s) == Mandatory \cup Names(s.given)

Wanted(s, p) ==
    LET named == {e \in ToSet(s.given) : e.name = p /\ e.version # ""} IN
    IF named = {} THEN {[name |-> p, version |-> "latest"]} ELSE named

\* Installed as e says, with the files of that version.  (A directory that an
\* unzipping or a copying left incomplete counts as installed for ever after.)
Matches(s, e, sp) ==
    /\ s.plugin[e.name] = [version |-> e.version, dir |-> Dir(e)]
    /\ Dir(e) \notin sp => s.files[Dir(e)] = Dir(e)

\* A room in which no installation failed has, of the plugins in the catalogue,
\* every mandatory and every listed one, in a version that its list named to begin
\* with or else the newest, and that entry is on its list now; it has no other
\* plugin.  The files are complete unless the cache was spoilt.
RoomHasItsPlugins ==
    \A r \in Rooms : At(r, "ready") /\ ~room[r].failed =>
        \A p \in Plugins :
            IF p \in room[r].catalogue \cap Asked(room[r])
            THEN \E e \in Wanted(room[r], p) :
                    e \in ToSet(room[r].list) /\ Matches(room[r], e, spoilt)
            ELSE room[r].plugin[p].version = ""

\* A complete directory in the cache stays, whatever fails or crashes: rooms and
\* later runs of the program need not download it again.
CompleteStays ==
    [][\A d \in Dirs : cache[d] = d => cache'[d] = d]_vars

\* A call that is answered well has made the patches its plugin asked for, and
\* closed the library; only an error leaves it open, and then nothing was patched.
\* The core is patched last: never before the room, never in a call that goes on.
\* An error says no more: the room, or both, may have been patched by then.
AnswersAreTrue ==
    \A r \in Rooms :
        LET k == call[r] IN
        /\ k.made \subseteq k.asked
        /\ k.answer = "ok" => k.made = k.asked /\ ~k.open
        /\ k.open => k.made = {}
        /\ "core" \in k.made => k.made = k.asked /\ ~InCall(r)

\* A room is made, and a call answered, unless the process ends.
HandlersEnd ==
    \A r \in Rooms : room[r].pc \notin {"gone", "ready"} ~> room[r].pc \in {"gone", "ready"}

==============================================================================
