-------------------------------- MODULE Core --------------------------------
(***************************************************************************)
(* The life of the process as class Core runs it: setup() merges            *)
(* config.json over the defaults, applies and stores the configuration,     *)
(* run() starts the listener and a browser, plugins patch the configuration *)
(* while the server runs, and shutdown() stores it again when the last room *)
(* is gone.  The process may be interrupted or crash between any two steps   *)
(* and is started again.  Of the configuration the module keeps the sections *)
(* "server" and "browser"; plugin lists are in module PluginInstall, rooms   *)
(* in module Rooms.                                                          *)
(*                                                                           *)
(* Nothing protects Core::config; the module has one thread, on which an     *)
(* API call is one step up to the writing of the file.                       *)
(* A definition Name_How is Name with a fault in it; it is no part of the    *)
(* specification and only tests the properties.                              *)
(***************************************************************************)
EXTENDS Listener

CONSTANTS
    Hosts,       \* names that server.host may have
    Loopback,    \* 127.0.0.1
    Offered,     \* settings that users and plugins choose from
    NoSection,   \* a section that a patch removed
    NoFile,      \* there is no config.json
    Broken       \* config.json is truncated

Types == {"chrome", "firefox", "edge", "safari", "default", "N/A"}
Modes == {"app", "window", "tab", "default"}

\* browser.path is named for what it leads to; "own" is a user's own program.
NoPath == "none"
Paths == {NoPath, "own"} \cup Types

Server == [host : Hosts, protocol : {"http", "https"}]
Browser == [type : Types, mode : Modes, open : BOOLEAN, path : Paths]
Settings == [server : Server, browser : Browser]

ASSUME LoopbackAssumption == Loopback \in Hosts
ASSUME OfferedAssumption ==
    Offered \subseteq Settings /\ \A s \in Offered : s.browser.path \in {NoPath, "own"}
ASSUME NoSectionAssumption == NoSection \notin Browser
ASSUME FileAssumption == NoFile # Broken /\ {NoFile, Broken} \cap Settings = {}

VARIABLES
    machine,    \* what is on the computer: certificate files, known browsers
    file,       \* config.json
    pc,         \* where main() or the handler that shuts the core down is
    ended,      \* why the last process ended
    server,     \* config.server without portUsed
    browser,    \* config.browser
    portUsed,   \* config.server.portUsed: "none", "zero" or "real"
    endpoint,   \* what the listener was made for, and if a certificate is loaded
    patched,    \* history: the sections patched since the start
    proved      \* history: the file has settings with which a start succeeded

coreVars == <<machine, file, pc, ended, server, browser, portUsed, endpoint, patched, proved>>
vars == <<coreVars, listenerVars>>

Sections == {"server", "browser"}

\* Certificate files are there or not, and they can be used or not.
Machines ==
    [certificate : {"none", "good", "bad"}, browsers : SUBSET {"chrome", "firefox"}]
NoEndpoint == [host |-> Loopback, secure |-> FALSE]

DefaultServer == [host |-> Loopback, protocol |-> "http"]
DefaultBrowser == [type |-> "default", mode |-> "default", open |-> TRUE, path |-> NoPath]
Default == [server |-> DefaultServer, browser |-> DefaultBrowser]

Init ==
    /\ machine \in Machines
    /\ file \in Offered \cup {NoFile}
    /\ pc = "down"
    /\ ended = "none"
    /\ server = DefaultServer
    /\ browser = DefaultBrowser
    /\ portUsed = "none"
    /\ endpoint = NoEndpoint
    /\ patched = {}
    /\ proved = FALSE
    /\ ListenerInit

Goto(place) == pc' = place /\ UNCHANGED ended

\* The process ends: an exception that nothing catches, a signal, a crash or
\* io_context::stop().
End(why) ==
    /\ pc' = "down"
    /\ ended' = why
    /\ portUsed' = "none"
    /\ endpoint' = NoEndpoint
    /\ patched' = {}
    /\ Destroy

-----------------------------------------------------------------------------
(* Core::setup *)

\* The defaults, and config.json over them.
Load ==
    /\ pc = "down"
    /\ file # Broken
    /\ pc' = "apply"
    /\ ended' = "none"
    /\ server' = IF file = NoFile THEN DefaultServer ELSE file.server
    /\ browser' = IF file = NoFile THEN DefaultBrowser ELSE file.browser
    /\ UNCHANGED <<machine, file, portUsed, endpoint, patched, proved, listenerVars>>

\* parse() throws on a file that was cut off.
LoadThrows ==
    /\ pc = "down"
    /\ file = Broken
    /\ End("parse")
    /\ UNCHANGED <<machine, file, server, browser, proved>>

\* applyCurrentConfig returns early when the host does not resolve.
ApplyUnresolved ==
    /\ pc = "apply"
    /\ Goto("store")
    /\ UNCHANGED <<machine, file, server, browser, portUsed, endpoint, patched, proved, listenerVars>>

\* https needs certificate files; without them the protocol becomes http.
Protocol_AsAsked(asked) == asked
Protocol(asked) ==
    IF asked = "https" /\ machine.certificate # "none" THEN "https" ELSE "http"

CertificateThrows == server.protocol = "https" /\ machine.certificate = "bad"

\* The listener is made, as far as its constructor comes.
ApplyServer ==
    /\ pc = "apply"
    /\ ~CertificateThrows
    /\ \E stage \in Stages : Construct(stage)
    /\ server' = [server EXCEPT !.protocol = Protocol(server.protocol)]
    /\ portUsed' = IF HasPort' THEN "real" ELSE "zero"
    /\ endpoint' = [host |-> server.host,
                    secure |-> server.protocol = "https" /\ machine.certificate = "good"]
    /\ Goto("store")
    /\ UNCHANGED <<machine, file, browser, patched, proved>>

\* A certificate file cannot be used, or the acceptor could not be opened.
ApplyThrows ==
    /\ pc = "apply"
    /\ \/ CertificateThrows /\ End("certificate")
       \/ ~CertificateThrows /\ End("socket")
    /\ UNCHANGED <<machine, file, server, browser, proved>>

-----------------------------------------------------------------------------
(* Core::storeCurrentConfig, from setup() and from shutdown() *)

\* What is written: the paths of browsers are left out.
Stored_NoOpen(s, b) ==
    [server |-> s, browser |-> [b EXCEPT !.path = NoPath, !.open = TRUE]]
Stored(s, b) ==
    [server |-> s, browser |-> [b EXCEPT !.path = NoPath]]

\* Opening the file for writing empties it.
Truncate ==
    /\ \/ pc = "store" /\ Goto("write")
       \/ pc = "shutdown" /\ Goto("shutdownWrite")
    /\ file' = Broken
    /\ UNCHANGED <<machine, server, browser, portUsed, endpoint, patched, proved, listenerVars>>

\* The file cannot be opened: nothing is written and nobody is told.
TruncateFails ==
    /\ \/ /\ pc = "store" /\ Goto("run")
          /\ UNCHANGED <<portUsed, endpoint, patched, listenerVars>>
       \/ pc = "shutdown" /\ End("unsaved")
    /\ UNCHANGED <<machine, file, server, browser, proved>>

Write ==
    /\ pc = "write"
    /\ file' = Stored(server, browser)
    /\ Goto("run")
    /\ UNCHANGED <<machine, server, browser, portUsed, endpoint, patched, proved, listenerVars>>

-----------------------------------------------------------------------------
(* Core::run *)

\* The URL needs the port, which is missing when the host was not resolved.
RunThrows ==
    /\ pc = "run"
    /\ portUsed = "none"
    /\ End("port")
    /\ UNCHANGED <<machine, file, server, browser, proved>>

Run ==
    /\ pc = "run"
    /\ portUsed # "none"
    /\ DoAccept
    /\ Goto("browser")
    /\ UNCHANGED <<machine, file, server, browser, portUsed, endpoint, patched, proved>>

\* chrome and firefox are looked for, the others have a fixed path, and N/A
\* has the one in the configuration.
FindPath(b) ==
    CASE b.type \in {"chrome", "firefox"} ->
            IF b.type \in machine.browsers THEN b.type ELSE b.path
      [] b.type \in {"edge", "safari", "default"} -> b.type
      [] OTHER -> b.path

\* Modes a browser does not have are replaced.
OpenMode(b) ==
    CASE b.type = "firefox" /\ b.mode = "app" -> "window"
      [] b.type = "safari" /\ b.mode \in {"app", "window"} -> "tab"
      [] b.type \in {"default", "N/A"} -> "default"
      [] OTHER -> b.mode

OpensBrowser == browser.open /\ server.host = Loopback

\* The command needs a path unless the default browser is asked for.
HasCommand == browser.type = "default" \/ FindPath(browser) # NoPath

OpenBrowser ==
    /\ pc = "browser"
    /\ OpensBrowser /\ HasCommand
    /\ browser' = [browser EXCEPT !.path = FindPath(browser), !.mode = OpenMode(browser)]
    /\ proved' = (FindPath(browser) # "own")
    /\ Goto("serving")
    /\ UNCHANGED <<machine, file, server, portUsed, endpoint, patched, listenerVars>>

OpenBrowserThrows ==
    /\ pc = "browser"
    /\ OpensBrowser /\ ~HasCommand
    /\ End("browser")
    /\ UNCHANGED <<machine, file, server, browser, proved>>

OpenNoBrowser ==
    /\ pc = "browser"
    /\ ~OpensBrowser
    /\ proved' = TRUE
    /\ Goto("serving")
    /\ UNCHANGED <<machine, file, server, browser, portUsed, endpoint, patched, listenerVars>>

-----------------------------------------------------------------------------
(* The server runs: calls patch the core's configuration (pluginProcess and  *)
(* applyCurrentConfig), and the call that leaves no active room shuts down.   *)

Patch(section) ==
    /\ pc = "serving"
    /\ \E place \in {"serving", "shutdown"} : Goto(place)
    /\ patched' = patched \cup {section}
    /\ proved' = FALSE
    /\ UNCHANGED <<machine, file, portUsed, endpoint, listenerVars>>

\* The listener stays as it is: "we require reboot".
PatchServer ==
    /\ \E s \in Offered : server' = s.server
    /\ Patch("server")
    /\ UNCHANGED browser

\* A merge_patch sets a section or, being null, removes it.
PatchBrowser ==
    /\ \/ \E s \in Offered : browser' = s.browser
       \/ browser' = NoSection
    /\ Patch("browser")
    /\ UNCHANGED server

\* The last room goes without a patch of these sections.
LastRoomGoes ==
    /\ pc = "serving"
    /\ Goto("shutdown")
    /\ UNCHANGED <<machine, file, server, browser, portUsed, endpoint, patched, proved, listenerVars>>

\* Core::shutdown: the configuration is written and the io_context stopped.
ShutdownWrite_Defaults ==
    /\ pc = "shutdownWrite"
    /\ browser # NoSection
    /\ file' = Default
    /\ End("stopped")
    /\ UNCHANGED <<machine, server, browser, proved>>
ShutdownWrite ==
    /\ pc = "shutdownWrite"
    /\ browser # NoSection
    /\ file' = Stored(server, browser)
    /\ End("stopped")
    /\ UNCHANGED <<machine, server, browser, proved>>

\* A directory cannot be removed or is gone already, or at("browser") throws, when
\* the file is left empty: the call answers with an error, the io_context is not
\* stopped.
ShutdownThrows ==
    /\ \/ pc = "shutdown"
       \/ pc = "shutdownWrite" /\ browser = NoSection
    /\ Goto("serving")
    /\ UNCHANGED <<machine, file, server, browser, portUsed, endpoint, patched, proved, listenerVars>>

\* main: SIGINT and SIGTERM stop the io_context and nothing else.
Signal ==
    /\ pc = "serving"
    /\ End("signal")
    /\ UNCHANGED <<machine, file, server, browser, proved>>

-----------------------------------------------------------------------------
(* Outside the program *)

Crash ==
    /\ pc # "down"
    /\ End("crash")
    /\ UNCHANGED <<machine, file, server, browser, proved>>

\* A user writes or deletes config.json while the program does not run.
Edit ==
    /\ pc = "down"
    /\ file' \in Offered \cup {NoFile}
    /\ ended' = "none"
    /\ proved' = FALSE
    /\ UNCHANGED <<machine, pc, server, browser, portUsed, endpoint, patched, listenerVars>>

\* The listener's handlers run with main() in io_context::run().
Listening ==
    /\ \/ \E c \in Connections : Connect(c)
       \/ /\ pc = "serving"
          /\ \/ \E c \in Connections : OnAccept(c)
             \/ OnAcceptFail
    /\ UNCHANGED coreVars

-----------------------------------------------------------------------------
Setup == Load \/ LoadThrows \/ ApplyUnresolved \/ ApplyServer \/ ApplyThrows
Storing == Truncate \/ TruncateFails \/ Write
Running == RunThrows \/ Run \/ OpenBrowser \/ OpenBrowserThrows \/ OpenNoBrowser
Serving == PatchServer \/ PatchBrowser \/ LastRoomGoes \/ Signal
Shutdown == ShutdownWrite \/ ShutdownThrows

Next == Setup \/ Storing \/ Running \/ Serving \/ Shutdown \/ Crash \/ Edit \/ Listening

\* What main() or a handler has begun goes on, and no connection that can be
\* accepted again and again is passed over for ever.
Progress == ApplyServer \/ Storing \/ Running \/ Shutdown
Accept(c) == pc = "serving" /\ OnAccept(c) /\ UNCHANGED coreVars

Fairness ==
    /\ WF_vars(Progress)
    /\ \A c \in Connections : SF_vars(Accept(c))

Spec == Init /\ [][Next]_vars /\ Fairness

-----------------------------------------------------------------------------
Places ==
    {"down", "apply", "store", "write", "run", "browser", "serving", "shutdown", "shutdownWrite"}

Reasons ==
    {"none", "parse", "certificate", "socket", "port", "browser", "signal", "crash", "unsaved", "stopped"}

TypeOK ==
    /\ machine \in Machines
    /\ file \in Settings \cup {NoFile, Broken}
    /\ pc \in Places
    /\ ended \in Reasons
    /\ server \in Server
    /\ browser \in Browser \cup {NoSection}
    /\ portUsed \in {"none", "zero", "real"}
    /\ endpoint \in [host : Hosts, secure : BOOLEAN]
    /\ patched \subseteq Sections
    /\ proved \in BOOLEAN
    /\ ListenerTypeOK

\* Until a plugin patches the section "server", the URL of the log, of the
\* browser and of every redirection (HTTPSession.cpp:344) leads to the listener:
\* its host, https only with a certificate, and a port if it has one.
AnnouncedIsServed ==
    pc \in {"browser", "serving", "shutdown", "shutdownWrite"} /\ "server" \notin patched =>
        /\ server.host = endpoint.host
        /\ server.protocol = "https" <=> endpoint.secure
        /\ portUsed = "real" <=> HasPort

\* Settings with which the program once came to serve make no later start fail for
\* want of a browser or for the certificate, and config.json is found cut off only
\* if a crash did that, however the program ended in between.  (No promise is made
\* of a browser of the user's own, the path of which storeCurrentConfig erases, of
\* sections that were patched since, nor of a host and a port that cannot be had.)
StartsAgain ==
    proved =>
        /\ ended \notin {"browser", "certificate"}
        /\ pc = "down" /\ file = Broken => ended \in {"crash", "parse"}

\* While the server runs exactly one accept is outstanding, also after errors.
AcceptOutstanding == pc \in {"browser", "serving", "shutdown", "shutdownWrite"} => accepts = 1

\* A client that connects gets a detector unless the process ends, even if
\* accepts fail time and again.
ConnectionsTaken ==
    \A c \in Connections : c \in waiting ~> c \notin waiting

-----------------------------------------------------------------------------
(* The file and the sections in memory are a store of settings: what the      *)
(* last orderly stop wrote is what the next start begins with.                *)

Tidied(s) ==
    { [s EXCEPT !.server.protocol = "http"] } \cup
    (IF s.browser = NoSection THEN {} ELSE { [s EXCEPT !.browser.mode = OpenMode(s.browser)] })

\* Settings without the path of a browser, which is found anew at each start.
Durable(s, b) ==
    [server |-> s, browser |-> IF b = NoSection THEN b ELSE [b EXCEPT !.path = NoPath]]

Store == INSTANCE SettingsStore WITH
    Settings <- [server : Server, browser : Browser \cup {NoSection}],
    phase <- IF pc = "down" THEN IF ended = "stopped" THEN "stopped" ELSE "down"
             ELSE IF pc \in {"serving", "shutdown", "shutdownWrite"} THEN "serving"
             ELSE "starting",
    live <- Durable(server, browser),
    saved <- IF file \in {NoFile, Broken} THEN file ELSE Durable(file.server, file.browser)

\* What the code stores and loads again is one such store.
ImplementsSettingsStore == Store!Spec

==============================================================================
