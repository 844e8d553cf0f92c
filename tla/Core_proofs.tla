----------------------------- MODULE Core_proofs -----------------------------
(***************************************************************************)
(* The life of the process is correct for every set of hosts, connections   *)
(* and offered settings, and implements SettingsStore.  IInv says, for each  *)
(* place of the program, what is known of the sections in memory, the file  *)
(* and the listener.                                                        *)
(***************************************************************************)
EXTENDS Core, TLAPS

Starting == {"apply", "store", "write", "run", "browser"}
ListenerRuns == {"browser", "serving", "shutdown", "shutdownWrite"}

\* Paths that users and plugins write.
UserPaths == {NoPath, "own"}

\* Settings that open a browser have one even when the path is forgotten, and no
\* certificate that cannot be used.
Startable(s, b) ==
    /\ b.open /\ s.host = Loopback =>
          b.type \in {"edge", "safari", "default"} \cup machine.browsers
    /\ s.protocol = "https" => machine.certificate # "bad"

\* No section is missing, and no browser was looked for, before the server runs.
SectionsThere == pc \in Starting => browser \in Browser /\ browser.path \in UserPaths
FilePathIsUsers == file \in Settings => file.browser.path \in UserPaths

EndedOnlyDown == pc # "down" => ended = "none"

\* What is known of the listener, and of the endpoint it was made for.
ListenerKnown ==
    /\ pc \in {"down", "apply"} => portUsed = "none"
    /\ pc \in ListenerRuns => portUsed # "none" /\ accepts = 1
    /\ pc \notin ListenerRuns => accepts = 0
    /\ pc \in Starting \cup {"down"} => patched = {}

EndpointKnown ==
    /\ endpoint.secure => machine.certificate = "good"
    /\ portUsed # "none" /\ "server" \notin patched =>
          /\ server.host = endpoint.host
          /\ server.protocol = "https" <=> endpoint.secure
          /\ portUsed = "real" <=> HasPort

\* The file is cut off while it is written, and after a crash.
FileBeingWritten == pc \in {"write", "shutdownWrite"} => file = Broken

FileWhole ==
    /\ pc \in Starting \ {"write"} => file # Broken
    /\ proved /\ pc \in {"serving", "shutdown"} => file # Broken
    /\ proved /\ pc = "down" /\ file = Broken => ended \in {"crash", "parse"}

\* While the program starts the file, unless it is being written, opens a browser
\* just as the memory does.
FileAsMemory ==
    pc \in Starting /\ file \in Settings =>
        (Startable(file.server, file.browser) <=> Startable(server, browser))

ProvedIsStartable ==
    proved =>
        /\ file \in Settings => Startable(file.server, file.browser)
        /\ pc # "down" => browser \in Browser /\ Startable(server, browser)
        /\ ended \notin {"browser", "certificate"}

IInv ==
    /\ TypeOK
    /\ SectionsThere /\ FilePathIsUsers /\ FileBeingWritten /\ FileWhole
    /\ EndedOnlyDown
    /\ ListenerKnown /\ EndpointKnown
    /\ FileAsMemory /\ ProvedIsStartable

-----------------------------------------------------------------------------
(* The operators of the model. *)

\* What is stored are settings, in which the path of the browser is forgotten.
LEMMA StoredIsSettings ==
    ASSUME NEW s \in Server, NEW b \in Browser
    PROVE  /\ Stored(s, b) \in Settings
           /\ Stored(s, b).browser.path = NoPath
           /\ Startable(Stored(s, b).server, Stored(s, b).browser) <=> Startable(s, b)
<1>1. [b EXCEPT !.path = NoPath] \in Browser
  BY DEF Browser, Paths
<1>2. Stored(s, b).server = s /\ Stored(s, b).browser = [b EXCEPT !.path = NoPath]
  BY DEF Stored
<1>3. Stored(s, b) \in Settings
  BY <1>1 DEF Stored, Settings
<1> QED
  BY <1>1, <1>2, <1>3 DEF Startable, Browser

\* The defaults are settings with which the program starts.
LEMMA DefaultIsSettings ==
    /\ DefaultServer \in Server /\ DefaultBrowser \in Browser
    /\ DefaultBrowser.path = NoPath
    /\ Default \in Settings
    /\ Startable(DefaultServer, DefaultBrowser)
BY LoopbackAssumption
   DEF DefaultServer, DefaultBrowser, Default, Settings, Server, Browser, Types, Modes, Paths, Startable

\* What run() makes of the section "browser" is such a section.
LEMMA OpenedIsBrowser ==
    ASSUME NEW b \in Browser
    PROVE  /\ [b EXCEPT !.path = FindPath(b), !.mode = OpenMode(b)] \in Browser
           /\ [b EXCEPT !.mode = OpenMode(b)] \in Browser
           /\ OpenMode(b) \in Modes
<1>1. FindPath(b) \in Paths
  BY DEF FindPath, Browser, Paths, Types
<1>2. OpenMode(b) \in Modes
  BY DEF OpenMode, Browser, Modes
<1> QED
  BY <1>1, <1>2 DEF Browser

\* Where run() finds no browser the settings are not startable, and where it does
\* they are, unless it is the user's own.
LEMMA CommandNeedsBrowser ==
    ASSUME browser \in Browser, browser.path \in UserPaths, OpensBrowser, ~CertificateThrows,
           machine.browsers \subseteq {"chrome", "firefox"}
    PROVE  /\ ~HasCommand => ~Startable(server, browser)
           /\ HasCommand /\ FindPath(browser) # "own" => Startable(server, browser)
BY DEF HasCommand, OpensBrowser, CertificateThrows, Startable, FindPath, Browser, Types, Paths,
       UserPaths, NoPath

\* The end of the process preserves the invariant if the file it leaves does.
LEMMA EndInv ==
    ASSUME IInv, NEW why \in Reasons, End(why),
           UNCHANGED <<machine, server, browser, proved>>,
           why \in {"browser", "certificate"} => ~proved,
           \/ /\ UNCHANGED file
              /\ proved /\ file = Broken => why \in {"crash", "parse"}
           \/ /\ file' \in Settings
              /\ file'.browser.path \in UserPaths
              /\ proved => Startable(file'.server, file'.browser)
    PROVE  IInv'
<1>1. /\ pc' = "down" /\ ended' = why /\ portUsed' = "none" /\ patched' = {}
      /\ endpoint' = NoEndpoint /\ acceptor' = "none" /\ accepts' = 0 /\ waiting' = {}
  BY DEF End, Destroy
<1>2. TypeOK'
  BY <1>1, LoopbackAssumption
     DEF IInv, TypeOK, NoEndpoint, ListenerTypeOK, Places, Sections
<1>6. FileWhole'
  BY <1>1, FileAssumption DEF FileWhole, Starting
<1>3. SectionsThere' /\ FileBeingWritten' /\ EndedOnlyDown' /\ ListenerKnown' /\ EndpointKnown' /\ FileAsMemory'
  BY <1>1 DEF SectionsThere, FileBeingWritten, EndedOnlyDown, ListenerKnown, EndpointKnown, FileAsMemory,
              Starting, ListenerRuns, NoEndpoint
<1>4. FilePathIsUsers'
  BY DEF IInv, FilePathIsUsers
<1>5. ProvedIsStartable'
  BY <1>1 DEF IInv, ProvedIsStartable, Startable
<1> QED
  BY <1>2, <1>3, <1>4, <1>5, <1>6 DEF IInv

-----------------------------------------------------------------------------
(* The invariant is inductive. *)

\* A computer on which the program never ran satisfies it.
LEMMA InitInv == Init => IInv
<1> SUFFICES ASSUME Init PROVE IInv
  OBVIOUS
<1>1. TypeOK
  <2>1. file \in Settings \cup {NoFile, Broken} /\ server \in Server /\ browser \in Browser
    BY DefaultIsSettings, OfferedAssumption DEF Init
  <2>2. endpoint \in [host : Hosts, secure : BOOLEAN]
    BY LoopbackAssumption DEF Init, NoEndpoint
  <2>3. ListenerTypeOK
    BY DEF Init, ListenerInit, ListenerTypeOK
  <2> QED
    BY <2>1, <2>2, <2>3 DEF Init, TypeOK, Places, Reasons
<1>2. SectionsThere /\ FileBeingWritten /\ EndedOnlyDown /\ ListenerKnown /\ EndpointKnown /\ FileAsMemory
  BY DEF Init, ListenerInit, SectionsThere, FileBeingWritten, EndedOnlyDown, ListenerKnown, EndpointKnown,
         FileAsMemory, Starting, ListenerRuns, NoEndpoint
<1>3. FilePathIsUsers
  BY OfferedAssumption, FileAssumption DEF Init, FilePathIsUsers, UserPaths
<1>4. ProvedIsStartable /\ FileWhole
  BY DEF Init, ProvedIsStartable, FileWhole, Starting
<1> QED
  BY <1>1, <1>2, <1>3, <1>4 DEF IInv

\* setup() preserves it.
LEMMA SetupInv == IInv /\ Setup => IInv'
<1> SUFFICES ASSUME IInv, Setup PROVE IInv'
  OBVIOUS
<1> USE DEF Setup
<1>1. CASE Load
  <2>1. server' \in Server /\ browser' \in Browser /\ browser'.path \in UserPaths
    BY <1>1, DefaultIsSettings, FileAssumption
       DEF Load, IInv, TypeOK, FilePathIsUsers, Settings, UserPaths
  <2>2. TypeOK'
    BY <1>1, <2>1 DEF Load, IInv, TypeOK, listenerVars, ListenerTypeOK, Places, Reasons
  <2>3. SectionsThere' /\ FilePathIsUsers' /\ FileBeingWritten' /\ FileWhole' /\ EndedOnlyDown'
    BY <1>1, <2>1 DEF Load, IInv, SectionsThere, FilePathIsUsers, FileBeingWritten, FileWhole, EndedOnlyDown
  <2>4. ListenerKnown' /\ EndpointKnown'
    BY <1>1 DEF Load, IInv, ListenerKnown, EndpointKnown, listenerVars, Starting, ListenerRuns
  <2>5. FileAsMemory'
    BY <1>1, FileAssumption DEF Load, FileAsMemory, Startable, Settings
  <2>6. ProvedIsStartable'
    <3>1. Startable(server', browser') <=>
            IF file = NoFile THEN Startable(DefaultServer, DefaultBrowser)
            ELSE Startable(file.server, file.browser)
      BY <1>1 DEF Load
    <3>2. UNCHANGED <<machine, file, proved>> /\ ended' = "none"
      BY <1>1 DEF Load
    <3>3. file \in Settings \/ file = NoFile
      BY <1>1 DEF Load, IInv, TypeOK
    <3> QED
      BY <2>1, <3>1, <3>2, <3>3, DefaultIsSettings DEF IInv, ProvedIsStartable, Startable
  <2> QED
    BY <2>2, <2>3, <2>4, <2>5, <2>6 DEF IInv
<1>2. CASE LoadThrows
  BY <1>2, EndInv DEF LoadThrows, Reasons
<1>3. CASE ApplyUnresolved
  <2>1. TypeOK'
    BY <1>3 DEF ApplyUnresolved, Goto, IInv, TypeOK, listenerVars, ListenerTypeOK, Places
  <2>2. SectionsThere' /\ FilePathIsUsers' /\ FileBeingWritten' /\ FileWhole' /\ EndedOnlyDown'
    BY <1>3 DEF ApplyUnresolved, Goto, IInv, SectionsThere, FilePathIsUsers, FileBeingWritten, FileWhole, EndedOnlyDown, Starting
  <2>3. ListenerKnown' /\ EndpointKnown'
    BY <1>3 DEF ApplyUnresolved, Goto, IInv, ListenerKnown, EndpointKnown, listenerVars,
                Starting, ListenerRuns
  <2>4. FileAsMemory' /\ ProvedIsStartable'
    BY <1>3 DEF ApplyUnresolved, Goto, IInv, FileAsMemory, ProvedIsStartable, Startable, Starting
  <2> QED
    BY <2>1, <2>2, <2>3, <2>4 DEF IInv
<1>4. CASE ApplyServer
  <2>1. /\ acceptor' \in Stages
        /\ UNCHANGED <<machine, file, browser, patched, proved, ended, accepts, waiting>>
        /\ pc = "apply" /\ pc' = "store"
        /\ portUsed' = IF HasPort' THEN "real" ELSE "zero"
    BY <1>4 DEF ApplyServer, Construct, Goto
  <2>2. /\ server' \in Server
        /\ server'.host = server.host
        /\ server'.protocol = "https" <=> server.protocol = "https" /\ machine.certificate # "none"
        /\ server.protocol = "https" => machine.certificate # "bad"
    BY <1>4 DEF ApplyServer, CertificateThrows, Protocol, IInv, TypeOK, Server
  <2>3. /\ endpoint' \in [host : Hosts, secure : BOOLEAN]
        /\ endpoint'.host = server.host
        /\ endpoint'.secure <=> server.protocol = "https" /\ machine.certificate = "good"
    BY <1>4 DEF ApplyServer, IInv, TypeOK, Server
  <2>4. TypeOK'
    BY <2>1, <2>2, <2>3 DEF IInv, TypeOK, ListenerTypeOK, Places, HasPort
  <2>5. SectionsThere' /\ FilePathIsUsers' /\ FileBeingWritten' /\ FileWhole' /\ EndedOnlyDown'
    BY <2>1 DEF IInv, SectionsThere, FilePathIsUsers, FileBeingWritten, FileWhole, EndedOnlyDown, Starting
  <2>6. ListenerKnown'
    BY <2>1 DEF IInv, ListenerKnown, Starting, ListenerRuns
  <2>7. EndpointKnown'
    BY <2>1, <2>2, <2>3 DEF IInv, TypeOK, Machines, EndpointKnown, HasPort
  <2>8. FileAsMemory' /\ ProvedIsStartable'
    BY <2>1, <2>2 DEF IInv, FileAsMemory, ProvedIsStartable, Startable, Starting
  <2> QED
    BY <2>4, <2>5, <2>6, <2>7, <2>8 DEF IInv
<1>5. CASE ApplyThrows
  <2>1. file # Broken
    BY <1>5 DEF ApplyThrows, IInv, FileWhole, Starting
  <2>2. CertificateThrows => ~proved
    BY <1>5 DEF ApplyThrows, CertificateThrows, IInv, ProvedIsStartable, Startable
  <2> QED
    BY <1>5, <2>1, <2>2, EndInv DEF ApplyThrows, Reasons
<1> QED
  BY <1>1, <1>2, <1>3, <1>4, <1>5

\* Storing the configuration, at the start or before the end, preserves it.
LEMMA StoringInv == IInv /\ Storing => IInv'
<1> SUFFICES ASSUME IInv, Storing PROVE IInv'
  OBVIOUS
<1> USE DEF Storing
<1>1. CASE Truncate
  <2>1. /\ \/ pc = "store" /\ pc' = "write"
           \/ pc = "shutdown" /\ pc' = "shutdownWrite"
        /\ file' = Broken /\ file' \notin Settings
        /\ UNCHANGED <<machine, ended, server, browser, portUsed, endpoint, patched, proved>>
        /\ UNCHANGED <<acceptor, accepts, waiting>>
    BY <1>1, FileAssumption DEF Truncate, Goto, listenerVars
  <2>2. TypeOK'
    BY <2>1 DEF IInv, TypeOK, ListenerTypeOK, Places
  <2>3. SectionsThere' /\ FilePathIsUsers' /\ FileBeingWritten' /\ FileWhole' /\ EndedOnlyDown'
    BY <2>1 DEF IInv, SectionsThere, FilePathIsUsers, FileBeingWritten, FileWhole, EndedOnlyDown, Starting
  <2>4. ListenerKnown' /\ EndpointKnown'
    BY <2>1 DEF IInv, ListenerKnown, EndpointKnown, Starting, ListenerRuns, HasPort
  <2>5. FileAsMemory' /\ ProvedIsStartable'
    BY <2>1 DEF IInv, FileAsMemory, ProvedIsStartable, Startable
  <2> QED
    BY <2>2, <2>3, <2>4, <2>5 DEF IInv
<1>2. CASE TruncateFails
  <2>1. CASE pc = "shutdown" /\ End("unsaved")
    <3>1. proved => file # Broken
      BY <2>1 DEF IInv, FileWhole
    <3> QED
      BY <1>2, <2>1, <3>1, EndInv DEF TruncateFails, Reasons
  <2>2. CASE pc = "store" /\ Goto("run") /\ UNCHANGED <<portUsed, endpoint, patched, listenerVars>>
    <3>1. /\ pc = "store" /\ pc' = "run"
          /\ UNCHANGED <<machine, file, ended, server, browser, portUsed, endpoint, patched, proved>>
          /\ UNCHANGED <<acceptor, accepts, waiting>>
      BY <1>2, <2>2 DEF TruncateFails, Goto, listenerVars
    <3>2. TypeOK'
      BY <3>1 DEF IInv, TypeOK, ListenerTypeOK, Places
    <3>3. SectionsThere' /\ FilePathIsUsers' /\ FileBeingWritten' /\ FileWhole' /\ EndedOnlyDown'
      BY <3>1 DEF IInv, SectionsThere, FilePathIsUsers, FileBeingWritten, FileWhole, EndedOnlyDown, Starting
    <3>4. ListenerKnown' /\ EndpointKnown'
      BY <3>1 DEF IInv, ListenerKnown, EndpointKnown, Starting, ListenerRuns, HasPort
    <3>5. FileAsMemory' /\ ProvedIsStartable'
      BY <3>1 DEF IInv, FileAsMemory, ProvedIsStartable, Startable, Starting
    <3> QED
      BY <3>2, <3>3, <3>4, <3>5 DEF IInv
  <2> QED
    BY <1>2, <2>1, <2>2 DEF TruncateFails
<1>3. CASE Write
  <2>1. /\ pc = "write" /\ pc' = "run"
        /\ file' = Stored(server, browser)
        /\ UNCHANGED <<machine, ended, server, browser, portUsed, endpoint, patched, proved>>
        /\ UNCHANGED <<acceptor, accepts, waiting>>
    BY <1>3 DEF Write, Goto, listenerVars
  <2>2. server \in Server /\ browser \in Browser
    BY <2>1 DEF IInv, TypeOK, SectionsThere, Starting
  <2>3. /\ file' \in Settings /\ file'.browser.path = NoPath
        /\ Startable(file'.server, file'.browser) <=> Startable(server, browser)
    BY <2>1, <2>2, StoredIsSettings
  <2>4. TypeOK'
    BY <2>1, <2>3 DEF IInv, TypeOK, ListenerTypeOK, Places
  <2>5. SectionsThere' /\ FilePathIsUsers' /\ FileBeingWritten' /\ FileWhole' /\ EndedOnlyDown'
    BY <2>1, <2>3, FileAssumption
       DEF IInv, SectionsThere, FilePathIsUsers, FileBeingWritten, FileWhole, EndedOnlyDown, Starting, UserPaths
  <2>6. ListenerKnown' /\ EndpointKnown'
    BY <2>1 DEF IInv, ListenerKnown, EndpointKnown, Starting, ListenerRuns, HasPort
  <2>7. FileAsMemory' /\ ProvedIsStartable'
    BY <2>1, <2>3 DEF IInv, FileAsMemory, ProvedIsStartable, Startable
  <2> QED
    BY <2>4, <2>5, <2>6, <2>7 DEF IInv
<1> QED
  BY <1>1, <1>2, <1>3

\* run() preserves it.
LEMMA RunningInv == IInv /\ Running => IInv'
<1> SUFFICES ASSUME IInv, Running PROVE IInv'
  OBVIOUS
<1> USE DEF Running
<1>1. CASE RunThrows
  <2>1. file # Broken
    BY <1>1 DEF RunThrows, IInv, FileWhole, Starting
  <2> QED
    BY <1>1, <2>1, EndInv DEF RunThrows, Reasons
<1>2. CASE Run
  <2>1. /\ pc = "run" /\ pc' = "browser"
        /\ portUsed # "none"
        /\ accepts = 0 /\ accepts' = 1
        /\ UNCHANGED <<machine, file, ended, server, browser, portUsed, endpoint, patched, proved>>
        /\ UNCHANGED <<acceptor, waiting>>
    BY <1>2 DEF Run, Goto, DoAccept, IInv, ListenerKnown, ListenerRuns
  <2>2. TypeOK'
    BY <2>1 DEF IInv, TypeOK, ListenerTypeOK, Places
  <2>3. SectionsThere' /\ FilePathIsUsers' /\ FileBeingWritten' /\ FileWhole' /\ EndedOnlyDown'
    BY <2>1 DEF IInv, SectionsThere, FilePathIsUsers, FileBeingWritten, FileWhole, EndedOnlyDown, Starting
  <2>4. ListenerKnown' /\ EndpointKnown'
    BY <2>1 DEF IInv, ListenerKnown, EndpointKnown, Starting, ListenerRuns, HasPort
  <2>5. FileAsMemory' /\ ProvedIsStartable'
    BY <2>1 DEF IInv, FileAsMemory, ProvedIsStartable, Startable, Starting
  <2> QED
    BY <2>2, <2>3, <2>4, <2>5 DEF IInv
<1>3. CASE OpenBrowser
  <2>1. /\ pc = "browser" /\ pc' = "serving"
        /\ OpensBrowser /\ HasCommand
        /\ browser' = [browser EXCEPT !.path = FindPath(browser), !.mode = OpenMode(browser)]
        /\ proved' = (FindPath(browser) # "own")
        /\ UNCHANGED <<machine, file, ended, server, portUsed, endpoint, patched>>
        /\ UNCHANGED <<acceptor, accepts, waiting>>
    BY <1>3 DEF OpenBrowser, Goto, listenerVars
  <2>2. browser \in Browser /\ browser.path \in UserPaths /\ browser' \in Browser
    BY <2>1, OpenedIsBrowser DEF IInv, SectionsThere, Starting
  <2>3. Startable(server', browser') <=> Startable(server, browser)
    <3>1. browser'.type = browser.type /\ browser'.open = browser.open
      BY <2>1, <2>2 DEF Browser
    <3> QED
      BY <2>1, <3>1 DEF Startable
  <2>4. proved' => Startable(server, browser)
    <3>1. ~CertificateThrows
      BY <2>1 DEF IInv, EndpointKnown, ListenerKnown, ListenerRuns, Starting, CertificateThrows
    <3> QED
      BY <2>1, <2>2, <3>1, CommandNeedsBrowser DEF IInv, TypeOK, Machines
  <2>5. TypeOK'
    BY <2>1, <2>2 DEF IInv, TypeOK, ListenerTypeOK, Places
  <2>6. SectionsThere' /\ FilePathIsUsers' /\ FileBeingWritten' /\ FileWhole' /\ EndedOnlyDown'
    BY <2>1 DEF IInv, SectionsThere, FilePathIsUsers, FileBeingWritten, FileWhole, EndedOnlyDown, Starting
  <2>7. ListenerKnown' /\ EndpointKnown'
    BY <2>1 DEF IInv, ListenerKnown, EndpointKnown, Starting, ListenerRuns, HasPort
  <2>8. FileAsMemory'
    BY <2>1 DEF FileAsMemory, Starting
  <2>9. ProvedIsStartable'
    <3>1. proved' /\ file' \in Settings => Startable(file.server, file.browser)'
      BY <2>1, <2>4 DEF IInv, FileAsMemory, Startable, Starting
    <3>2. ended' \notin {"browser", "certificate"}
      BY <2>1 DEF IInv, EndedOnlyDown
    <3> QED
      BY <2>1, <2>2, <2>3, <2>4, <3>1, <3>2 DEF ProvedIsStartable, Startable
  <2> QED
    BY <2>5, <2>6, <2>7, <2>8, <2>9 DEF IInv
<1>4. CASE OpenBrowserThrows
  <2>1. ~Startable(server, browser)
    <3>1. ~CertificateThrows
      BY <1>4 DEF OpenBrowserThrows, IInv, EndpointKnown, ListenerKnown, ListenerRuns, Starting,
                  CertificateThrows
    <3> QED
      BY <1>4, <3>1, CommandNeedsBrowser
         DEF OpenBrowserThrows, IInv, TypeOK, Machines, SectionsThere, Starting
  <2>3. file # Broken
    BY <1>4 DEF OpenBrowserThrows, IInv, FileWhole, Starting
  <2>2. ~proved
    BY <1>4, <2>1 DEF OpenBrowserThrows, IInv, ProvedIsStartable
  <2> QED
    BY <1>4, <2>2, <2>3, EndInv DEF OpenBrowserThrows, Reasons
<1>5. CASE OpenNoBrowser
  <2>1. /\ pc = "browser" /\ pc' = "serving"
        /\ ~OpensBrowser
        /\ UNCHANGED <<machine, file, ended, server, browser, portUsed, endpoint, patched>>
        /\ UNCHANGED <<acceptor, accepts, waiting>>
        /\ proved' = TRUE
    BY <1>5 DEF OpenNoBrowser, Goto, listenerVars
  <2>2. browser \in Browser /\ Startable(server, browser)
    BY <2>1 DEF IInv, SectionsThere, Starting, OpensBrowser, Startable, EndpointKnown,
                ListenerKnown, ListenerRuns
  <2>3. TypeOK'
    BY <2>1 DEF IInv, TypeOK, ListenerTypeOK, Places
  <2>4. SectionsThere' /\ FilePathIsUsers' /\ FileBeingWritten' /\ FileWhole' /\ EndedOnlyDown'
    BY <2>1 DEF IInv, SectionsThere, FilePathIsUsers, FileBeingWritten, FileWhole, EndedOnlyDown, Starting
  <2>5. ListenerKnown' /\ EndpointKnown'
    BY <2>1 DEF IInv, ListenerKnown, EndpointKnown, Starting, ListenerRuns, HasPort
  <2>6. FileAsMemory'
    BY <2>1 DEF FileAsMemory, Starting
  <2>7. ProvedIsStartable'
    BY <2>1, <2>2
       DEF IInv, FileAsMemory, EndedOnlyDown, ProvedIsStartable, Startable, Starting
  <2> QED
    BY <2>3, <2>4, <2>5, <2>6, <2>7 DEF IInv
<1> QED
  BY <1>1, <1>2, <1>3, <1>4, <1>5

\* A patch of one section while the server runs preserves it.
LEMMA PatchInv ==
    ASSUME IInv, NEW section \in Sections, Patch(section),
           server' \in Server, browser' \in Browser \cup {NoSection},
           section = "server" \/ UNCHANGED server
    PROVE  IInv'
<1>1. /\ pc = "serving" /\ pc' \in {"serving", "shutdown"}
      /\ patched' = patched \cup {section}
      /\ proved' = FALSE
      /\ UNCHANGED <<machine, file, ended, portUsed, endpoint>>
      /\ UNCHANGED <<acceptor, accepts, waiting>>
  BY DEF Patch, Goto, listenerVars
<1>2. TypeOK'
  BY <1>1 DEF IInv, TypeOK, ListenerTypeOK, Places
<1>3. SectionsThere' /\ FilePathIsUsers' /\ FileBeingWritten' /\ FileWhole' /\ EndedOnlyDown'
  BY <1>1 DEF IInv, SectionsThere, FilePathIsUsers, FileBeingWritten, FileWhole, EndedOnlyDown, Starting
<1>4. ListenerKnown'
  BY <1>1 DEF IInv, ListenerKnown, Starting, ListenerRuns
<1>5. EndpointKnown'
  BY <1>1 DEF IInv, EndpointKnown, HasPort
<1>6. FileAsMemory' /\ ProvedIsStartable'
  BY <1>1 DEF FileAsMemory, ProvedIsStartable, Starting
<1> QED
  BY <1>2, <1>3, <1>4, <1>5, <1>6 DEF IInv

\* The handlers of the server preserve it.
LEMMA ServingInv == IInv /\ (Serving \/ Shutdown) => IInv'
<1> SUFFICES ASSUME IInv, Serving \/ Shutdown PROVE IInv'
  OBVIOUS
<1> USE DEF Serving, Shutdown
<1>1. CASE PatchServer
  <2>1. server' \in Server /\ browser' \in Browser \cup {NoSection}
    BY <1>1, OfferedAssumption DEF PatchServer, Settings, IInv, TypeOK
  <2> QED
    BY <1>1, <2>1, PatchInv DEF PatchServer, Sections
<1>2. CASE PatchBrowser
  <2>1. server' \in Server /\ browser' \in Browser \cup {NoSection}
    BY <1>2, OfferedAssumption DEF PatchBrowser, Settings, IInv, TypeOK
  <2> QED
    BY <1>2, <2>1, PatchInv DEF PatchBrowser, Sections
<1>3. ASSUME \/ LastRoomGoes
             \/ ShutdownThrows
      PROVE  IInv'
  <2>1. /\ \/ pc = "serving" /\ pc' = "shutdown"
           \/ pc = "shutdown" /\ pc' = "serving"
           \/ pc = "shutdownWrite" /\ pc' = "serving" /\ browser = NoSection
        /\ UNCHANGED <<machine, file, ended, server, browser, portUsed, endpoint, patched, proved>>
        /\ UNCHANGED <<acceptor, accepts, waiting>>
    BY <1>3 DEF LastRoomGoes, ShutdownThrows, Goto, listenerVars
  <2>2. TypeOK'
    BY <2>1 DEF IInv, TypeOK, ListenerTypeOK, Places
  <2>3. SectionsThere' /\ FilePathIsUsers' /\ FileBeingWritten' /\ FileWhole' /\ EndedOnlyDown'
    BY <2>1, NoSectionAssumption
       DEF IInv, SectionsThere, FilePathIsUsers, FileBeingWritten, FileWhole, EndedOnlyDown, Starting,
           ProvedIsStartable
  <2>4. ListenerKnown' /\ EndpointKnown'
    BY <2>1 DEF IInv, ListenerKnown, EndpointKnown, Starting, ListenerRuns, HasPort
  <2>5. FileAsMemory' /\ ProvedIsStartable'
    BY <2>1 DEF IInv, FileAsMemory, ProvedIsStartable, Startable, Starting
  <2> QED
    BY <2>2, <2>3, <2>4, <2>5 DEF IInv
<1>4. CASE Signal
  <2>1. proved => file # Broken
    BY <1>4 DEF Signal, IInv, FileWhole
  <2> QED
    BY <1>4, <2>1, EndInv DEF Signal, Reasons
<1>5. CASE ShutdownWrite
  <2>1. server \in Server /\ browser \in Browser
    BY <1>5 DEF ShutdownWrite, IInv, TypeOK
  <2>2. /\ file' \in Settings /\ file'.browser.path = NoPath
        /\ Startable(file'.server, file'.browser) <=> Startable(server, browser)
    BY <1>5, <2>1, StoredIsSettings DEF ShutdownWrite
  <2>3. proved => Startable(file'.server, file'.browser)
    BY <1>5, <2>2 DEF ShutdownWrite, IInv, ProvedIsStartable
  <2> QED
    BY <1>5, <2>2, <2>3, EndInv DEF ShutdownWrite, Reasons, UserPaths
<1> QED
  BY <1>1, <1>2, <1>3, <1>4, <1>5

\* What happens outside the program, and the accept loop, preserve it.
LEMMA OutsideInv == IInv /\ (Crash \/ Edit \/ Listening) => IInv'
<1> SUFFICES ASSUME IInv, Crash \/ Edit \/ Listening PROVE IInv'
  OBVIOUS
<1>1. CASE Crash
  BY <1>1, EndInv DEF Crash, Reasons
<1>2. CASE Edit
  <2>1. /\ pc = "down" /\ proved' = FALSE /\ ended' = "none"
        /\ file' \in Settings \cup {NoFile}
        /\ file' \in Settings => file'.browser.path \in UserPaths
        /\ UNCHANGED <<machine, pc, server, browser, portUsed, endpoint, patched>>
        /\ UNCHANGED <<acceptor, accepts, waiting>>
    BY <1>2, OfferedAssumption, FileAssumption DEF Edit, listenerVars, UserPaths
  <2>2. TypeOK'
    BY <2>1 DEF IInv, TypeOK, ListenerTypeOK, Reasons
  <2>3. SectionsThere' /\ FilePathIsUsers' /\ FileBeingWritten' /\ FileWhole' /\ EndedOnlyDown'
    BY <2>1 DEF SectionsThere, FilePathIsUsers, FileBeingWritten, FileWhole, EndedOnlyDown, Starting
  <2>4. ListenerKnown' /\ EndpointKnown'
    BY <2>1 DEF IInv, ListenerKnown, EndpointKnown, HasPort
  <2>5. FileAsMemory' /\ ProvedIsStartable'
    BY <2>1 DEF FileAsMemory, ProvedIsStartable, Starting
  <2> QED
    BY <2>2, <2>3, <2>4, <2>5 DEF IInv
<1>3. CASE Listening
  <2>1. /\ UNCHANGED <<machine, file, pc, ended, server, browser, portUsed, endpoint, patched, proved>>
        /\ UNCHANGED acceptor
        /\ waiting' \subseteq Connections
        /\ accepts' = accepts
    <3>1. UNCHANGED coreVars /\ UNCHANGED acceptor
      BY <1>3 DEF Listening, Connect, OnAccept, OnAcceptFail
    <3>2. accepts \in 0..1 /\ waiting \subseteq Connections
      BY DEF IInv, TypeOK, ListenerTypeOK
    <3>3. ASSUME NEW c \in Connections, Connect(c) PROVE waiting' \subseteq Connections /\ accepts' = accepts
      BY <3>2, <3>3 DEF Connect
    <3>4. ASSUME NEW c \in Connections, OnAccept(c) PROVE waiting' \subseteq Connections /\ accepts' = accepts
      BY <3>2, <3>4 DEF OnAccept
    <3>5. ASSUME OnAcceptFail PROVE waiting' \subseteq Connections /\ accepts' = accepts
      BY <3>2, <3>5 DEF OnAcceptFail
    <3> QED
      BY <1>3, <3>1, <3>3, <3>4, <3>5 DEF Listening, coreVars
  <2>2. TypeOK'
    BY <2>1 DEF IInv, TypeOK, ListenerTypeOK
  <2>3. SectionsThere' /\ FilePathIsUsers' /\ FileBeingWritten' /\ FileWhole' /\ EndedOnlyDown'
    BY <2>1 DEF IInv, SectionsThere, FilePathIsUsers, FileBeingWritten, FileWhole, EndedOnlyDown
  <2>4. ListenerKnown' /\ EndpointKnown'
    BY <2>1 DEF IInv, ListenerKnown, EndpointKnown, HasPort
  <2>5. FileAsMemory' /\ ProvedIsStartable'
    BY <2>1 DEF IInv, FileAsMemory, ProvedIsStartable, Startable
  <2> QED
    BY <2>2, <2>3, <2>4, <2>5 DEF IInv
<1> QED
  BY <1>1, <1>2, <1>3

\* Every step preserves the invariant.
LEMMA StepInv == IInv /\ [Next]_vars => IInv'
<1> SUFFICES ASSUME IInv, [Next]_vars PROVE IInv'
  OBVIOUS
<1>1. CASE Next
  BY <1>1, SetupInv, StoringInv, RunningInv, ServingInv, OutsideInv DEF Next
<1>2. CASE UNCHANGED vars
  <2>1. /\ UNCHANGED <<machine, file, pc, ended, server, browser, portUsed, endpoint, patched, proved>>
        /\ UNCHANGED <<acceptor, accepts, waiting>>
    BY <1>2 DEF vars, coreVars, listenerVars
  <2>2. TypeOK'
    BY <2>1 DEF IInv, TypeOK, ListenerTypeOK
  <2>3. SectionsThere' /\ FilePathIsUsers' /\ FileBeingWritten' /\ FileWhole' /\ EndedOnlyDown'
    BY <2>1 DEF IInv, SectionsThere, FilePathIsUsers, FileBeingWritten, FileWhole, EndedOnlyDown
  <2>4. ListenerKnown' /\ EndpointKnown'
    BY <2>1 DEF IInv, ListenerKnown, EndpointKnown, HasPort
  <2>5. FileAsMemory' /\ ProvedIsStartable'
    BY <2>1 DEF IInv, FileAsMemory, ProvedIsStartable, Startable
  <2> QED
    BY <2>2, <2>3, <2>4, <2>5 DEF IInv
<1> QED
  BY <1>1, <1>2

\* IInv is an invariant of the life of the process.
THEOREM Invariance == Spec => []IInv
BY InitInv, StepInv, PTL DEF Spec

-----------------------------------------------------------------------------
(* The properties. *)

\* The state keeps its types, over every restart.
THEOREM TypeCorrect == Spec => []TypeOK
<1>1. IInv => TypeOK
  BY DEF IInv
<1> QED
  BY Invariance, <1>1, PTL

\* What the log, the browser and redirections announce is what the listener
\* serves, until a plugin patches the section "server".
THEOREM AnnouncedTruly == Spec => []AnnouncedIsServed
<1>1. IInv => AnnouncedIsServed
  BY DEF IInv, ListenerKnown, EndpointKnown, AnnouncedIsServed, ListenerRuns
<1> QED
  BY Invariance, <1>1, PTL

\* Settings that the program once served with never stop it for want of a browser or
\* for the certificate, and only a crash cuts config.json off (StartsAgain).
THEOREM ProvedSettingsStart == Spec => []StartsAgain
<1>1. IInv => StartsAgain
  BY DEF IInv, ProvedIsStartable, FileWhole, StartsAgain
<1> QED
  BY Invariance, <1>1, PTL

\* Exactly one accept is outstanding while the listener runs.
THEOREM OneAccept == Spec => []AcceptOutstanding
<1>1. IInv => AcceptOutstanding
  BY DEF IInv, ListenerKnown, AcceptOutstanding, ListenerRuns
<1> QED
  BY Invariance, <1>1, PTL

-----------------------------------------------------------------------------
(* Core implements SettingsStore, step by step. *)

Live == Durable(server, browser)
Saved == IF file \in {NoFile, Broken} THEN file ELSE Durable(file.server, file.browser)
Phase ==
    IF pc = "down" THEN IF ended = "stopped" THEN "stopped" ELSE "down"
    ELSE IF pc \in {"serving", "shutdown", "shutdownWrite"} THEN "serving"
    ELSE "starting"

\* Stored settings lack nothing but the path, which the store does not know.
LEMMA StoredIsDurable ==
    ASSUME NEW s \in Server, NEW b \in Browser
    PROVE  /\ Durable(Stored(s, b).server, Stored(s, b).browser) = Durable(s, b)
           /\ Durable(s, b) \in [server : Server, browser : Browser \cup {NoSection}]
<1>1. b # NoSection /\ [b EXCEPT !.path = NoPath] \in Browser
  BY NoSectionAssumption DEF Browser, Paths
<1>2. [[b EXCEPT !.path = NoPath] EXCEPT !.path = NoPath] = [b EXCEPT !.path = NoPath]
  BY DEF Browser
<1> QED
  BY <1>1, <1>2, NoSectionAssumption DEF Stored, Durable

\* The first state of the program is a first state of the store.
LEMMA StoreInit == Init => Store!Init
<1> SUFFICES ASSUME Init PROVE Store!Init
  OBVIOUS
<1>1. /\ pc = "down" /\ ended = "none"
      /\ server = DefaultServer /\ browser = DefaultBrowser
      /\ file \in Settings \cup {NoFile}
  BY OfferedAssumption DEF Init
<1>2. Durable(DefaultServer, DefaultBrowser) = Default
  BY DefaultIsSettings, NoSectionAssumption
     DEF Durable, Default, DefaultServer, DefaultBrowser
<1>3. file \in Settings => Durable(file.server, file.browser) \in [server : Server, browser : Browser \cup {NoSection}]
  BY StoredIsDurable DEF Settings
<1>4. Broken \notin Settings /\ NoFile # Broken
  BY FileAssumption
<1> QED
  BY <1>1, <1>2, <1>3, <1>4 DEF Store!Init

\* The end of the process without a word to the file is a Kill of the store.
LEMMA EndIsKill ==
    ASSUME NEW why, why # "stopped", End(why), UNCHANGED <<file, server, browser>>
    PROVE  Store!Kill
BY DEF End, Store!Kill, Durable

\* Steps that touch neither the sections nor the file, nor change what the store
\* sees of the place, are none of the store.
LEMMA StutterStep ==
    ASSUME UNCHANGED <<file, server, browser>>,
           \/ pc \in Starting /\ pc' \in Starting
           \/ pc \in ListenerRuns \ {"browser"} /\ pc' \in ListenerRuns \ {"browser"}
           \/ pc' = pc /\ ended' = ended
    PROVE  UNCHANGED Store!vars
BY DEF Store!vars, Durable, Starting, ListenerRuns

\* setup() starts the store, tidies it up, or kills it.
LEMMA SetupStep == IInv /\ Setup => [Store!Next]_(Store!vars)
<1> SUFFICES ASSUME IInv, Setup PROVE [Store!Next]_(Store!vars)
  OBVIOUS
<1>1. CASE Load
  <2>1. /\ pc = "down" /\ pc' = "apply" /\ file # Broken /\ file' = file
        /\ server' = IF file = NoFile THEN DefaultServer ELSE file.server
        /\ browser' = IF file = NoFile THEN DefaultBrowser ELSE file.browser
    BY <1>1 DEF Load
  <2>2. file \in Settings \cup {NoFile}
    BY <2>1 DEF IInv, TypeOK
  <2>3. ASSUME file \in Settings
        PROVE  Durable(file.server, file.browser) \notin {NoFile, Broken}
    <3>1. file.server \in Server /\ file.browser \in Browser
      BY <2>3 DEF Settings
    <3>2. Durable(file.server, file.browser) \in Settings
      BY <3>1, NoSectionAssumption DEF Durable, Settings, Browser, Paths
    <3> QED
      BY <3>2, FileAssumption
  <2>4. Durable(DefaultServer, DefaultBrowser) = Default
    BY DefaultIsSettings, NoSectionAssumption
       DEF Durable, Default, DefaultServer, DefaultBrowser
  <2>5. Store!Start
    BY <2>1, <2>2, <2>3, <2>4, FileAssumption DEF Store!Start, Store!Ended
  <2> QED
    BY <2>5 DEF Store!Next
<1>2. CASE LoadThrows
  BY <1>2, EndIsKill DEF LoadThrows, Store!Next
<1>3. CASE ApplyUnresolved
  BY <1>3, StutterStep DEF ApplyUnresolved, Goto, Starting
<1>4. CASE ApplyServer
  <2>1. /\ pc = "apply" /\ pc' = "store"
        /\ server' = [server EXCEPT !.protocol = Protocol(server.protocol)]
        /\ UNCHANGED <<file, browser>>
    BY <1>4 DEF ApplyServer, Goto
  <2>2. Protocol(server.protocol) \in {"http", server.protocol}
    BY DEF Protocol
  <2>3. CASE server' = server
    BY <2>1, <2>3, StutterStep DEF Starting
  <2>4. CASE server' = [server EXCEPT !.protocol = "http"]
    <3>1. Durable(server', browser') = [Durable(server, browser) EXCEPT !.server.protocol = "http"]
      BY <2>1, <2>4 DEF Durable
    <3>2. Store!Tidy
      BY <2>1, <3>1 DEF Store!Tidy, Tidied
    <3> QED
      BY <3>2 DEF Store!Next
  <2>5. server' = server \/ server' = [server EXCEPT !.protocol = "http"]
    BY <2>1, <2>2 DEF IInv, TypeOK, Server
  <2> QED
    BY <2>3, <2>4, <2>5
<1>5. CASE ApplyThrows
  BY <1>5, EndIsKill DEF ApplyThrows, Store!Next
<1> QED
  BY <1>1, <1>2, <1>3, <1>4, <1>5 DEF Setup

\* storeCurrentConfig begins and ends a save.
LEMMA StoringStep == IInv /\ Storing => [Store!Next]_(Store!vars)
<1> SUFFICES ASSUME IInv, Storing PROVE [Store!Next]_(Store!vars)
  OBVIOUS
<1>1. CASE Truncate
  <2>1. /\ file' = Broken /\ UNCHANGED <<server, browser>>
        /\ \/ pc = "store" /\ pc' = "write"
           \/ pc = "shutdown" /\ pc' = "shutdownWrite"
    BY <1>1 DEF Truncate, Goto
  <2>2. Store!BeginSave
    BY <2>1 DEF Store!BeginSave, Store!Ended, Durable
  <2> QED
    BY <2>2 DEF Store!Next
<1>2. CASE TruncateFails
  BY <1>2, EndIsKill, StutterStep DEF TruncateFails, Goto, Starting, Store!Next
<1>3. CASE Write
  <2>1. /\ pc = "write" /\ pc' = "run"
        /\ file' = Stored(server, browser) /\ UNCHANGED <<server, browser>>
    BY <1>3 DEF Write, Goto
  <2>2. server \in Server /\ browser \in Browser /\ file = Broken
    BY <2>1 DEF IInv, TypeOK, SectionsThere, FileBeingWritten, Starting
  <2>3. /\ file' \notin {NoFile, Broken}
        /\ Durable(file'.server, file'.browser) = Durable(server, browser)
    BY <2>1, <2>2, StoredIsSettings, StoredIsDurable, FileAssumption
  <2>4. Store!EndSave
    BY <2>1, <2>2, <2>3 DEF Store!EndSave, Durable
  <2> QED
    BY <2>4 DEF Store!Next
<1> QED
  BY <1>1, <1>2, <1>3 DEF Storing

\* run() tidies the store up, gets it ready, or kills it.
LEMMA RunningStep == IInv /\ Running => [Store!Next]_(Store!vars)
<1> SUFFICES ASSUME IInv, Running PROVE [Store!Next]_(Store!vars)
  OBVIOUS
<1>1. CASE RunThrows
  BY <1>1, EndIsKill DEF RunThrows, Store!Next
<1>2. CASE Run
  BY <1>2, StutterStep DEF Run, Goto, Starting
<1>3. CASE OpenBrowser
  <2>1. /\ pc = "browser" /\ pc' = "serving" /\ UNCHANGED <<file, server>>
        /\ browser' = [browser EXCEPT !.path = FindPath(browser), !.mode = OpenMode(browser)]
    BY <1>3 DEF OpenBrowser, Goto
  <2>2. browser \in Browser /\ browser' \in Browser
    BY <2>1, OpenedIsBrowser DEF IInv, SectionsThere, Starting
  <2> DEFINE forgotten == [browser EXCEPT !.path = NoPath]
  <2>3. OpenMode(forgotten) = OpenMode(browser)
    BY <2>2 DEF OpenMode, Browser
  <2>4. [browser' EXCEPT !.path = NoPath] = [forgotten EXCEPT !.mode = OpenMode(forgotten)]
    BY <2>1, <2>2, <2>3 DEF Browser
  <2>5. /\ Durable(server, browser) = [server |-> server, browser |-> forgotten]
        /\ Durable(server', browser') =
             [Durable(server, browser) EXCEPT !.browser.mode = OpenMode(forgotten)]
    <3>1. browser # NoSection /\ browser' # NoSection
      BY <2>2, NoSectionAssumption
    <3>2. Durable(server, browser) = [server |-> server, browser |-> forgotten]
      BY <3>1 DEF Durable
    <3>3. Durable(server', browser') =
            [server |-> server, browser |-> [forgotten EXCEPT !.mode = OpenMode(forgotten)]]
      BY <2>1, <2>4, <3>1 DEF Durable
    <3> HIDE DEF forgotten
    <3> QED
      BY <3>2, <3>3
  <2>6. forgotten # NoSection
    BY <2>2, NoSectionAssumption DEF Browser, Paths
  <2>7. Durable(server', browser') \in Tidied(Durable(server, browser))
    BY <2>5, <2>6 DEF Tidied
  <2>8. Store!Tidy
    BY <2>1, <2>7 DEF Store!Tidy
  <2> QED
    BY <2>8 DEF Store!Next
<1>4. CASE OpenBrowserThrows
  BY <1>4, EndIsKill DEF OpenBrowserThrows, Store!Next
<1>5. CASE OpenNoBrowser
  <2>1. Store!Ready
    BY <1>5 DEF OpenNoBrowser, Goto, Store!Ready, Durable
  <2> QED
    BY <2>1 DEF Store!Next
<1> QED
  BY <1>1, <1>2, <1>3, <1>4, <1>5 DEF Running

\* A patch changes the store, an orderly shutdown ends a save, a signal kills.
LEMMA ServingStep == IInv /\ (Serving \/ Shutdown) => [Store!Next]_(Store!vars)
<1> SUFFICES ASSUME IInv, Serving \/ Shutdown PROVE [Store!Next]_(Store!vars)
  OBVIOUS
<1>1. CASE PatchServer \/ PatchBrowser
  <2>1. /\ pc = "serving" /\ pc' \in {"serving", "shutdown"} /\ file' = file
        /\ server' \in Server /\ browser' \in Browser \cup {NoSection}
    BY <1>1, OfferedAssumption
       DEF PatchServer, PatchBrowser, Patch, Goto, Settings, IInv, TypeOK
  <2>2. Durable(server', browser') \in [server : Server, browser : Browser \cup {NoSection}]
    BY <2>1, StoredIsDurable DEF Durable
  <2>3. Store!Change
    BY <2>1, <2>2 DEF Store!Change
  <2> QED
    BY <2>3 DEF Store!Next
<1>2. CASE LastRoomGoes
  BY <1>2, StutterStep DEF LastRoomGoes, Goto, ListenerRuns
<1>3. CASE Signal
  BY <1>3, EndIsKill DEF Signal, Store!Next
<1>4. CASE ShutdownWrite
  <2>1. /\ pc = "shutdownWrite" /\ pc' = "down" /\ ended' = "stopped"
        /\ file' = Stored(server, browser) /\ UNCHANGED <<server, browser>>
    BY <1>4 DEF ShutdownWrite, End
  <2>2. server \in Server /\ browser \in Browser /\ file = Broken
    BY <1>4, <2>1 DEF ShutdownWrite, IInv, TypeOK, FileBeingWritten
  <2>3. /\ file' \notin {NoFile, Broken}
        /\ Durable(file'.server, file'.browser) = Durable(server, browser)
    BY <2>1, <2>2, StoredIsSettings, StoredIsDurable, FileAssumption
  <2>4. Store!EndSave
    BY <2>1, <2>2, <2>3 DEF Store!EndSave, Durable
  <2> QED
    BY <2>4 DEF Store!Next
<1>5. CASE ShutdownThrows
  BY <1>5, StutterStep DEF ShutdownThrows, Goto, ListenerRuns
<1> QED
  BY <1>1, <1>2, <1>3, <1>4, <1>5 DEF Serving, Shutdown

\* A crash kills the store, an edit of the file edits it.
LEMMA OutsideStep == IInv /\ (Crash \/ Edit \/ Listening) => [Store!Next]_(Store!vars)
<1> SUFFICES ASSUME IInv, Crash \/ Edit \/ Listening PROVE [Store!Next]_(Store!vars)
  OBVIOUS
<1>1. CASE Crash
  BY <1>1, EndIsKill DEF Crash, Store!Next
<1>2. CASE Edit
  <2>1. /\ pc = "down" /\ pc' = "down" /\ ended' = "none"
        /\ file' \in Settings \cup {NoFile}
        /\ UNCHANGED <<server, browser>>
    BY <1>2, OfferedAssumption DEF Edit
  <2>2. file' \in Settings =>
          Durable(file'.server, file'.browser) \in [server : Server, browser : Browser \cup {NoSection}]
    BY StoredIsDurable DEF Settings
  <2>3. Store!Edit
    BY <2>1, <2>2, FileAssumption DEF Store!Edit, Store!Ended, Durable
  <2> QED
    BY <2>3 DEF Store!Next
<1>3. CASE Listening
  BY <1>3, StutterStep DEF Listening, coreVars
<1> QED
  BY <1>1, <1>2, <1>3

\* What the code stores and loads again is a store of settings: every step of the
\* program, restarts and crashes included, is one of the store or none.
THEOREM ImplementsStore == Spec => ImplementsSettingsStore
<1>1. IInv /\ [Next]_vars => [Store!Next]_(Store!vars)
  <2> SUFFICES ASSUME IInv, [Next]_vars PROVE [Store!Next]_(Store!vars)
    OBVIOUS
  <2>1. CASE Next
    BY <2>1, SetupStep, StoringStep, RunningStep, ServingStep, OutsideStep DEF Next
  <2>2. CASE UNCHANGED vars
    BY <2>2, StutterStep DEF vars, coreVars
  <2> QED
    BY <2>1, <2>2
<1> QED
  BY Invariance, StoreInit, <1>1, PTL DEF Spec, ImplementsSettingsStore, Store!Spec

==============================================================================
