------------------------------- MODULE MCCore -------------------------------
EXTENDS Core

Choose(host, protocol, type, mode, open, path) ==
    [server |-> [host |-> host, protocol |-> protocol],
     browser |-> [type |-> type, mode |-> mode, open |-> open, path |-> path]]

\* Every branch of run(): browsers that are looked for, that are fixed, and that
\* the user names; hosts with and without a browser; a certificate asked for.
MCOffered ==
    { Choose("127.0.0.1", "http", "chrome", "app", FALSE, NoPath),
      Choose("127.0.0.1", "https", "firefox", "app", TRUE, NoPath),
      Choose("0.0.0.0", "http", "safari", "window", TRUE, NoPath),
      Choose("127.0.0.1", "http", "N/A", "tab", TRUE, "own") }

==============================================================================
