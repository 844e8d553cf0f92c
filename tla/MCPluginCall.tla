---------------------------- MODULE MCPluginCall ----------------------------
EXTENDS PluginCall

MCEntry(p, v) == [name |-> p, version |-> v]

\* A plugin in two versions, a version that is not offered, and an entry without a
\* version beside an optional plugin.
MCLists ==
    { <<MCEntry("p", "1"), MCEntry("p", "2")>>, <<MCEntry("p", "3")>>,
      <<MCEntry("p", ""), MCEntry("q", "2")>> }

==============================================================================
