SPECIFICATION Spec
CONSTANTS
    Connections = {c1, c2}
    Hosts = {"127.0.0.1", "0.0.0.0"}
    Loopback = "127.0.0.1"
    Offered <- MCOffered
    NoSection = NoSection
    NoFile = NoFile
    Broken = Broken
INVARIANTS TypeOK AnnouncedIsServed StartsAgain AcceptOutstanding
PROPERTIES ImplementsSettingsStore ConnectionsTaken
