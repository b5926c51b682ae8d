------------------------------ MODULE MCMonitor ------------------------------
(* Instances of Monitor for TLC: which commands the controller sends.       *)
EXTENDS Monitor

Do(o, k, n) == [op |-> o, on |-> k, name |-> n]
Quit == Do("quit", "meter", NoName)
Reset == Do("reset", "meter", NoName)

\* Starts (with a name and without), an end, and nothing else, of one kind.
SessionOf(k) ==
  {Do("start", k, n) : n \in Name \cup {NoName}} \cup {Do("end", k, NoName)}

AvCommands == SessionOf("av") \cup {Do("start", "stream", n) : n \in Name} \cup {Reset, Quit}
ShutdownCommands ==
  {Quit} \cup {Do("start", k, n) : k \in {"log", "audio"}, n \in Name}
=============================================================================
