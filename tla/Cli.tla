-------------------------------- MODULE Cli --------------------------------
(***************************************************************************)
(* What the two clients send: the command line's requests from its         *)
(* arguments (cli/src/main.rs), and the definition the desktop form sends  *)
(* from its fields (ui/src/components/ServerForm.tsx).                     *)
(***************************************************************************)
EXTENDS Config, Integers, Sequences

CONSTANTS
  AllowedOf,  \* Texts -> the allowed IPs a comma-separated text lists
  DualStack,  \* 0.0.0.0/0 and ::/0
  Confs,      \* file names -> what wgconf makes of the file
  FileStem    \* file names -> the name taken from the path

Commands == {"info", "servers", "disconnect", "switch", "remove", "get", "add", "import"}

Conf == [peer : Texts, endpoint : Texts, allowed : AllowedIps,
         port : Ports \cup {NoPort, None}, psk : Psks \cup {Blank, None}]

ASSUME CliAssumption ==
  /\ Commands \subseteq Texts
  /\ AllowedOf \in [Texts -> AllowedIps] /\ DualStack \in AllowedIps
  /\ \A f \in DOMAIN Confs : Confs[f] \in Conf
  /\ FileStem \in [DOMAIN Confs -> Texts]

\* add <name> <pubkey> <endpoint> <address> [allowed_ips].  Without exactly one more
\* argument the tunnel takes everything, of both families.
AddSpec(args) ==
  [name |-> args[2], key |-> None, peer |-> args[3], endpoint |-> args[4],
   allowed |-> IF Len(args) = 6 THEN AllowedOf[args[6]] ELSE DualStack,
   port |-> None, psk |-> None]

ParseRequest(args) ==
  LET Is(cmd, n) == Len(args) = n /\ args[1] = cmd IN
  CASE Is("info", 1) -> [op |-> "status"]
    [] Is("servers", 1) -> [op |-> "list", query |-> None]
    [] Is("servers", 2) -> [op |-> "list", query |-> args[2]]
    [] Is("disconnect", 1) -> [op |-> "disconnect"]
    [] Is("switch", 2) \/ Is("remove", 2) \/ Is("get", 2) ->
         [op |-> args[1], name |-> args[2]]
    [] Len(args) >= 5 /\ args[1] = "add" -> [op |-> "add", spec |-> AddSpec(args)]
    [] OTHER -> None

\* An import reads the file first, and goes by its stem unless a name is given.
IsImport(args) == Len(args) \in {2, 3} /\ args[1] = "import"

ImportRequest(file, n) ==
  IF file \in DOMAIN Confs
    THEN [op |-> "import", conf |-> Confs[file],
          name |-> IF n = None THEN FileStem[file] ELSE n]
    ELSE None

\* main: the request sent, or None for a usage error or an unreadable file.
MainRequest(args) ==
  IF IsImport(args)
    THEN ImportRequest(args[2], IF Len(args) = 3 THEN args[3] ELSE None)
    ELSE ParseRequest(args)

-----------------------------------------------------------------------------
\* submit: the fields trimmed; a secret nobody typed is left out.
FormSpec(fields, key, psk) ==
  [name |-> Trim[fields.name], key |-> key, peer |-> Trim[fields.peer],
   endpoint |-> Trim[fields.endpoint], allowed |-> fields.allowed,
   port |-> fields.port, psk |-> psk]
=============================================================================
