----------------------------- MODULE RemoteFiles ----------------------------
(***************************************************************************)
(* Remote files (pkg/remote): how the client that downloads an ssh or sftp *)
(* entity is set up from its address and the ssh configuration, which      *)
(* server it agrees to talk to, and what becomes of a download.            *)
(*                                                                         *)
(* A remote path is <<"ssh://", credentials, host, ...>>, where the        *)
(* credentials are a member of Login.                                      *)
(***************************************************************************)
EXTENDS Integers, SequencesExt

CONSTANTS
  Login,        \* credentials in an address -> [user, pass, port, left], see hideCredentials
  SshConfig,    \* <<host, keyword>> -> its values in the ssh configuration, a sequence
  KnownHosts,   \* known_hosts file -> its lines: [hosts, key], no key when it cannot be parsed
  Identity,     \* identity file -> "valid", "unreadable" or "unparsable"; other files do not exist
  Agent,        \* whether an ssh agent answers
  Server        \* the servers that may answer: [up, users, accepts, key], accepts the ways to authenticate

(* What the library gives for a keyword that is not set.  With these, the  *)
(* port and the strictness of the host another one stands for are not      *)
(* read, and known hosts are only those of a configured file.              *)
Default ==
  [Port |-> "22", StrictHostKeyChecking |-> "ask", IdentityFile |-> "~/.ssh/identity",
   UserKnownHostsFile |-> "~/.ssh/known_hosts ~/.ssh/known_hosts2"]

GetAll(host, key) ==
  IF <<host, key>> \in DOMAIN SshConfig THEN SshConfig[<<host, key>>]
  ELSE IF key \in DOMAIN Default THEN <<Default[key]>>
  ELSE <<>>
Get(host, key) == IF GetAll(host, key) = <<>> THEN "" ELSE Head(GetAll(host, key))

(* The value of key for the host of the address, else for the host it is   *)
(* configured to stand for                                                 *)
Either(c, key) ==
  IF Get(c.originalHost, key) # "" THEN Get(c.originalHost, key) ELSE Get(c.host, key)

IsRemote(path) == path # <<>> /\ Head(path) = "ssh://"

hostKeyAlias(host, derived) ==
  IF Get(host, "HostKeyAlias") # "" THEN Get(host, "HostKeyAlias") ELSE Get(derived, "HostKeyAlias")

NewClient(path) ==
  LET login == Login[path[2]]
      host == path[3]
      derived == IF Get(host, "HostName") = "" THEN host ELSE Get(host, "HostName")
      ports == SelectSeq(<<login.port, Get(host, "Port"), Get(derived, "Port")>>, LAMBDA p : p # "")
  IN  [user |-> login.user, pass |-> login.pass, hostKeyAlias |-> hostKeyAlias(host, derived),
       originalHost |-> host, host |-> derived, port |-> IF ports = <<>> THEN "22" ELSE Head(ports)]

user(c) == IF c.user # "" THEN c.user ELSE Either(c, "User")

strictHostKeyChecking(c) ==
  LET either == Either(c, "StrictHostKeyChecking")
      strict == IF either = "" THEN Default.StrictHostKeyChecking ELSE either
  IN  IF strict \in {"accept-new", "off"} THEN "no" ELSE strict

knownHostKeys(c) ==
  LET files == {f \in Range(GetAll(c.originalHost, "UserKnownHostsFile")) : f \in DOMAIN KnownHosts}
      lines == UNION {Range(KnownHosts[f]) : f \in files}
  IN  {line.key : line \in {l \in lines : /\ l.hosts \cap {c.hostKeyAlias, c.originalHost, c.host} # {}
                                          /\ l.key # ""}}

(* The first configured identity file that exists *)
identityFile(c) ==
  LET existing(host) == SelectSeq(GetAll(host, "IdentityFile"), LAMBDA f : f \in DOMAIN Identity)
      all == existing(c.originalHost) \o existing(c.host)
  IN  IF all = <<>> THEN "" ELSE Head(all)

(* log.Fatalf of a key that cannot be parsed ends the process *)
SignerFatal(c) == identityFile(c) # "" /\ Identity[identityFile(c)] = "unparsable"

Auths(c) ==
  (IF identityFile(c) # "" /\ Identity[identityFile(c)] = "valid" THEN {"identity"} ELSE {})
  \cup (IF Agent THEN {"agent"} ELSE {})
  \cup (IF c.pass # "" THEN {"password"} ELSE {})

dial(c, server, keys) ==
  server.up /\ user(c) \in server.users /\ server.key \in keys /\ server.accepts \cap Auths(c) # {}

AnyKey == {server.key : server \in Server}

(* Mutant: unknown hosts are trusted however strict the user is *)
AcceptedKeysLax(c) ==
  IF strictHostKeyChecking(c) = "no" \/ knownHostKeys(c) = {} THEN AnyKey ELSE knownHostKeys(c)

(* The keys the client agrees to: any if checking is off, or if it is not  *)
(* strict and the host is unknown; none if it is strict and unknown; else  *)
(* the known ones, which are tried in turn                                 *)
AcceptedKeys(c) ==
  CASE strictHostKeyChecking(c) = "no" -> AnyKey
    [] strictHostKeyChecking(c) # "no" /\ knownHostKeys(c) = {} ->
         IF strictHostKeyChecking(c) = "yes" THEN {} ELSE AnyKey
    [] OTHER -> knownHostKeys(c)

sshClient(c, server) == dial(c, server, AcceptedKeys(c))

=============================================================================
