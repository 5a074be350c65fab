--------------------------- MODULE ServerRegistry ---------------------------
(***************************************************************************)
(* The list of servers: creating one from an uploaded pack, importing one  *)
(* from a snapshot archive, giving one another port or subdomain, putting  *)
(* a newer pack in, deleting one.  The ports in use are read before the    *)
(* host is asked whether a port is free; the subdomains after it, in the   *)
(* same turn in which the row is written.  Creating holds no lock on the   *)
(* new row; the other requests hold the server's.                          *)
(***************************************************************************)
EXTENDS Naturals, FiniteSets, FiniteSetsExt

CONSTANTS
  Server,     \* ids a new server may get; each is given once
  Pack,       \* uploaded files; each is handed to one request
  Request,    \* requests handled at the same time
  Name,       \* what a subdomain is made from
  MinPort, MaxPort, RouterPort, \* the range of ports, and the router's own
  HostPort    \* ports some other program of the host has

None == "none"

\* No id and no file is taken for the want of one.
RegistryAssumption ==
  /\ {MinPort, MaxPort, RouterPort} \subseteq Nat
  /\ IsFiniteSet(Server)
  /\ None \notin Server \cup Pack

VARIABLES
  rows,    \* the rows, by server: port, subdomain, pack
  used,    \* the ids and files handed out so far
  disk,    \* the files in the uploads directory
  reqs,    \* the requests being handled
  locked   \* lifecycleBusy

registryVars == <<rows, used, disk, reqs, locked>>

Quiet == [pc |-> "quiet"]

\* A request names a port, or leaves the choice in the range to the backend.
Ports == MinPort .. MaxPort
Wanted == {Ports} \cup {{p}: p \in Ports}

\* A subdomain is a name and a number: a, a-2, a-3.
Asked == {{}} \cup {{sub}: sub \in Name \X (1 .. Cardinality(Server))}

Rows == DOMAIN rows

\* Which of the ids and files left is handed out next makes no difference.
IsNext(x, S) == x = CHOOSE y \in S: y \notin used

\* What other servers have.
CollectReservedPorts(exclude) == {rows[s].port: s \in Rows \ {exclude}} \cup {RouterPort}
CollectReservedSubdomains(exclude) == {rows[s].sub: s \in Rows \ {exclude}}

\* The subdomain asked for, or the first free one made from the name.
MakeUniqueSubdomain(name, reserved) ==
  <<name, Min({n \in 1 .. Cardinality(Server) + 1: <<name, n>> \notin reserved})>>
ResolveServerSubdomain(asked, name, exclude) ==
  LET reserved == CollectReservedSubdomains(exclude) IN
  IF asked = {} THEN {MakeUniqueSubdomain(name, reserved)} ELSE asked \ reserved

Ends(r) == reqs' = [reqs EXCEPT ![r] = Quiet]
Goes(r, q) == reqs' = [reqs EXCEPT ![r] = q]

Init ==
  /\ rows = [s \in {} |-> None] /\ used = {} /\ disk = {}
  /\ reqs = [r \in Request |-> Quiet] /\ locked = {}

(***************************************************************************)
(* A port: the candidates are fixed by the rows of this moment, then each  *)
(* is tried on the host until one can be listened on.                      *)
(***************************************************************************)
\* A request to create, or to import, comes with a file.
AskToCreate(r, kind, p, name, asked, want) ==
  /\ reqs[r] = Quiet /\ p \notin used /\ IsNext(p, Pack)
  /\ used' = used \cup {p} /\ disk' = disk \cup {p}
  /\ Goes(r, [pc |-> "port", kind |-> kind, pack |-> p, server |-> None, name |-> name,
              asked |-> asked, try |-> want \ CollectReservedPorts(None)])
  /\ UNCHANGED <<rows, locked>>

\* PATCH of a stopped server: another port, and perhaps another subdomain.
AskToChange(r, s, asked, want) ==
  /\ reqs[r] = Quiet /\ s \in Rows \ locked /\ want # {rows[s].port}
  /\ locked' = locked \cup {s}
  /\ Goes(r, [pc |-> "port", kind |-> "change", pack |-> None, server |-> s, name |-> None,
              asked |-> asked, try |-> want \ CollectReservedPorts(s)])
  /\ UNCHANGED <<rows, used, disk>>

PortTaken(r) ==
  /\ reqs[r].pc = "port" /\ reqs[r].try # {}
  /\ Min(reqs[r].try) \in HostPort
  /\ reqs' = [reqs EXCEPT ![r].try = @ \ {Min(@)}]
  /\ UNCHANGED <<rows, used, disk, locked>>

\* 409.  The file of a request to create stays where it is.
NoPort(r) ==
  /\ reqs[r].pc = "port" /\ reqs[r].try = {}
  /\ Ends(r) /\ locked' = locked \ {reqs[r].server}
  /\ UNCHANGED <<rows, used, disk>>

NoSubdomain(r) ==
  /\ reqs[r].pc = "port" /\ reqs[r].try # {} /\ Min(reqs[r].try) \notin HostPort
  /\ ResolveServerSubdomain(reqs[r].asked, reqs[r].name, reqs[r].server) = {}
  /\ Ends(r) /\ locked' = locked \ {reqs[r].server}
  /\ UNCHANGED <<rows, used, disk>>

\* The port was free: the subdomain is looked up and the row written.
PortFree(r, s) ==
  /\ reqs[r].pc = "port" /\ reqs[r].try # {} /\ Min(reqs[r].try) \notin HostPort
  /\ \E sub \in ResolveServerSubdomain(reqs[r].asked, reqs[r].name, reqs[r].server):
       IF reqs[r].kind = "change"
       THEN /\ s = reqs[r].server
            /\ rows' = [rows EXCEPT ![s].port = Min(reqs[r].try),
                                    ![s].sub = IF reqs[r].asked = {} THEN @ ELSE sub]
            /\ Ends(r) /\ locked' = locked \ {s}
            /\ UNCHANGED used
       ELSE /\ s \notin used /\ IsNext(s, Server)
            /\ used' = used \cup {s}
            /\ rows' = [x \in Rows \cup {s} |->
                          IF x = s THEN [port |-> Min(reqs[r].try), sub |-> sub, pack |-> None] ELSE rows[x]]
            /\ Goes(r, [pc |-> reqs[r].kind, server |-> s, pack |-> reqs[r].pack, before |-> None])
            /\ locked' = IF reqs[r].kind = "import" THEN locked \cup {s} ELSE locked
  /\ UNCHANGED disk

(***************************************************************************)
(* The file.                                                               *)
(***************************************************************************)
AskToReplace(r, s, p) ==
  /\ reqs[r] = Quiet /\ p \notin used /\ IsNext(p, Pack) /\ s \in Rows \ locked
  /\ used' = used \cup {p} /\ disk' = disk \cup {p} /\ locked' = locked \cup {s}
  /\ Goes(r, [pc |-> "replace", server |-> s, pack |-> p, before |-> rows[s].pack])
  /\ UNCHANGED rows

\* The upload has its lasting name: it is the server's pack, the one it
\* replaces goes.
Renamed(r) ==
  /\ reqs[r].pc \in {"create", "replace"}
  /\ LET s == reqs[r].server IN
     /\ rows' = IF s \in Rows THEN [rows EXCEPT ![s].pack = reqs[r].pack] ELSE rows
     /\ locked' = IF reqs[r].pc = "replace" THEN locked \ {s} ELSE locked
  /\ disk' = disk \ {reqs[r].before}
  /\ Ends(r) /\ UNCHANGED used

\* Broken on purpose (for RegistryHolds): with the upload goes what it was to
\* replace.
NotRenamedDropsBoth(r) ==
  /\ reqs[r].pc \in {"create", "replace"}
  /\ LET s == reqs[r].server IN
     /\ rows' = IF reqs[r].pc = "create" THEN [x \in Rows \ {s} |-> rows[x]] ELSE rows
     /\ locked' = IF reqs[r].pc = "replace" THEN locked \ {s} ELSE locked
  /\ disk' = disk \ {reqs[r].pack, reqs[r].before}
  /\ Ends(r) /\ UNCHANGED used

\* The rename failed: the upload goes, and a row created for it.
NotRenamed(r) ==
  /\ reqs[r].pc \in {"create", "replace"}
  /\ LET s == reqs[r].server IN
     /\ rows' = IF reqs[r].pc = "create" THEN [x \in Rows \ {s} |-> rows[x]] ELSE rows
     /\ locked' = IF reqs[r].pc = "replace" THEN locked \ {s} ELSE locked
  /\ disk' = disk \ {reqs[r].pack}
  /\ Ends(r) /\ UNCHANGED used

\* The archive is unpacked and a container made, or everything is undone.
Imported(r) ==
  /\ reqs[r].pc = "import"
  /\ LET s == reqs[r].server IN
     /\ rows' \in {rows, [x \in Rows \ {s} |-> rows[x]]}
     /\ locked' = locked \ {s}
  /\ disk' = disk \ {reqs[r].pack}
  /\ Ends(r) /\ UNCHANGED used

AskToDelete(r, s) ==
  /\ reqs[r] = Quiet /\ s \in Rows \ locked
  /\ locked' = locked \cup {s}
  /\ Goes(r, [pc |-> "purge", server |-> s, pack |-> rows[s].pack])
  /\ UNCHANGED <<rows, used, disk>>

\* Its files go, then its row.
Purged(r) ==
  /\ reqs[r].pc = "purge"
  /\ disk' = disk \ {reqs[r].pack}
  /\ Goes(r, [pc |-> "delete", server |-> reqs[r].server])
  /\ UNCHANGED <<rows, used, locked>>

Deleted(r) ==
  /\ reqs[r].pc = "delete"
  /\ rows' = [x \in Rows \ {reqs[r].server} |-> rows[x]]
  /\ locked' = locked \ {reqs[r].server}
  /\ Ends(r) /\ UNCHANGED <<used, disk>>

BackendStops ==
  /\ \E r \in Request: reqs[r] # Quiet
  /\ reqs' = [r \in Request |-> Quiet] /\ locked' = {}
  /\ UNCHANGED <<rows, used, disk>>

Next ==
  \/ \E r \in Request:
       \/ \E kind \in {"create", "import"}, p \in Pack, name \in Name,
             asked \in Asked, want \in Wanted: AskToCreate(r, kind, p, name, asked, want)
       \/ \E s \in Server, asked \in Asked, want \in Wanted \ {Ports}: AskToChange(r, s, asked, want)
       \/ \E s \in Server: PortFree(r, s) \/ AskToDelete(r, s)
       \/ \E s \in Server, p \in Pack: AskToReplace(r, s, p)
       \/ PortTaken(r) \/ NoPort(r) \/ NoSubdomain(r)
       \/ Renamed(r) \/ NotRenamed(r) \/ Imported(r) \/ Purged(r) \/ Deleted(r)
  \/ BackendStops

Spec == Init /\ [][Next]_registryVars

(***************************************************************************)
(* What the list keeps to.                                                 *)
(***************************************************************************)
SubdomainsUnique == \A s, t \in Rows: s # t => rows[s].sub # rows[t].sub

\* No request takes away the file another one made a server's pack: a pack
\* goes when it is replaced, or when its server is deleted.
PacksKept ==
  [][ \A s \in DOMAIN rows': rows'[s].pack \in disk \ disk' =>
        \E r \in Request: reqs[r].pc = "purge" /\ reqs[r].server = s ]_registryVars

\* What the list of servers keeps to.
RegistryHolds == []SubdomainsUnique /\ PacksKept

\* The message of a refused port: it is already assigned to another server.
PortsUnique == \A s, t \in Rows: s # t => rows[s].port # rows[t].port
=============================================================================
