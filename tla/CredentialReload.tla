-------------------------- MODULE CredentialReload --------------------------
(***************************************************************************)
(* TlsCredentialReloader: requests to POST /reload read the CA bundle, the *)
(* certificate and the key while a rotator, outside the process, rewrites  *)
(* the three files one after the other.  A reload that validates publishes *)
(* a new TLS generation, which every handshake loads once at its start.    *)
(*                                                                         *)
(* The contents of a file are the number of the issue they belong to.      *)
(***************************************************************************)
EXTENDS Integers

CONSTANTS
  Reloads,     \* requests to /reload
  Handshakes,  \* connects and accepts
  MaxIssue,    \* bound: the last issue the rotator writes
  RootOf,      \* RootOf[i]: the root the bundle of issue i trusts and its leaf chains to
  Foreign,     \* the issues whose leaf carries another SPIFFE identity
  Chained,     \* the issues whose leaf is signed by an intermediate
  None

Issues == 0..MaxIssue
Files == {"ca", "cert", "key"}

ASSUME ReloadAssumption ==
  /\ MaxIssue \in Nat
  /\ Foreign \subseteq Issues
  /\ Chained \subseteq Issues
  /\ 0 \notin Foreign
  /\ None \notin Reloads \cup [gen : [Files -> Issues], acked : [Files -> Issues]]

VARIABLES
  disk,   \* disk[f]: the issue the file holds
  torn,   \* the files that are being rewritten
  gen,    \* the published generation: the issue of each of its parts
  lock,   \* who holds reload_lock
  pc,     \* pc[r]: where the request is
  draft,  \* draft[r]: what the request has read so far
  asked,  \* asked[r]: what the disk held when the request arrived
  acked,  \* the issues that answered requests had seen on disk
  hs      \* hs[h]: the generation of the handshake, and acked at its start

vars == <<disk, torn, gen, lock, pc, draft, asked, acked, hs>>

PCs == {"idle", "waiting", "readCa", "readCert", "readKey", "build", "store",
        "stored", "ok", "failed"}
Generations == [Files -> Issues]
\* What a request holds before it has read, and after it has been answered.
Blank == [f \in Files |-> 0]

TypeOK ==
  /\ disk \in Generations
  /\ torn \subseteq Files
  /\ gen \in Generations
  /\ lock \in Reloads \cup {None}
  /\ pc \in [Reloads -> PCs]
  /\ draft \in [Reloads -> Generations]
  /\ asked \in [Reloads -> Generations]
  /\ acked \in Generations
  /\ hs \in [Handshakes -> {None} \cup [gen : Generations, acked : Generations]]

\* main() goes on only when the first load succeeded.
Init ==
  /\ disk = Blank
  /\ torn = {}
  /\ gen = disk
  /\ lock = None
  /\ pc = [r \in Reloads |-> "idle"]
  /\ draft = [r \in Reloads |-> Blank]
  /\ asked = [r \in Reloads |-> Blank]
  /\ acked = disk
  /\ hs = [h \in Handshakes |-> None]

-----------------------------------------------------------------------------
\* The rotator

BeginWrite(f) ==
  /\ f \notin torn
  /\ disk[f] < MaxIssue
  /\ torn' = torn \cup {f}
  /\ UNCHANGED <<disk, gen, lock, pc, draft, asked, acked, hs>>

EndWrite(f) ==
  /\ f \in torn
  /\ torn' = torn \ {f}
  /\ disk' = [disk EXCEPT ![f] = @ + 1]
  /\ UNCHANGED <<gen, lock, pc, draft, asked, acked, hs>>

-----------------------------------------------------------------------------
\* handle_request for POST /reload, and reload()

Request(r) ==
  /\ pc[r] = "idle"
  /\ pc' = [pc EXCEPT ![r] = "waiting"]
  /\ asked' = [asked EXCEPT ![r] = disk]
  /\ UNCHANGED <<disk, torn, gen, lock, draft, acked, hs>>

\* Mutants: there is no lock; a request that finds a reload at work is answered
\* with its success.
LockNothing(r) ==
  /\ pc[r] = "waiting"
  /\ lock' = r
  /\ pc' = [pc EXCEPT ![r] = "readCa"]
  /\ UNCHANGED <<disk, torn, gen, draft, asked, acked, hs>>

LockCoalescing(r) ==
  /\ pc[r] = "waiting"
  /\ lock' = IF lock = None THEN r ELSE lock
  /\ pc' = [pc EXCEPT ![r] = IF lock = None THEN "readCa" ELSE "stored"]
  /\ UNCHANGED <<disk, torn, gen, draft, asked, acked, hs>>

Lock(r) ==
  /\ pc[r] = "waiting"
  /\ lock = None
  /\ lock' = r
  /\ pc' = [pc EXCEPT ![r] = "readCa"]
  /\ UNCHANGED <<disk, torn, gen, draft, asked, acked, hs>>

\* Mutant: the guard is kept when the reload fails.
FailLocked(r) ==
  /\ pc' = [pc EXCEPT ![r] = "failed"]
  /\ draft' = [draft EXCEPT ![r] = Blank]
  /\ asked' = [asked EXCEPT ![r] = Blank]
  /\ UNCHANGED <<disk, torn, gen, lock, acked, hs>>

\* An error drops the guard and is answered with 500.
Fail(r) ==
  /\ pc' = [pc EXCEPT ![r] = "failed"]
  /\ lock' = None
  /\ draft' = [draft EXCEPT ![r] = Blank]
  /\ asked' = [asked EXCEPT ![r] = Blank]
  /\ UNCHANGED <<disk, torn, gen, acked, hs>>

\* read_file and the parser of its contents: a file being rewritten is missing,
\* empty or cut short.
ReadFile(r, at, f, next) ==
  /\ pc[r] = at
  /\ \/ /\ f \in torn
        /\ Fail(r)
     \/ /\ f \notin torn
        /\ draft' = [draft EXCEPT ![r][f] = disk[f]]
        /\ pc' = [pc EXCEPT ![r] = next]
        /\ UNCHANGED <<disk, torn, gen, lock, asked, acked, hs>>

\* Path validation of a leaf against a bundle, with or without the intermediates.
PathExists(ca, cert, intermediates) ==
  /\ RootOf[ca] = RootOf[cert]
  /\ cert \in Chained => intermediates

\* rustls refuses a key that is not the certificate's.
KeyMatches(cert, key) == cert = key

\* build_generation's checks.  The intermediates come from the certificate file.
Valid(g) ==
  /\ g["cert"] \notin Foreign
  /\ PathExists(g["ca"], g["cert"], TRUE)
  /\ KeyMatches(g["cert"], g["key"])

\* A draft that is valid otherwise may still fail: its leaf may have expired.
Build(r) ==
  /\ pc[r] = "build"
  /\ \/ Fail(r)
     \/ /\ Valid(draft[r])
        /\ pc' = [pc EXCEPT ![r] = "store"]
        /\ UNCHANGED <<disk, torn, gen, lock, draft, asked, acked, hs>>

\* Mutant: the new leaf is served, the old bundle goes on verifying.
StoreLeafOnly(r) ==
  /\ pc[r] = "store"
  /\ gen' = [draft[r] EXCEPT !["ca"] = gen["ca"]]
  /\ lock' = None
  /\ pc' = [pc EXCEPT ![r] = "stored"]
  /\ draft' = [draft EXCEPT ![r] = Blank]
  /\ UNCHANGED <<disk, torn, asked, acked, hs>>

Store(r) ==
  /\ pc[r] = "store"
  /\ gen' = draft[r]
  /\ lock' = None
  /\ pc' = [pc EXCEPT ![r] = "stored"]
  /\ draft' = [draft EXCEPT ![r] = Blank]
  /\ UNCHANGED <<disk, torn, asked, acked, hs>>

\* The 200 goes out.
Answer(r) ==
  /\ pc[r] = "stored"
  /\ pc' = [pc EXCEPT ![r] = "ok"]
  /\ acked' = [f \in Files |-> IF asked[r][f] > acked[f] THEN asked[r][f] ELSE acked[f]]
  /\ asked' = [asked EXCEPT ![r] = Blank]
  /\ UNCHANGED <<disk, torn, gen, lock, draft, hs>>

\* connect and accept: the client and the server of one loaded generation.
Handshake(h) ==
  /\ hs[h] = None
  /\ hs' = [hs EXCEPT ![h] = [gen |-> gen, acked |-> acked]]
  /\ UNCHANGED <<disk, torn, gen, lock, pc, draft, asked, acked>>

-----------------------------------------------------------------------------
ReloadStep(r) ==
  \/ Lock(r)
  \/ ReadFile(r, "readCa", "ca", "readCert")
  \/ ReadFile(r, "readCert", "cert", "readKey")
  \/ ReadFile(r, "readKey", "key", "build")
  \/ Build(r)
  \/ Store(r)
  \/ Answer(r)

Next ==
  \/ \E f \in Files : BeginWrite(f) \/ EndWrite(f)
  \/ \E r \in Reloads : Request(r) \/ ReloadStep(r)
  \/ \E h \in Handshakes : Handshake(h)

Spec == Init /\ [][Next]_vars

\* The blocking loader and the request tasks run on; the rotator may stop at any
\* point.
FairSpec == Spec /\ \A r \in Reloads : WF_vars(ReloadStep(r))

-----------------------------------------------------------------------------
NotOlder(g, h) == \A f \in Files : h[f] <= g[f]

\* The published generation is always one that build_generation accepts as a
\* whole (a key pair, under its bundle, with the configured identity), although
\* the three files are read one by one while they are replaced.
GenerationSound == Valid(gen)

\* A reload never brings back older credentials: two requests that overlap
\* cannot publish in the opposite order of their reads.
ReloadNeverGoesBack == [][NotOlder(gen', gen)]_vars

\* A handshake that starts after a reload was answered with 200 uses nothing
\* older than what was on disk when that reload was asked for.
AckedCredentialsUsed ==
  \A h \in Handshakes : hs[h] # None => NotOlder(hs[h].gen, hs[h].acked)

\* Every request to /reload is answered, after failures of other requests too.
ReloadAnswered ==
  \A r \in Reloads : pc[r] = "waiting" ~> pc[r] \in {"ok", "failed"}

\* What the README says of a reload that succeeds, "the files form a trusted ...
\* key pair": a peer with the same bundle accepts what a handshake presents.
\* TlsServer and TlsClient present the leaf alone.
ServedChainTrusted == PathExists(gen["ca"], gen["cert"], FALSE)

\* The reloader implements the register: the generation in force is replaced in
\* one step although its files are read in three, only by what build_generation
\* accepts, never by something older, and a handshake takes all of its
\* credentials from the one it read.
Register == INSTANCE CredentialRegister
  WITH Users <- Handshakes, Values <- Generations, Acceptable <- Valid,
       NotOlderThan <- NotOlder, current <- gen,
       used <- [h \in Handshakes |-> IF hs[h] = None THEN None ELSE hs[h].gen]

ImplementsRegister == Register!Spec
=============================================================================
