----------------------- MODULE CredentialReloadProofs -----------------------
(***************************************************************************)
(* Proofs about CredentialReload, for any number of requests, handshakes   *)
(* and issues: what is published is sound and never older, handshakes see  *)
(* what was acknowledged, and the reloader implements the register.        *)
(***************************************************************************)
EXTENDS CredentialReload, TLAPS

\* The files a request has read by the time it is at a place that holds the lock.
Critical == {"readCa", "readCert", "readKey", "build", "store"}
HasRead(at, f) ==
  \/ f = "ca" /\ at \in Critical \ {"readCa"}
  \/ f = "cert" /\ at \in {"readKey", "build", "store"}
  \/ f = "key" /\ at \in {"build", "store"}

Records == [gen : Generations, acked : Generations]

Types ==
  /\ disk \in Generations
  /\ torn \subseteq Files
  /\ \A f \in torn : disk[f] < MaxIssue
  /\ gen \in Generations
  /\ lock \in Reloads \cup {None}
  /\ pc \in [Reloads -> PCs]
  /\ draft \in [Reloads -> Generations]
  /\ asked \in [Reloads -> Generations]
  /\ acked \in Generations
  /\ hs \in [Handshakes -> Records \cup {None}]

\* The lock belongs to the one request between its acquisition and its end.
Exclusion == \A r \in Reloads : pc[r] \in Critical => lock = r

\* A request is stored only after its draft has been checked.
Checked == \A r \in Reloads : pc[r] = "store" => Valid(draft[r])

\* Contents only get newer on the way from the generation in force through a
\* draft to the disk, and what a request was asked for is on that way too.
Ages ==
  /\ NotOlder(disk, gen)
  /\ NotOlder(gen, acked)
  /\ \A r \in Reloads :
       /\ NotOlder(disk, asked[r])
       /\ pc[r] = "stored" => NotOlder(gen, asked[r])
       /\ \A f \in Files : HasRead(pc[r], f) => /\ gen[f] <= draft[r][f]
                                               /\ asked[r][f] <= draft[r][f]
                                               /\ draft[r][f] <= disk[f]

Inv == Types /\ Exclusion /\ Checked /\ GenerationSound /\ Ages /\ AckedCredentialsUsed

-----------------------------------------------------------------------------
LEMMA InvInit == Init => Inv
<1> SUFFICES ASSUME Init PROVE Inv  BY Zenon
<1>1. Blank \in Generations /\ 0 \in Issues
  BY ReloadAssumption DEF Blank, Generations, Issues
<1>2. Types
  BY <1>1, Zenon DEF Init, Types, PCs
<1>3. Exclusion /\ Checked /\ AckedCredentialsUsed
  BY Zenon DEF Init, Exclusion, Checked, Critical, AckedCredentialsUsed
<1>4. GenerationSound
  BY <1>1, ReloadAssumption, Zenon DEF Init, GenerationSound, Valid, PathExists, KeyMatches, Blank, Files
<1>5. Ages
  <2>1. \A r \in Reloads, f \in Files : ~HasRead(pc[r], f)
    BY Zenon DEF Init, HasRead, Critical
  <2>. QED  BY <2>1 DEF Init, Ages, NotOlder, Blank, Files
<1>. QED  BY <1>2, <1>3, <1>4, <1>5, Zenon DEF Inv

-----------------------------------------------------------------------------
LEMMA NotOlderReflexive ==
  ASSUME NEW g \in Generations PROVE NotOlder(g, g)
BY DEF NotOlder, Generations, Issues

LEMMA NotOlderTransitive ==
  ASSUME NEW g \in Generations, NEW h \in Generations, NEW i \in Generations,
         NotOlder(g, h), NotOlder(h, i)
  PROVE  NotOlder(g, i)
<1>1. \A f \in Files : g[f] \in Int /\ h[f] \in Int /\ i[f] \in Int
  BY ReloadAssumption DEF Generations, Issues
<1>. QED  BY <1>1 DEF NotOlder

\* The rotator only makes the disk newer.
LEMMA InvRotator ==
  ASSUME Inv, NEW f \in Files, BeginWrite(f) \/ EndWrite(f)
  PROVE  Inv'
<1>1. CASE BeginWrite(f)
  BY <1>1, Zenon DEF BeginWrite, Inv, Types, Exclusion, Checked, GenerationSound, Ages,
              AckedCredentialsUsed, NotOlder, Valid
<1>2. CASE EndWrite(f)
  <2>1. /\ disk' \in Generations
        /\ \A x \in Files : disk[x] \in Int /\ disk'[x] \in Int /\ disk[x] <= disk'[x]
        /\ \A x \in torn' : disk'[x] < MaxIssue
    BY <1>2, ReloadAssumption DEF EndWrite, Inv, Types, Generations, Issues
  <2>2. Types'
    BY <1>2, <2>1, Zenon DEF EndWrite, Inv, Types
  <2>3. (Exclusion /\ Checked /\ GenerationSound /\ AckedCredentialsUsed)'
    BY <1>2, Zenon DEF EndWrite, Inv, Exclusion, Checked, GenerationSound, AckedCredentialsUsed,
                NotOlder, Valid
  <2>4. Ages'
    <3>1. \A x \in Files : /\ gen[x] \in Int
                           /\ \A r \in Reloads : asked[r][x] \in Int /\ draft[r][x] \in Int
      BY ReloadAssumption DEF Inv, Types, Generations, Issues
    <3>2. UNCHANGED <<gen, pc, draft, asked, acked>>  BY <1>2, Zenon DEF EndWrite
    <3>3. \A x \in Files :
            /\ gen[x] <= disk'[x]
            /\ \A r \in Reloads : /\ asked[r][x] <= disk'[x]
                                  /\ draft[r][x] <= disk[x] => draft[r][x] <= disk'[x]
      BY <2>1, <3>1 DEF Inv, Ages, NotOlder
    <3>4. NotOlder(disk, gen)' /\ NotOlder(gen, acked)'
          /\ \A r \in Reloads : NotOlder(disk, asked[r])'
                                /\ (pc[r] = "stored" => NotOlder(gen, asked[r]))'
      BY <3>2, <3>3, Zenon DEF Inv, Ages, NotOlder
    <3>5. \A r \in Reloads, x \in Files :
            HasRead(pc[r], x) => /\ gen[x] <= draft[r][x]
                                 /\ asked[r][x] <= draft[r][x]
                                 /\ draft[r][x] <= disk'[x]
      BY <3>3, Zenon DEF Inv, Ages
    <3>. QED  BY <3>2, <3>4, <3>5, Zenon DEF Ages
  <2>. QED  BY <2>2, <2>3, <2>4, Zenon DEF Inv
<1>. QED  BY <1>1, <1>2, Zenon

LEMMA InvRequest ==
  ASSUME Inv, NEW r \in Reloads, Request(r)
  PROVE  Inv'
<1>1. /\ \A x \in Reloads : pc'[x] = IF x = r THEN "waiting" ELSE pc[x]
      /\ \A x \in Reloads : asked'[x] = IF x = r THEN disk ELSE asked[x]
      /\ pc' \in [Reloads -> PCs] /\ asked' \in [Reloads -> Generations]
  BY Zenon DEF Request, Inv, Types, PCs
<1>2. Types'
  BY <1>1, Zenon DEF Request, Inv, Types
<1>3. (Exclusion /\ Checked /\ GenerationSound /\ AckedCredentialsUsed)'
  BY <1>1, Zenon DEF Request, Inv, Exclusion, Checked, Critical, GenerationSound,
              AckedCredentialsUsed, NotOlder, Valid
<1>4. Ages'
  <2>1. NotOlder(disk, disk)  BY NotOlderReflexive, Zenon DEF Inv, Types
  <2>2. \A f \in Files : ~HasRead("waiting", f)  BY Zenon DEF HasRead, Critical
  <2>. QED  BY <1>1, <2>1, <2>2, Zenon DEF Request, Inv, Ages, NotOlder
<1>. QED  BY <1>2, <1>3, <1>4, Zenon DEF Inv

LEMMA InvLock ==
  ASSUME Inv, NEW r \in Reloads, Lock(r)
  PROVE  Inv'
<1>1. /\ \A x \in Reloads : pc'[x] = IF x = r THEN "readCa" ELSE pc[x]
      /\ pc' \in [Reloads -> PCs]
  BY Zenon DEF Lock, Inv, Types, PCs
<1>2. Types'
  BY <1>1, Zenon DEF Lock, Inv, Types
<1>3. Exclusion'
  <2>1. \A x \in Reloads : pc[x] \notin Critical
    BY ReloadAssumption, Zenon DEF Lock, Inv, Exclusion
  <2>. QED  BY <1>1, <2>1, Zenon DEF Lock, Exclusion
<1>4. (Checked /\ GenerationSound /\ AckedCredentialsUsed)'
  BY <1>1, Zenon DEF Lock, Inv, Checked, GenerationSound, AckedCredentialsUsed, NotOlder, Valid
<1>5. Ages'
  <2>1. \A f \in Files : ~HasRead("readCa", f)  BY Zenon DEF HasRead, Critical
  <2>. QED  BY <1>1, <2>1, Zenon DEF Lock, Inv, Ages, NotOlder
<1>. QED  BY <1>2, <1>3, <1>4, <1>5, Zenon DEF Inv

\* A failure inside the critical section gives the lock back and changes nothing else.
LEMMA InvFail ==
  ASSUME Inv, NEW r \in Reloads, pc[r] \in Critical, Fail(r)
  PROVE  Inv'
<1>0. Blank \in Generations /\ NotOlder(disk, Blank)
  BY ReloadAssumption DEF Blank, Generations, Issues, NotOlder, Inv, Types
<1>1. /\ \A x \in Reloads : pc'[x] = IF x = r THEN "failed" ELSE pc[x]
      /\ \A x \in Reloads : draft'[x] = IF x = r THEN Blank ELSE draft[x]
      /\ \A x \in Reloads : asked'[x] = IF x = r THEN Blank ELSE asked[x]
      /\ pc' \in [Reloads -> PCs]
      /\ draft' \in [Reloads -> Generations] /\ asked' \in [Reloads -> Generations]
  BY <1>0, Zenon DEF Fail, Inv, Types, PCs
<1>2. Types'
  BY <1>1, Zenon DEF Fail, Inv, Types
<1>3. Exclusion'
  BY <1>1, Zenon DEF Inv, Exclusion, Critical
<1>4. (Checked /\ GenerationSound /\ AckedCredentialsUsed)'
  BY <1>1, Zenon DEF Fail, Inv, Checked, GenerationSound, AckedCredentialsUsed, NotOlder, Valid
<1>5. Ages'
  <2>1. \A f \in Files : ~HasRead("failed", f)  BY Zenon DEF HasRead, Critical
  <2>. QED  BY <1>0, <1>1, <2>1, Zenon DEF Fail, Inv, Ages, NotOlder
<1>. QED  BY <1>2, <1>3, <1>4, <1>5, Zenon DEF Inv

\* One of the three reads: the content is as new as the disk, hence as the
\* generation in force and as what was on disk when the request came.
LEMMA InvRead ==
  ASSUME Inv, NEW r \in Reloads,
         NEW at \in Critical, NEW f \in Files, NEW next \in Critical,
         at # "store", next # "store",
         \A x \in Files : HasRead(next, x) => HasRead(at, x) \/ x = f,
         ReadFile(r, at, f, next)
  PROVE  Inv'
<1>1. CASE f \in torn /\ Fail(r)
  BY <1>1, InvFail, Zenon DEF ReadFile
<1>2. CASE ~(f \in torn /\ Fail(r))
  <2>1. /\ pc[r] = at
        /\ \A x \in Reloads : pc'[x] = IF x = r THEN next ELSE pc[x]
        /\ \A x \in Reloads, y \in Files :
             draft'[x][y] = IF x = r /\ y = f THEN disk[f] ELSE draft[x][y]
        /\ \A x \in Reloads : x # r => draft'[x] = draft[x]
        /\ pc' \in [Reloads -> PCs] /\ draft' \in [Reloads -> Generations]
        /\ UNCHANGED <<disk, torn, gen, lock, asked, acked, hs>>
    <3>1. /\ draft' = [draft EXCEPT ![r][f] = disk[f]]
          /\ pc[r] = at /\ pc' = [pc EXCEPT ![r] = next]
          /\ UNCHANGED <<disk, torn, gen, lock, asked, acked, hs>>
      BY <1>2, Zenon DEF ReadFile
    <3>2. draft[r] \in Generations /\ disk[f] \in Issues
      BY Zenon DEF Inv, Types, Generations
    <3>3. [draft[r] EXCEPT ![f] = disk[f]] \in Generations
      BY <3>2, Zenon DEF Generations
    <3>4. draft' = [draft EXCEPT ![r] = [draft[r] EXCEPT ![f] = disk[f]]]
      BY <3>1, Zenon
    <3>5. draft' \in [Reloads -> Generations]
      BY <3>3, <3>4, Zenon DEF Inv, Types
    <3>6. \A x \in Reloads : x # r => draft'[x] = draft[x]
      BY <3>4, Zenon DEF Inv, Types
    <3>7. \A y \in Files : draft'[r][y] = IF y = f THEN disk[f] ELSE draft[r][y]
      BY <3>4, <3>2, Zenon DEF Inv, Types, Generations
    <3>8. pc' \in [Reloads -> PCs]
          /\ \A x \in Reloads : pc'[x] = IF x = r THEN next ELSE pc[x]
      BY <3>1, Zenon DEF Inv, Types, PCs, Critical
    <3>. QED  BY <3>1, <3>5, <3>6, <3>7, <3>8, Zenon
  <2>2. Types'
    BY <2>1, Zenon DEF Inv, Types
  <2>3. (Exclusion /\ GenerationSound /\ AckedCredentialsUsed)'
    BY <2>1, Zenon DEF Inv, Exclusion, GenerationSound, AckedCredentialsUsed, NotOlder, Valid
  <2>4. Checked'
    BY <2>1, Zenon DEF Inv, Checked, Valid
  <2>5. Ages'
    <3>1. /\ NotOlder(disk', gen') /\ NotOlder(gen', acked')
          /\ \A x \in Reloads : /\ NotOlder(disk', asked'[x])
                                /\ pc'[x] = "stored" => NotOlder(gen', asked'[x])
      BY <2>1, Zenon DEF Inv, Ages, NotOlder, Critical
    <3>2. ASSUME NEW x \in Reloads, NEW y \in Files, HasRead(pc'[x], y)
          PROVE  gen[y] <= draft'[x][y] /\ asked[x][y] <= draft'[x][y] /\ draft'[x][y] <= disk[y]
      <4>1. CASE x = r /\ y = f
        <5>1. disk[f] <= disk[f]
          BY ReloadAssumption DEF Inv, Types, Generations, Issues
        <5>. QED  BY <4>1, <5>1, <2>1, Zenon DEF Inv, Ages, NotOlder
      <4>2. CASE ~(x = r /\ y = f)
        <5>1. HasRead(pc[x], y)  BY <2>1, <3>2, <4>2, Zenon
        <5>. QED  BY <4>2, <5>1, <2>1, Zenon DEF Inv, Ages
      <4>. QED  BY <4>1, <4>2, Zenon
    <3>. QED  BY <2>1, <3>1, <3>2, Zenon DEF Ages
  <2>. QED  BY <2>2, <2>3, <2>4, <2>5, Zenon DEF Inv
<1>. QED  BY <1>1, <1>2, Zenon

LEMMA InvBuild ==
  ASSUME Inv, NEW r \in Reloads, Build(r)
  PROVE  Inv'
<1>1. CASE Fail(r)
  BY <1>1, InvFail, Zenon DEF Build, Critical
<1>2. CASE ~Fail(r)
  <2>1. /\ pc[r] = "build" /\ Valid(draft[r])
        /\ \A x \in Reloads : pc'[x] = IF x = r THEN "store" ELSE pc[x]
        /\ pc' \in [Reloads -> PCs]
        /\ UNCHANGED <<disk, torn, gen, lock, draft, asked, acked, hs>>
    BY <1>2, Zenon DEF Build, Inv, Types, PCs
  <2>2. Types'
    BY <2>1, Zenon DEF Inv, Types
  <2>3. (Exclusion /\ GenerationSound /\ AckedCredentialsUsed /\ Checked)'
    BY <2>1, Zenon DEF Inv, Exclusion, Critical, Checked, GenerationSound, AckedCredentialsUsed,
                NotOlder, Valid
  <2>4. Ages'
    <3>1. \A f \in Files : HasRead("build", f)  BY Zenon DEF HasRead, Critical, Files
    <3>. QED  BY <2>1, <3>1, Zenon DEF Inv, Ages, NotOlder
  <2>. QED  BY <2>2, <2>3, <2>4, Zenon DEF Inv
<1>. QED  BY <1>1, <1>2, Zenon

\* A store replaces the generation by one that is sound and not older.  No other
\* request has read anything yet that could be overtaken: it would hold the lock.
LEMMA InvStore ==
  ASSUME Inv, NEW r \in Reloads, Store(r)
  PROVE  Inv' /\ Valid(gen') /\ NotOlder(gen', gen)
<1>0. Blank \in Generations
  BY ReloadAssumption DEF Blank, Generations, Issues
<1>1. /\ pc[r] = "store" /\ gen' = draft[r] /\ lock' = None
      /\ \A x \in Reloads : pc'[x] = IF x = r THEN "stored" ELSE pc[x]
      /\ \A x \in Reloads : draft'[x] = IF x = r THEN Blank ELSE draft[x]
      /\ pc' \in [Reloads -> PCs] /\ draft' \in [Reloads -> Generations]
      /\ UNCHANGED <<disk, torn, asked, acked, hs>>
  BY <1>0, Zenon DEF Store, Inv, Types, PCs
<1>2. \A x \in Reloads : pc'[x] \notin Critical
  BY <1>1, Zenon DEF Inv, Exclusion, Critical
<1>3. /\ NotOlder(draft[r], gen) /\ NotOlder(draft[r], asked[r]) /\ NotOlder(disk, draft[r])
  <2>1. \A f \in Files : HasRead("store", f)  BY Zenon DEF HasRead, Critical, Files
  <2>. QED  BY <1>1, <2>1, Zenon DEF Inv, Ages, NotOlder
<1>4. Valid(gen')
  BY <1>1, Zenon DEF Inv, Checked
<1>5. Types'
  BY <1>1, Zenon DEF Inv, Types
<1>6. (Exclusion /\ Checked)'
  BY <1>2, Zenon DEF Exclusion, Checked, Critical
<1>7. GenerationSound' /\ AckedCredentialsUsed'
  BY <1>1, <1>4, Zenon DEF GenerationSound, Inv, AckedCredentialsUsed, NotOlder, Valid
<1>8. Ages'
  <2>1. NotOlder(draft[r], acked)
    BY <1>3, NotOlderTransitive, Zenon DEF Inv, Types, Ages
  <2>2. \A x \in Reloads : pc[x] = "stored" => NotOlder(draft[r], asked[x])
    BY <1>3, NotOlderTransitive, Zenon DEF Inv, Types, Ages
  <2>3. \A x \in Reloads, f \in Files : ~HasRead(pc'[x], f)
    BY <1>2, Zenon DEF HasRead, Critical
  <2>4. \A x \in Reloads : NotOlder(disk, asked[x])  BY Zenon DEF Inv, Ages
  <2>. QED  BY <1>1, <1>3, <2>1, <2>2, <2>3, <2>4, Zenon DEF Ages, NotOlder
<1>. QED  BY <1>1, <1>3, <1>4, <1>5, <1>6, <1>7, <1>8, Zenon DEF Inv

LEMMA InvAnswer ==
  ASSUME Inv, NEW r \in Reloads, Answer(r)
  PROVE  Inv'
<1>0. Blank \in Generations /\ NotOlder(disk, Blank)
  BY ReloadAssumption DEF Blank, Generations, Issues, NotOlder, Inv, Types
<1>1. /\ pc[r] = "stored"
      /\ \A x \in Reloads : pc'[x] = IF x = r THEN "ok" ELSE pc[x]
      /\ \A x \in Reloads : asked'[x] = IF x = r THEN Blank ELSE asked[x]
      /\ pc' \in [Reloads -> PCs] /\ asked' \in [Reloads -> Generations]
      /\ UNCHANGED <<disk, torn, gen, lock, draft, hs>>
  BY <1>0, Zenon DEF Answer, Inv, Types, PCs
<1>2. acked' \in Generations /\ \A f \in Files : acked'[f] = asked[r][f] \/ acked'[f] = acked[f]
  BY Zenon DEF Answer, Inv, Types, Generations
<1>3. Types'
  BY <1>1, <1>2, Zenon DEF Inv, Types
<1>4. Exclusion' /\ Checked' /\ GenerationSound' /\ AckedCredentialsUsed'
  BY <1>1, Zenon DEF Inv, Exclusion, Critical, Checked, GenerationSound, AckedCredentialsUsed,
              NotOlder, Valid
<1>5. Ages'
  <2>1. NotOlder(gen, acked')
    BY <1>1, <1>2, Zenon DEF Inv, Ages, NotOlder
  <2>2. \A f \in Files : ~HasRead("ok", f)  BY Zenon DEF HasRead, Critical
  <2>. QED  BY <1>0, <1>1, <2>1, <2>2, Zenon DEF Inv, Ages, NotOlder
<1>. QED  BY <1>3, <1>4, <1>5, Zenon DEF Inv

LEMMA InvHandshake ==
  ASSUME Inv, NEW h \in Handshakes, Handshake(h)
  PROVE  Inv'
<1>1. /\ \A x \in Handshakes : hs'[x] = IF x = h THEN [gen |-> gen, acked |-> acked] ELSE hs[x]
      /\ hs' \in [Handshakes -> Records \cup {None}]
      /\ UNCHANGED <<disk, torn, gen, lock, pc, draft, asked, acked>>
  BY Zenon DEF Handshake, Inv, Types, Records
<1>2. Types'
  BY <1>1, Zenon DEF Inv, Types
<1>3. Exclusion' /\ Checked' /\ GenerationSound' /\ Ages'
  BY <1>1, Zenon DEF Inv, Exclusion, Checked, GenerationSound, Ages, NotOlder, Valid
<1>4. AckedCredentialsUsed'
  BY <1>1 DEF Inv, Ages, AckedCredentialsUsed
<1>. QED  BY <1>2, <1>3, <1>4, Zenon DEF Inv

\* The three places where a request reads a file are instances of InvRead.
LEMMA InvReads ==
  ASSUME Inv, NEW r \in Reloads,
         \/ ReadFile(r, "readCa", "ca", "readCert")
         \/ ReadFile(r, "readCert", "cert", "readKey")
         \/ ReadFile(r, "readKey", "key", "build")
  PROVE  Inv'
<1>1. CASE ReadFile(r, "readCa", "ca", "readCert")
  <2>1. \A x \in Files : HasRead("readCert", x) => HasRead("readCa", x) \/ x = "ca"
    BY Zenon DEF HasRead, Critical
  <2>2. "readCa" \in Critical /\ "readCert" \in Critical /\ "ca" \in Files
    BY Zenon DEF Critical, Files
  <2>. QED  BY <1>1, <2>1, <2>2, InvRead, Zenon
<1>2. CASE ReadFile(r, "readCert", "cert", "readKey")
  <2>1. \A x \in Files : HasRead("readKey", x) => HasRead("readCert", x) \/ x = "cert"
    BY Zenon DEF HasRead, Critical
  <2>2. "readCert" \in Critical /\ "readKey" \in Critical /\ "cert" \in Files
    BY Zenon DEF Critical, Files
  <2>. QED  BY <1>2, <2>1, <2>2, InvRead, Zenon
<1>3. CASE ReadFile(r, "readKey", "key", "build")
  <2>1. \A x \in Files : HasRead("build", x) => HasRead("readKey", x) \/ x = "key"
    BY Zenon DEF HasRead, Critical
  <2>2. "readKey" \in Critical /\ "build" \in Critical /\ "key" \in Files
    BY Zenon DEF Critical, Files
  <2>. QED  BY <1>3, <2>1, <2>2, InvRead, Zenon
<1>. QED  BY <1>1, <1>2, <1>3, Zenon

LEMMA InvNext == Inv /\ [Next]_vars => Inv'
<1> SUFFICES ASSUME Inv, [Next]_vars PROVE Inv'  BY Zenon
<1>1. CASE UNCHANGED vars
  BY <1>1, Zenon DEF vars, Inv, Types, Exclusion, Checked, GenerationSound, Ages,
              AckedCredentialsUsed, NotOlder, Valid
<1>2. ASSUME NEW f \in Files, BeginWrite(f) \/ EndWrite(f) PROVE Inv'
  BY <1>2, InvRotator, Zenon
<1>3. ASSUME NEW r \in Reloads, Request(r) \/ ReloadStep(r) PROVE Inv'
  BY <1>3, InvRequest, InvLock, InvReads, InvBuild, InvStore, InvAnswer, Zenon DEF ReloadStep
<1>4. ASSUME NEW h \in Handshakes, Handshake(h) PROVE Inv'
  BY <1>4, InvHandshake, Zenon
<1>. QED  BY <1>1, <1>2, <1>3, <1>4, Zenon DEF Next

LEMMA Invariance == Spec => []Inv
BY InvInit, InvNext, PTL DEF Spec

-----------------------------------------------------------------------------
\* What reload() publishes always passed the checks of build_generation as a
\* whole, however the rotator's writes fall between its three reads.
THEOREM PublishedIsSound == Spec => []GenerationSound
<1>1. Inv => GenerationSound  BY Zenon DEF Inv
<1>. QED  BY <1>1, Invariance, PTL

\* A connect or accept that loads the generation after a 200 of POST /reload
\* uses nothing older than what was on disk when that request came.
THEOREM AckedIsUsed == Spec => []AckedCredentialsUsed
<1>1. Inv => AckedCredentialsUsed  BY Zenon DEF Inv
<1>. QED  BY <1>1, Invariance, PTL

\* A step keeps the generation or is a store, which makes it newer.
LEMMA StepOfGen ==
  ASSUME Inv, [Next]_vars
  PROVE  \/ UNCHANGED gen
         \/ gen' \in Generations /\ Valid(gen') /\ NotOlder(gen', gen) /\ UNCHANGED hs
<1>1. ASSUME NEW r \in Reloads, Store(r)
      PROVE  gen' \in Generations /\ Valid(gen') /\ NotOlder(gen', gen) /\ UNCHANGED hs
  <2>1. UNCHANGED hs  BY <1>1, Zenon DEF Store
  <2>. QED  BY <1>1, <2>1, InvStore, Zenon DEF Inv, Types
<1>2. ASSUME NEW r \in Reloads, Request(r) \/ ReloadStep(r), ~Store(r) PROVE UNCHANGED gen
  BY <1>2, Zenon DEF Request, ReloadStep, Lock, ReadFile, Fail, Build, Answer
<1>3. ASSUME NEW f \in Files, BeginWrite(f) \/ EndWrite(f) PROVE UNCHANGED gen
  BY <1>3, Zenon DEF BeginWrite, EndWrite
<1>4. ASSUME NEW h \in Handshakes, Handshake(h) PROVE UNCHANGED gen
  BY <1>4, Zenon DEF Handshake
<1>. QED  BY <1>1, <1>2, <1>3, <1>4, Zenon DEF Next, vars, ReloadStep

\* Reloads that overlap never put older credentials back: reload_lock covers the
\* reads as well as the store.
THEOREM NeverGoesBack == Spec => ReloadNeverGoesBack
<1>1. Inv /\ [Next]_vars => [NotOlder(gen', gen)]_vars
  <2> SUFFICES ASSUME Inv, [Next]_vars PROVE NotOlder(gen', gen)  BY Zenon
  <2>1. NotOlder(gen, gen)  BY NotOlderReflexive, Zenon DEF Inv, Types
  <2>. QED  BY <2>1, StepOfGen, Zenon
<1>. QED  BY <1>1, Invariance, PTL DEF Spec, ReloadNeverGoesBack

-----------------------------------------------------------------------------
\* The refinement, step by step.
UsedOf == [h \in Handshakes |-> IF hs[h] = None THEN None ELSE hs[h].gen]

LEMMA RegisterInit == Init => Register!Init
<1> SUFFICES ASSUME Init PROVE Register!Init  BY Zenon
<1>1. gen \in Generations /\ Valid(gen)
  BY InvInit, Zenon DEF Inv, Types, GenerationSound
<1>2. UsedOf = [h \in Handshakes |-> None]
  BY Zenon DEF Init, UsedOf
<1>. QED  BY <1>1, <1>2, Zenon DEF Register!Init, UsedOf

LEMMA RegisterRead ==
  ASSUME Inv, NEW h \in Handshakes, Handshake(h)
  PROVE  Register!Read(h)
<1>1. hs[h] = None /\ UNCHANGED gen /\ hs' = [hs EXCEPT ![h] = [gen |-> gen, acked |-> acked]]
  BY Zenon DEF Handshake
<1>2. [gen |-> gen, acked |-> acked] # None
  <2>1. [gen |-> gen, acked |-> acked] \in [gen : [Files -> Issues], acked : [Files -> Issues]]
    BY Zenon DEF Inv, Types, Generations
  <2>. QED  BY <2>1, ReloadAssumption, Zenon
<1>3. UsedOf' = [UsedOf EXCEPT ![h] = gen]
  <2>1. \A x \in Handshakes : hs'[x] = IF x = h THEN [gen |-> gen, acked |-> acked] ELSE hs[x]
    BY <1>1, Zenon DEF Inv, Types
  <2>2. UsedOf' = [x \in Handshakes |-> IF hs'[x] = None THEN None ELSE hs'[x].gen]
    BY Zenon DEF UsedOf
  <2>3. hs'[h] # None /\ hs'[h].gen = gen
    BY <1>2, <2>1
  <2>4. UsedOf'[h] = gen
    BY <2>2, <2>3, Zenon
  <2>5. \A x \in Handshakes : x # h => UsedOf'[x] = UsedOf[x]
    BY <2>1, <2>2, Zenon DEF UsedOf
  <2>. QED  BY <2>2, <2>4, <2>5, Zenon DEF UsedOf
<1>4. UsedOf[h] = None  BY <1>1, Zenon DEF UsedOf
<1>. QED  BY <1>1, <1>3, <1>4, Zenon DEF Register!Read, UsedOf

LEMMA RegisterNext ==
  Inv /\ [Next]_vars => [Register!Next]_<<gen, UsedOf>>
<1> SUFFICES ASSUME Inv, [Next]_vars, ~UNCHANGED <<gen, UsedOf>>
             PROVE  Register!Next
  BY Zenon
<1>1. CASE \E h \in Handshakes : Handshake(h)
  BY <1>1, RegisterRead, Zenon DEF Register!Next
<1>2. CASE ~\E h \in Handshakes : Handshake(h)
  <2>1. UNCHANGED hs
    BY <1>2, Zenon DEF Next, vars, BeginWrite, EndWrite, Request, ReloadStep, Lock, ReadFile, Fail,
                Build, Store, Answer
  <2>2. UNCHANGED UsedOf  BY <2>1, Zenon DEF UsedOf
  <2>3. gen' \in Generations /\ Valid(gen') /\ NotOlder(gen', gen)
    BY <2>2, StepOfGen, Zenon
  <2>. QED  BY <2>2, <2>3, Zenon DEF Register!Next, Register!Publish, UsedOf
<1>. QED  BY <1>1, <1>2, Zenon

\* TlsCredentialReloader behaves as one register: although the generation is read
\* from three files, built and stored by tasks that interleave with handshakes,
\* it is replaced in one step, by an acceptable generation that is not older,
\* and each handshake uses the one generation it loaded.
THEOREM ReloaderImplementsRegister == Spec => ImplementsRegister
<1>1. Inv /\ [Next]_vars => [Register!Next]_<<gen, UsedOf>>
  BY RegisterNext, Zenon
<1>. QED
  BY <1>1, RegisterInit, Invariance, PTL DEF Spec, ImplementsRegister, Register!Spec, UsedOf

\* Every variable of the reloader keeps its type: a generation in force, in a draft or
\* in use by a handshake has an issue of each of the three files.
THEOREM TypesAreKept == Spec => []TypeOK
<1>1. Inv => TypeOK
  BY Zenon DEF Inv, Types, TypeOK, Records
<1>. QED  BY <1>1, Invariance, PTL

=============================================================================
