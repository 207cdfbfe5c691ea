----------------------------- MODULE BootProofs -----------------------------
(***************************************************************************)
(* The safety properties of Boot for any number of processes, environments *)
(* and schema files, and under every fault: no gap in either schema,       *)
(* nothing served or evaluated before both are complete, and the TLS       *)
(* posture the operator asked for.                                         *)
(***************************************************************************)
EXTENDS Boot, TLAPS, WellFoundedInduction

(***************************************************************************)
(* The strengthening: what a process knows at each of its calls. It found  *)
(* the applied set once and holds on to it; what makes that safe is that a *)
(* file it does not hold any more is recorded, by whoever did it.          *)
(***************************************************************************)
Migrated   == {"tenant", "user", "nats", "info", "ensure", "chload", "chexec", "chrecord",
               "spawn", "listen", "serving"}
WithStream == {"chload", "chexec", "chrecord", "spawn", "listen", "serving"}
WithSchema == {"spawn", "listen", "serving"}

\* What listening as how says about the environment e.
Posture(e, how) ==
    /\ how = "plaintext" => e.plaintext /\ ~e.cert /\ ~e.key
    /\ how = "selfsigned" => e.autotls /\ e.host = "loopback" /\ ~e.cert /\ ~e.key
    /\ how = "tls" => e.cert /\ e.key
    /\ how # "plaintext" => e.tlsMin # 11

Knows(p) ==
    /\ pc[p] = "pgapply" => (1 .. PgFiles) \ todo[p] \subseteq pgRecorded
    /\ pc[p] \in Migrated => pgApplied = 1 .. PgFiles
    /\ seen[p] # NoStream => stream # NoStream
    /\ pc[p] \in WithStream => stream # NoStream
    /\ pc[p] \in {"chexec", "chrecord"} => (1 .. ChFiles) \ todo[p] \subseteq chRecorded
    /\ pc[p] = "chrecord" => Least(todo[p]) \in chApplied
    /\ pc[p] \in WithSchema => chApplied = 1 .. ChFiles
    /\ workers[p] => pc[p] \in {"listen", "serving"}
    /\ pc[p] = "serving" => Posture(env[p], tls[p])

IInv == TypeOK /\ NoGapInSchema /\ \A p \in Procs : Knows(p)

-----------------------------------------------------------------------------
(***************************************************************************)
(* The file that is next.                                                  *)
(***************************************************************************)

\* A set of naturals that is not empty has a least element.
LEMMA LeastExists ==
    ASSUME NEW S \in SUBSET Nat, S # {}
    PROVE  Least(S) \in S /\ \A y \in S : Least(S) <= y
  <1> DEFINE R == OpToRel(<, Nat)
  <1>1. IsWellFoundedOn(R, Nat)  BY NatLessThanWellFounded
  <1>2. R = {ss \in Nat \X Nat : ss[1] < ss[2]}  BY DEF OpToRel
  <1> HIDE DEF R
  <1>3. PICK x \in S : \A y \in S : ~(<<y, x>> \in R)  BY <1>1, WFMin
  <1>4. \A y \in Nat : y < x => <<y, x>> \in R
    <2> TAKE y \in Nat
    <2> HAVE y < x
    <2>1. <<y, x>> \in Nat \X Nat /\ <<y, x>>[1] = y /\ <<y, x>>[2] = x  OBVIOUS
    <2> QED  BY <1>2, <2>1
  <1>5. \A y \in S : x <= y
    <2> TAKE y \in S
    <2>1. x \in Nat /\ y \in Nat  OBVIOUS
    <2>2. ~(y < x)  BY <1>3, <1>4, <2>1
    <2> QED  BY <2>1, <2>2
  <1> QED  BY <1>5 DEF Least

\* Adding the least file that is not there keeps a prefix a prefix.
LEMMA PrefixGrows ==
    ASSUME NEW n \in Nat, NEW S \in SUBSET (1 .. n), NEW T \in SUBSET (1 .. n), T # {},
           Prefix(S), (1 .. n) \ T \subseteq S
    PROVE  /\ Least(T) \in T
           /\ Least(T) \in 1 .. n
           /\ Prefix(S \cup {Least(T)})
  <1>1. Least(T) \in T /\ \A y \in T : Least(T) <= y
    <2>1. T \in SUBSET Nat  OBVIOUS
    <2> QED  BY <2>1, LeastExists
  <1> DEFINE m == Least(T)
  <1> HIDE DEF m
  <1>2. m \in T /\ m \in 1 .. n /\ \A y \in T : m <= y  BY <1>1 DEF m
  <1>3. \A g \in 1 .. m : g \in S \cup {m}
    <2> TAKE g \in 1 .. m
    <2>1. g \in 1 .. n /\ g <= m  BY <1>2
    <2>2. g \in T => g = m  BY <1>2, <2>1
    <2> QED  BY <2>1, <2>2
  <1>4. \A f \in S : 1 .. f \subseteq S  BY DEF Prefix
  <1> QED  BY <1>2, <1>3, <1>4 DEF Prefix, m

-----------------------------------------------------------------------------
(***************************************************************************)
(* What a step leaves alone.                                               *)
(***************************************************************************)

\* Nothing shared is ever taken back.
Grows ==
    /\ pgApplied \subseteq pgApplied' /\ pgRecorded \subseteq pgRecorded'
    /\ chApplied \subseteq chApplied' /\ chRecorded \subseteq chRecorded'
    /\ stream # NoStream => stream' # NoStream

\* A process does not move.
Still(q) ==
    /\ pc'[q] = pc[q] /\ todo'[q] = todo[q] /\ seen'[q] = seen[q]
    /\ tls'[q] = tls[q] /\ workers'[q] = workers[q] /\ env'[q] = env[q]

\* A process that does not move still knows what it knew.
LEMMA StillKnows ==
    ASSUME IInv, TypeOK', Grows, NEW q \in Procs, Still(q)
    PROVE  Knows(q)'
  <1>1. Knows(q)  BY DEF IInv
  <1>2. pgApplied' \subseteq 1 .. PgFiles /\ chApplied' \subseteq 1 .. ChFiles  BY DEF TypeOK
  <1> QED  BY <1>1, <1>2 DEF Knows, Grows, Still, TypeOK

\* A process that goes away knows nothing it could be wrong about.
LEMMA GoneKnows ==
    ASSUME IInv, NEW p \in Procs, Gone(p)
    PROVE  Knows(p)' /\ \A q \in Procs \ {p} : Still(q)
  <1>1. /\ pc'[p] = "down" /\ seen'[p] = NoStream /\ workers'[p] = FALSE
    BY DEF IInv, TypeOK, Gone
  <1>2. \A q \in Procs \ {p} : Still(q)  BY DEF IInv, TypeOK, Gone, Still
  <1> QED  BY <1>1, <1>2 DEF Knows, Migrated, WithStream, WithSchema

\* A step that ends the process and changes nothing shared.
LEMMA GoneStep ==
    ASSUME IInv, NEW p \in Procs, Gone(p), UNCHANGED shared, UNCHANGED faults
    PROVE  IInv'
  <1>1. TypeOK'  BY DEF IInv, TypeOK, Gone, shared, Calls, TakesContext
  <1>2. NoGapInSchema'  BY DEF IInv, NoGapInSchema, shared, Prefix
  <1>3. Grows  BY DEF Grows, shared
  <1>4. \A q \in Procs : Knows(q)'  BY <1>1, <1>3, GoneKnows, StillKnows
  <1> QED  BY <1>1, <1>2, <1>4 DEF IInv

\* A step of p that adds to what is shared.
LEMMA OneMoves ==
    ASSUME IInv, TypeOK', NoGapInSchema', Grows,
           NEW p \in Procs, Knows(p)', \A q \in Procs \ {p} : Still(q)
    PROVE  IInv'
  BY StillKnows DEF IInv

\* A step of p that changes nothing shared.
LEMMA OnlyLocal ==
    ASSUME IInv, UNCHANGED shared, TypeOK',
           NEW p \in Procs, Knows(p)', \A q \in Procs \ {p} : Still(q)
    PROVE  IInv'
  <1>1. NoGapInSchema'  BY DEF IInv, NoGapInSchema, shared, Prefix
  <1>2. Grows  BY DEF Grows, shared
  <1> QED  BY <1>1, <1>2, OneMoves

-----------------------------------------------------------------------------
\* IInv holds at the start.
LEMMA InitIInv == Init => IInv
  <1> SUFFICES ASSUME Init PROVE IInv  OBVIOUS
  <1>1. TypeOK  BY BootAssumption DEF Init, TypeOK
  <1>2. NoGapInSchema  BY DEF Init, NoGapInSchema, Prefix
  <1>3. \A p \in Procs : Knows(p)
    BY DEF Init, Knows, Migrated, WithStream, WithSchema
  <1> QED  BY <1>1, <1>2, <1>3 DEF IInv

\* No step of any process, and nothing the environment does, breaks IInv.
LEMMA NextIInv == IInv /\ [Next]_vars => IInv'
  <1> SUFFICES ASSUME IInv, [Next]_vars PROVE IInv'  OBVIOUS
  <1>1. CASE UNCHANGED vars
    <2>1. Grows /\ \A q \in Procs : Still(q)  BY <1>1 DEF Grows, Still, vars, shared, locals
    <2>2. TypeOK'  BY <1>1 DEF IInv, TypeOK, vars, shared, locals
    <2>3. NoGapInSchema'  BY <1>1 DEF IInv, NoGapInSchema, Prefix, vars, shared, locals
    <2> QED  BY <2>1, <2>2, <2>3, StillKnows DEF IInv
  <1>2. CASE Settle
    <2>1. Grows /\ \A q \in Procs : Still(q)  BY <1>2 DEF Settle, Grows, Still, shared, locals
    <2>2. TypeOK'  BY <1>2 DEF IInv, TypeOK, Settle, shared, locals
    <2>3. NoGapInSchema'  BY <1>2 DEF IInv, NoGapInSchema, Prefix, Settle, shared, locals
    <2> QED  BY <2>1, <2>2, <2>3, StillKnows DEF IInv
  <1>3. ASSUME NEW p \in Procs, Proceeds(p) \/ Disturbs(p) PROVE IInv'
    <2> USE <1>3
    <2>0. /\ UNCHANGED faults
          /\ TypeOK /\ NoGapInSchema /\ Knows(p)
          /\ env[p] \in Env
      BY BootAssumption DEF Proceeds, Disturbs, IInv, TypeOK
    <2>1. CASE Start(p)
      <3>1. TypeOK'  BY <2>0, <2>1 DEF TypeOK, Start, Go, shared, locals, Calls, TakesContext
      <3>2. \A q \in Procs \ {p} : Still(q)  BY <2>0, <2>1 DEF TypeOK, Start, Go, Still, locals
      <3>3. Knows(p)'
        BY <2>0, <2>1 DEF TypeOK, Knows, Start, Go, locals, shared, Migrated, WithStream, WithSchema
      <3> QED  BY <2>1, <3>1, <3>2, <3>3, OnlyLocal DEF Start
    <2>2. CASE Fails(p)  BY <2>0, <2>2, GoneStep DEF Fails
    <2>3. CASE Sigterm(p)
      <3>1. TypeOK'  BY <2>0, <2>3 DEF TypeOK, Sigterm, shared, locals
      <3>2. \A q \in Procs : Still(q)  BY <2>0, <2>3 DEF TypeOK, Sigterm, Still, locals
      <3>3. Grows /\ UNCHANGED shared  BY <2>3 DEF Sigterm, Grows, shared
      <3> QED  BY <3>1, <3>2, <3>3, StillKnows, OnlyLocal
    <2>4. CASE Crash(p)  BY <2>0, <2>4, GoneStep DEF Crash
    <2>5. CASE Return(p)  BY <2>0, <2>5, GoneStep DEF Return
    <2>6. CASE Open(p)
      <3>1. CASE Gone(p)  BY <2>0, <2>6, <3>1, GoneStep DEF Open
      <3>2. CASE Go(p, "pgload") /\ UNCHANGED <<env, ctx, locals>>
        <4>1. TypeOK'  BY <2>0, <2>6, <3>2 DEF TypeOK, Open, Alive, Go, shared, locals, Calls, TakesContext
        <4>2. \A q \in Procs \ {p} : Still(q)  BY <2>0, <3>2 DEF TypeOK, Go, Still, locals
        <4>3. Knows(p)'
          BY <2>0, <2>6, <3>2 DEF TypeOK, Knows, Open, Alive, Go, locals, shared, Migrated, WithStream, WithSchema
        <4> QED  BY <2>6, <4>1, <4>2, <4>3, OnlyLocal DEF Open
      <3> QED  BY <2>6, <3>1, <3>2 DEF Open
    <2>7. CASE LoadApplied(p)
      <3>1. TypeOK'
        BY <2>0, <2>7 DEF TypeOK, LoadApplied, AfterMigrate, Alive, Go, shared, Calls, TakesContext
      <3>2. \A q \in Procs \ {p} : Still(q)  BY <2>0, <2>7 DEF TypeOK, LoadApplied, Go, Still
      <3>3. Knows(p)'
        <4>1. (1 .. PgFiles) \subseteq pgRecorded => pgApplied = 1 .. PgFiles
          BY <2>0 DEF TypeOK
        <4> QED  BY <2>0, <2>7, <4>1 DEF TypeOK, Knows, LoadApplied, AfterMigrate, Alive, Go, shared,
                                          Migrated, WithStream, WithSchema
      <3> QED  BY <2>7, <3>1, <3>2, <3>3, OnlyLocal DEF LoadApplied
    <2>8. CASE ApplyMigration(p)
      <3> DEFINE f == Least(todo[p])
      <3>0. pc[p] = "pgapply" /\ todo[p] # {} /\ todo[p] \subseteq 1 .. PgFiles
        BY <2>0, <2>8 DEF ApplyMigration, Alive, TypeOK
      <3>1. f \in todo[p] /\ f \in 1 .. PgFiles /\ Prefix(pgApplied \cup {f})
        BY <2>0, <3>0, PrefixGrows, BootAssumption DEF TypeOK, NoGapInSchema, Knows
      <3> HIDE DEF f
      <3>2. /\ pgApplied' = pgApplied \cup {f} /\ pgRecorded' = pgRecorded \cup {f}
            /\ todo' = [todo EXCEPT ![p] = @ \ {f}]
            /\ pc' = [pc EXCEPT ![p] = IF todo[p] = {f} THEN AfterMigrate(p) ELSE "pgapply"]
            /\ UNCHANGED <<chApplied, chRecorded, stream, seeded, env, ctx, seen, tls, workers>>
        BY <2>8 DEF ApplyMigration, NextFile, Go, f
      <3>3. AfterMigrate(p) \in {"tenant", "nats"}  BY DEF AfterMigrate
      <3>4. TypeOK'
        <4>1. /\ pc' \in [Procs -> Calls \cup {"down", "spawn", "listen", "serving"}]
              /\ todo' \in [Procs -> SUBSET ((1 .. PgFiles) \cup (1 .. ChFiles))]
              /\ pgApplied' \subseteq 1 .. PgFiles /\ pgRecorded' \subseteq pgApplied'
          BY <2>0, <3>1, <3>2, <3>3 DEF TypeOK, Calls, TakesContext
        <4>2. ASSUME NEW q \in Procs
              PROVE  /\ pc'[q] \in {"pgapply", "chexec", "chrecord"} <=> todo'[q] # {}
                     /\ pc'[q] = "pgapply" => todo'[q] \subseteq 1 .. PgFiles
                     /\ pc'[q] \in {"chexec", "chrecord"} => todo'[q] \subseteq 1 .. ChFiles
          <5>1. CASE q = p
            BY <2>0, <3>0, <3>1, <3>2, <3>3, <5>1 DEF TypeOK
          <5>2. CASE q # p  BY <2>0, <3>2, <5>2 DEF TypeOK
          <5> QED  BY <5>1, <5>2
        <4> QED  BY <2>0, <3>2, <4>1, <4>2 DEF TypeOK
      <3>5. NoGapInSchema'
        BY <2>0, <3>1, <3>2 DEF NoGapInSchema, Prefix
      <3>6. Grows /\ \A q \in Procs \ {p} : Still(q)
        BY <2>0, <3>2 DEF TypeOK, Grows, Still
      <3>7. Knows(p)'
        <4>1. (1 .. PgFiles) \ todo'[p] \subseteq pgRecorded'
          BY <2>0, <3>0, <3>2 DEF TypeOK, Knows
        <4>2. todo[p] = {f} => pgApplied' = 1 .. PgFiles
          BY <2>0, <3>0, <3>1, <3>2 DEF TypeOK, Knows
        <4>3. pc'[p] = IF todo[p] = {f} THEN AfterMigrate(p) ELSE "pgapply"
          BY <2>0, <3>2 DEF TypeOK
        <4> QED  BY <2>0, <3>0, <3>2, <3>3, <4>1, <4>2, <4>3
                 DEF Knows, Migrated, WithStream, WithSchema
      <3> QED  BY <3>4, <3>5, <3>6, <3>7, OneMoves
    <2>9. CASE MigrationConflict(p)  BY <2>0, <2>9, GoneStep DEF MigrationConflict
    <2>10. CASE EnsureTenant(p)
      <3>1. TypeOK'  BY <2>0, <2>10 DEF TypeOK, EnsureTenant, Alive, Go, locals, Calls, TakesContext
      <3>2. \A q \in Procs \ {p} : Still(q)  BY <2>0, <2>10 DEF TypeOK, EnsureTenant, Go, Still, locals
      <3>3. Knows(p)'
        BY <2>0, <2>10 DEF TypeOK, Knows, EnsureTenant, Alive, Go, locals, Migrated, WithStream, WithSchema
      <3>4. NoGapInSchema' /\ Grows  BY <2>0, <2>10 DEF EnsureTenant, NoGapInSchema, Prefix, Grows
      <3> QED  BY <3>1, <3>2, <3>3, <3>4, OneMoves
    <2>11. CASE CreateUser(p)
      <3>1. TypeOK'  BY <2>0, <2>11 DEF TypeOK, CreateUser, Gone, Calls, TakesContext
      <3>2. Knows(p)' /\ \A q \in Procs \ {p} : Still(q)  BY <2>11, GoneKnows DEF CreateUser
      <3>3. NoGapInSchema' /\ Grows  BY <2>0, <2>11 DEF CreateUser, NoGapInSchema, Prefix, Grows
      <3> QED  BY <3>1, <3>2, <3>3, OneMoves
    <2>12. CASE Connect(p)
      <3>1. TypeOK'  BY <2>0, <2>12 DEF TypeOK, Connect, Alive, Go, shared, locals, Calls, TakesContext
      <3>2. \A q \in Procs \ {p} : Still(q)  BY <2>0, <2>12 DEF TypeOK, Connect, Go, Still, locals
      <3>3. Knows(p)'
        BY <2>0, <2>12 DEF TypeOK, Knows, Connect, Alive, Go, shared, locals, Migrated, WithStream, WithSchema
      <3> QED  BY <2>12, <3>1, <3>2, <3>3, OnlyLocal DEF Connect
    <2>13. CASE StreamInfo(p)
      <3>1. TypeOK'  BY <2>0, <2>13 DEF TypeOK, StreamInfo, Alive, Go, shared, Calls, TakesContext
      <3>2. \A q \in Procs \ {p} : Still(q)  BY <2>0, <2>13 DEF TypeOK, StreamInfo, Go, Still
      <3>3. Knows(p)'
        BY <2>0, <2>13 DEF TypeOK, Knows, StreamInfo, Alive, Go, shared, Migrated, WithStream, WithSchema
      <3> QED  BY <2>13, <3>1, <3>2, <3>3, OnlyLocal DEF StreamInfo
    <2>14. CASE EnsureStream(p)
      <3>1. CASE UNCHANGED stream /\ Gone(p)
        BY <2>0, <2>14, <3>1, GoneStep DEF EnsureStream, shared
      <3>2. CASE /\ stream' = IF streamConfigDiffers(p) THEN env[p].want ELSE stream
                 /\ Go(p, "chload") /\ UNCHANGED <<env, ctx, locals>>
        <4>0. /\ pc[p] = "ensure"
              /\ UNCHANGED <<pgApplied, pgRecorded, chApplied, chRecorded, seeded>>
          BY <2>14 DEF EnsureStream, Alive
        <4>1. env[p].want \in Versions /\ env[p].want # NoStream
          BY <2>0, BootAssumption DEF Env
        <4>2. stream' \in Versions \cup {NoStream} /\ stream' # NoStream
          BY <2>0, <3>2, <4>1 DEF TypeOK, streamConfigDiffers, Knows
        <4>3. TypeOK'  BY <2>0, <3>2, <4>0, <4>2 DEF TypeOK, Go, locals, Calls, TakesContext
        <4>4. \A q \in Procs \ {p} : Still(q)  BY <2>0, <3>2 DEF TypeOK, Go, Still, locals
        <4>5. Knows(p)'
          BY <2>0, <3>2, <4>0, <4>2 DEF TypeOK, Knows, Go, locals, Migrated, WithStream, WithSchema
        <4>6. NoGapInSchema' /\ Grows
          BY <2>0, <4>0, <4>2 DEF NoGapInSchema, Prefix, Grows
        <4> QED  BY <4>3, <4>4, <4>5, <4>6, OneMoves
      <3> QED  BY <2>14, <3>1, <3>2 DEF EnsureStream
    <2>15. CASE LoadSchema(p)
      <3>1. CASE Gone(p)  BY <2>0, <2>15, <3>1, GoneStep DEF LoadSchema
      <3>2. CASE /\ todo' = [todo EXCEPT ![p] = (1 .. ChFiles) \ chRecorded]
                 /\ Go(p, IF (1 .. ChFiles) \subseteq chRecorded THEN "spawn" ELSE "chexec")
                 /\ UNCHANGED <<env, ctx, seen, tls, workers>>
        <4>0. pc[p] = "chload" /\ UNCHANGED shared  BY <2>15 DEF LoadSchema, Alive
        <4>1. TypeOK'  BY <2>0, <3>2, <4>0 DEF TypeOK, Go, shared, Calls, TakesContext
        <4>2. \A q \in Procs \ {p} : Still(q)  BY <2>0, <3>2 DEF TypeOK, Go, Still
        <4>3. (1 .. ChFiles) \subseteq chRecorded => chApplied = 1 .. ChFiles
          BY <2>0 DEF TypeOK, NoGapInSchema
        <4>4. Knows(p)'
          BY <2>0, <3>2, <4>0, <4>3 DEF TypeOK, Knows, Go, shared, Migrated, WithStream, WithSchema
        <4> QED  BY <4>0, <4>1, <4>2, <4>4, OnlyLocal
      <3> QED  BY <2>15, <3>1, <3>2 DEF LoadSchema
    <2>16. CASE ExecSchema(p)
      <3> DEFINE f == Least(todo[p])
      <3>0. pc[p] = "chexec" /\ todo[p] # {} /\ todo[p] \subseteq 1 .. ChFiles
        BY <2>0, <2>16 DEF ExecSchema, Alive, TypeOK
      <3>1. f \in todo[p] /\ f \in 1 .. ChFiles /\ Prefix(chApplied \cup {f})
        BY <2>0, <3>0, PrefixGrows, BootAssumption DEF TypeOK, NoGapInSchema, Knows
      <3>2. /\ chApplied' = chApplied \cup {f}
            /\ pc' = [pc EXCEPT ![p] = "chrecord"]
            /\ UNCHANGED <<pgApplied, pgRecorded, chRecorded, stream, seeded, env, ctx, locals>>
        BY <2>16 DEF ExecSchema, NextFile, Go
      <3>3. TypeOK'  BY <2>0, <3>0, <3>1, <3>2 DEF TypeOK, locals, Calls, TakesContext
      <3>4. NoGapInSchema' /\ Grows  BY <2>0, <3>1, <3>2 DEF NoGapInSchema, Prefix, Grows
      <3>5. \A q \in Procs \ {p} : Still(q)  BY <2>0, <3>2 DEF TypeOK, Still, locals
      <3>6. Knows(p)'
        BY <2>0, <3>0, <3>2 DEF TypeOK, Knows, locals, Migrated, WithStream, WithSchema
      <3> QED  BY <3>3, <3>4, <3>5, <3>6, OneMoves
    <2>17. CASE RecordSchema(p)
      <3> DEFINE f == Least(todo[p])
      <3>0. pc[p] = "chrecord" /\ todo[p] # {} /\ todo[p] \subseteq 1 .. ChFiles /\ f \in chApplied
        BY <2>0, <2>17 DEF RecordSchema, Alive, TypeOK, Knows
      <3>1. f \in todo[p] /\ f \in 1 .. ChFiles /\ Prefix(chRecorded \cup {f})
        <4>1. chRecorded \in SUBSET (1 .. ChFiles)  BY <2>0 DEF TypeOK, NoGapInSchema
        <4> QED  BY <2>0, <3>0, <4>1, PrefixGrows, BootAssumption DEF NoGapInSchema, Knows
      <3>2. /\ chRecorded' = chRecorded \cup {f}
            /\ todo' = [todo EXCEPT ![p] = @ \ {f}]
            /\ pc' = [pc EXCEPT ![p] = IF todo[p] = {f} THEN "spawn" ELSE "chexec"]
            /\ UNCHANGED <<pgApplied, pgRecorded, chApplied, stream, seeded, env, ctx, seen, tls, workers>>
        BY <2>17 DEF RecordSchema, NextFile, Go
      <3> HIDE DEF f
      <3>3. TypeOK'
        <4>1. /\ pc' \in [Procs -> Calls \cup {"down", "spawn", "listen", "serving"}]
              /\ todo' \in [Procs -> SUBSET ((1 .. PgFiles) \cup (1 .. ChFiles))]
          BY <2>0, <3>2 DEF TypeOK, Calls, TakesContext
        <4>2. ASSUME NEW q \in Procs
              PROVE  /\ pc'[q] \in {"pgapply", "chexec", "chrecord"} <=> todo'[q] # {}
                     /\ pc'[q] = "pgapply" => todo'[q] \subseteq 1 .. PgFiles
                     /\ pc'[q] \in {"chexec", "chrecord"} => todo'[q] \subseteq 1 .. ChFiles
          <5>1. CASE q = p
            BY <2>0, <3>0, <3>1, <3>2, <5>1 DEF TypeOK
          <5>2. CASE q # p  BY <2>0, <3>2, <5>2 DEF TypeOK
          <5> QED  BY <5>1, <5>2
        <4> QED  BY <2>0, <3>2, <4>1, <4>2 DEF TypeOK
      <3>4. NoGapInSchema' /\ Grows  BY <2>0, <3>0, <3>1, <3>2 DEF NoGapInSchema, Prefix, Grows
      <3>5. \A q \in Procs \ {p} : Still(q)  BY <2>0, <3>2 DEF TypeOK, Still
      <3>6. Knows(p)'
        <4>1. (1 .. ChFiles) \ todo'[p] \subseteq chRecorded'
          BY <2>0, <3>0, <3>2 DEF TypeOK, Knows
        <4>2. todo[p] = {f} => chApplied' = 1 .. ChFiles
          <5>1. (1 .. ChFiles) \ todo[p] \subseteq chRecorded  BY <2>0, <3>0 DEF Knows
          <5>2. chRecorded \subseteq chApplied /\ chApplied \subseteq 1 .. ChFiles
            BY <2>0 DEF TypeOK, NoGapInSchema
          <5>3. f \in chApplied /\ chApplied' = chApplied  BY <3>0, <3>2 DEF f
          <5> QED  BY <5>1, <5>2, <5>3
        <4>3. pc'[p] = IF todo[p] = {f} THEN "spawn" ELSE "chexec"
          BY <2>0, <3>2 DEF TypeOK
        <4> QED  BY <2>0, <3>0, <3>2, <4>1, <4>2, <4>3 DEF Knows, Migrated, WithStream, WithSchema
      <3> QED  BY <3>3, <3>4, <3>5, <3>6, OneMoves
    <2>18. CASE Spawn(p)
      <3>1. TypeOK'  BY <2>0, <2>18 DEF TypeOK, Spawn, Go, shared, Calls, TakesContext
      <3>2. \A q \in Procs \ {p} : Still(q)  BY <2>0, <2>18 DEF TypeOK, Spawn, Go, Still
      <3>3. Knows(p)'
        BY <2>0, <2>18 DEF TypeOK, Knows, Spawn, Go, shared, Migrated, WithStream, WithSchema
      <3> QED  BY <2>18, <3>1, <3>2, <3>3, OnlyLocal DEF Spawn
    <2>19. CASE Listen(p)
      <3>1. CASE Gone(p)  BY <2>0, <2>19, <3>1, GoneStep DEF Listen
      <3> DEFINE how == IF env[p].autotls THEN "selfsigned"
                        ELSE IF hasCert(env[p]) THEN "tls" ELSE "plaintext"
      <3>2. CASE /\ New(env[p])
                 /\ tls' = [tls EXCEPT ![p] = how]
                 /\ Go(p, "serving")
                 /\ UNCHANGED <<env, ctx, todo, seen, workers>>
        <4>0. pc[p] = "listen" /\ UNCHANGED shared  BY <2>19 DEF Listen
        <4>1. TypeOK'  BY <2>0, <3>2, <4>0 DEF TypeOK, Go, shared, Calls, TakesContext
        <4>2. \A q \in Procs \ {p} : Still(q)  BY <2>0, <3>2 DEF TypeOK, Go, Still
        <4>3. Posture(env[p], how)
          BY <2>0, <3>2 DEF Posture, New, AutoTLS, isLoopbackAddr, validateTLSConfig, hasCert, hasKey, Env
        <4>4. Knows(p)'
          BY <2>0, <3>2, <4>0, <4>3 DEF TypeOK, Knows, Go, shared, Migrated, WithStream, WithSchema
        <4> QED  BY <4>0, <4>1, <4>2, <4>4, OnlyLocal
      <3> QED  BY <2>19, <3>1, <3>2 DEF Listen
    <2> QED
      BY <2>1, <2>2, <2>3, <2>4, <2>5, <2>6, <2>7, <2>8, <2>9, <2>10, <2>11, <2>12, <2>13,
         <2>14, <2>15, <2>16, <2>17, <2>18, <2>19 DEF Proceeds, Disturbs, Step
  <1> QED  BY <1>1, <1>2, <1>3 DEF Next

\* The invariant, of which the theorems below are consequences.
LEMMA Invariant == Spec => []IInv
  BY InitIInv, NextIInv, PTL DEF Spec

-----------------------------------------------------------------------------
\* Boot is type correct: a process is between two files exactly while it still has some.
THEOREM TypeCorrect == Spec => []TypeOK
  <1>1. IInv => TypeOK  BY DEF IInv
  <1> QED  BY <1>1, Invariant, PTL

\* However many processes migrate at once, and wherever they are killed, the applied
\* files of either store are a prefix of the files in name order.
THEOREM SchemaHasNoGap == Spec => []NoGapInSchema
  <1>1. IInv => NoGapInSchema  BY DEF IInv
  <1> QED  BY <1>1, Invariant, PTL

\* No control plane serves or evaluates, and no ns seed writes, before the schema it
\* needs is complete.
THEOREM ServesOnlyReady == Spec => []ReadyBeforeServing
  <1>1. IInv => ReadyBeforeServing
    BY DEF IInv, Knows, ReadyBeforeServing, Migrated, WithStream, WithSchema
  <1> QED  BY <1>1, Invariant, PTL

\* A control plane listens the way its environment asked for, or not at all.
THEOREM PostureHolds == Spec => []TLSPosture
  <1>1. IInv => TLSPosture  BY DEF IInv, Knows, TLSPosture, Posture
  <1> QED  BY <1>1, Invariant, PTL
=============================================================================
