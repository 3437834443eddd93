-------------------------- MODULE DescriptorsProofs -------------------------
(***************************************************************************)
(* Theorems about Descriptors, for any handlers, callers, names, contents  *)
(* and proto files.                                                        *)
(***************************************************************************)
EXTENDS Descriptors, TLAPS

-----------------------------------------------------------------------------
(* Types.                                                                  *)

\* What links is a registry.
LEMMA CombinedFiles ==
    ASSUME NEW store PROVE {x[2] : x \in Combined(store)} \subseteq ProtoFile
BY DEF Combined

\* What a call holds, and what the registry it holds makes of it.
Calls == [registry : Registry, by : SUBSET (0..MaxGeneration), step : {"decode", "encode", "answer"}]

LEMMA CallAdvanced ==
    ASSUME NEW v \in Calls, NEW step \in {"encode", "answer"},
           NEW w, w = [v EXCEPT !.by = v.by \cup {v.registry.generation}, !.step = step]
    PROVE  w \in Calls /\ w.registry = v.registry /\ w.by = v.by \cup {v.registry.generation}
<1>1. v.registry \in Registry /\ v.by \subseteq 0..MaxGeneration
  BY DEF Calls
<1>2. v.registry.generation \in 0..MaxGeneration
  BY <1>1 DEF Registry
<1>3. w = [registry |-> v.registry, by |-> v.by \cup {v.registry.generation}, step |-> step]
  BY DEF Calls
<1> QED BY <1>1, <1>2, <1>3 DEF Calls

LEMMA Converts ==
    ASSUME TypeOK, NEW c \in Callers, Decode(c) \/ Encode(c)
    PROVE  /\ call' \in [Callers -> {Nil} \cup Calls]
           /\ call'[c].registry = call[c].registry
           /\ call'[c].by = call[c].by \cup {call[c].registry.generation}
           /\ \A d \in Callers : d # c => call'[d] = call[d]
<1>1. call \in [Callers -> {Nil} \cup Calls]
  BY DEF TypeOK, Calls
<1>2. call[c] \in Calls
  BY <1>1 DEF Decode, Encode
<1>3. CASE Decode(c)
  <2> DEFINE w == [call[c] EXCEPT !.by = call[c].by \cup {call[c].registry.generation},
                                  !.step = "encode"]
  <2>1. /\ w \in Calls
        /\ w.registry = call[c].registry
        /\ w.by = call[c].by \cup {call[c].registry.generation}
    BY <1>2, CallAdvanced
  <2>2. call' = [call EXCEPT ![c] = w]
    BY <1>3 DEF Decode
  <2> HIDE DEF w
  <2> QED BY <1>1, <2>1, <2>2
<1>4. CASE Encode(c)
  <2> DEFINE w == [call[c] EXCEPT !.by = call[c].by \cup {call[c].registry.generation},
                                  !.step = "answer"]
  <2>1. /\ w \in Calls
        /\ w.registry = call[c].registry
        /\ w.by = call[c].by \cup {call[c].registry.generation}
    BY <1>2, CallAdvanced
  <2>2. call' = [call EXCEPT ![c] = w]
    BY <1>4 DEF Encode
  <2> HIDE DEF w
  <2> QED BY <1>1, <2>1, <2>2
<1> QED BY <1>3, <1>4

LEMMA InitTypeOK == Init => TypeOK
BY DescriptorsAssumption DEF Init, TypeOK, Registry

LEMMA StepTypeOK == TypeOK /\ [Next]_vars => TypeOK'
<1> SUFFICES ASSUME TypeOK, [Next]_vars PROVE TypeOK'
  OBVIOUS
<1> USE DescriptorsAssumption DEF TypeOK, Upload
<1>1. ASSUME NEW h \in Handlers, NEW p \in Puts, Put(h, p[1], p[2]) PROVE TypeOK'
  <2> DEFINE name == p[1]
             data == p[2]
  <2>1. name \in Names /\ data \in Contents
    OBVIOUS
  <2> HIDE DEF name, data
  <2>2. Put(h, name, data)
    BY <1>1 DEF name, data
  <2> QED BY <2>1, <2>2 DEF Put, Valid
<1>2. ASSUME NEW h \in Handlers, NEW p \in Puts, Delete(h, p[1]) PROVE TypeOK'
  <2>1. p[1] \in Names
    OBVIOUS
  <2> QED BY <1>2, <2>1 DEF Delete, Valid
<1>3. ASSUME NEW h \in Handlers, Reset(h) PROVE TypeOK'
  <2>1. active' \in Registry
    BY <1>3, CombinedFiles DEF Reset, Registry
  <2> QED BY <1>3, <2>1 DEF Reset, Valid
<1>4. ASSUME NEW h \in Handlers, NEW u \in Uploads, CreateUpload(h, u[1]) PROVE TypeOK'
  <2>1. u[1] \in Names
    OBVIOUS
  <2> QED BY <1>4, <2>1 DEF CreateUpload, Valid
<1>5. ASSUME NEW h \in Handlers, NEW u \in Uploads, PatchFile(h, u[1], u[2]) PROVE TypeOK'
  <2> DEFINE name == u[1]
             data == u[2]
  <2>1. name \in Names /\ data \in Contents
    OBVIOUS
  <2> HIDE DEF name, data
  <2>2. PatchFile(h, name, data)
    BY <1>5 DEF name, data
  <2> QED BY <2>1, <2>2 DEF PatchFile, Valid
<1>6. ASSUME NEW h \in Handlers, PatchDescriptor(h) PROVE TypeOK'
  <2>1. upload[h] \in [name : Names, data : Contents]
    BY <1>6 DEF PatchDescriptor
  <2> DEFINE name == upload[h].name
             data == upload[h].data
  <2>2. name \in Names /\ data \in Contents
    BY <2>1
  <2> HIDE DEF name, data
  <2>3. blobs' \in [Names -> Contents \cup {Nil}] /\ \A n \in Names : blobs'[n] # Nil => Valid(n, blobs'[n])
    BY <1>6, <2>2 DEF PatchDescriptor, PutLegacy, Valid, name, data
  <2> QED BY <1>6, <2>3 DEF PatchDescriptor, Valid
<1>7. ASSUME NEW c \in Callers, NEW service \in Services, Find(c, service) PROVE TypeOK'
  BY <1>7 DEF Find, Valid, Registry
<1>8. ASSUME NEW c \in Callers, Decode(c) \/ Encode(c) PROVE TypeOK'
  <2>1. call' \in [Callers -> {Nil} \cup Calls]
    BY <1>8, Converts DEF Decode, Encode
  <2> QED BY <1>8, <2>1 DEF Decode, Encode, Valid, Calls
<1>9. ASSUME NEW c \in Callers, AnswerCall(c) PROVE TypeOK'
  BY <1>9 DEF AnswerCall, Valid
<1>10. CASE UNCHANGED vars
  BY <1>10 DEF vars, Valid
<1> QED BY <1>1, <1>2, <1>3, <1>4, <1>5, <1>6, <1>7, <1>8, <1>9, <1>10 DEF Next, Refused

\* The stores hold what their kinds allow, and nothing of another type appears
\* in what the handlers and calls hold.
THEOREM TypeCorrect == Spec => []TypeOK
BY InitTypeOK, StepTypeOK, PTL DEF Spec

-----------------------------------------------------------------------------
(* Registries.  A registry changes by a reset only, whose result has the   *)
(* next generation: no older generation can be met again, so what a call   *)
(* holds is either the active registry or of an earlier generation.        *)

\* What holds of every registry a call has found its method in.
Finds(registry) == \E service \in Services : FindService(registry, service)

Inv ==
    /\ TypeOK
    /\ \A c \in Callers : call[c] # Nil =>
          /\ call[c].registry.generation <= active.generation
          /\ call[c].registry.generation = active.generation => call[c].registry = active
          /\ call[c].by \subseteq {call[c].registry.generation}
          /\ Finds(call[c].registry)
    /\ \A c, d \in Callers : call[c] # Nil /\ call[d] # Nil =>
          (call[c].registry.generation = call[d].registry.generation
              => call[c].registry = call[d].registry)

LEMMA InitInv == Init => Inv
BY InitTypeOK DEF Init, Inv

LEMMA StepInv == Inv /\ [Next]_vars => Inv'
<1> SUFFICES ASSUME Inv, [Next]_vars PROVE Inv'
  OBVIOUS
<1>1. TypeOK /\ TypeOK'
  BY StepTypeOK DEF Inv
<1>2. ASSUME NEW h \in Handlers, Reset(h) PROVE Inv'
  <2>1. active.generation \in Nat /\ active'.generation = active.generation + 1
    BY <1>1, <1>2 DEF Reset, TypeOK, Registry
  <2>2. \A c \in Callers : call[c] # Nil => call[c].registry.generation \in Nat
    BY <1>1 DEF TypeOK, Registry
  <2>3. call' = call
    BY <1>2 DEF Reset
  <2> QED BY <1>1, <2>1, <2>2, <2>3 DEF Inv
<1>3. ASSUME NEW c \in Callers, NEW service \in Services, Find(c, service) PROVE Inv'
  <2>1. active' = active /\ active.generation \in Nat
    BY <1>1, <1>3 DEF Find, TypeOK, Registry
  <2>2. CASE call' = call
    BY <1>1, <2>1, <2>2 DEF Inv
  <2>3. CASE /\ FindService(active, service)
             /\ call' = [call EXCEPT ![c] = [registry |-> active, by |-> {}, step |-> "decode"]]
    <3>1. call'[c].registry = active /\ call'[c].by = {} /\ Finds(active)
      BY <1>1, <2>3 DEF TypeOK, Finds
    <3>2. \A d \in Callers : d # c => call'[d] = call[d]
      BY <1>1, <2>3 DEF TypeOK
    <3> QED BY <1>1, <2>1, <3>1, <3>2 DEF Inv
  <2> QED BY <1>3, <2>2, <2>3 DEF Find
<1>4. ASSUME NEW c \in Callers, Decode(c) \/ Encode(c) PROVE Inv'
  <2>1. active' = active
    BY <1>4 DEF Decode, Encode
  <2>2. call[c] # Nil /\ call[c] \in [registry : Registry, by : SUBSET (0..MaxGeneration),
                                      step : {"decode", "encode", "answer"}]
    BY <1>1, <1>4 DEF Decode, Encode, TypeOK
  <2>3. /\ call'[c].registry = call[c].registry
        /\ call'[c].by = call[c].by \cup {call[c].registry.generation}
        /\ \A d \in Callers : d # c => call'[d] = call[d]
    BY <1>1, <1>4, Converts
  <2> QED BY <1>1, <2>1, <2>2, <2>3 DEF Inv
<1>5. ASSUME NEW c \in Callers, AnswerCall(c) PROVE Inv'
  <2>1. active' = active /\ call'[c] = Nil /\ \A d \in Callers : d # c => call'[d] = call[d]
    BY <1>1, <1>5 DEF AnswerCall, TypeOK
  <2> QED BY <1>1, <2>1 DEF Inv
<1>6. CASE UNCHANGED <<active, call>>
  BY <1>1, <1>6 DEF Inv
<1> QED BY <1>2, <1>3, <1>4, <1>5, <1>6
    DEF Next, Put, Delete, Refused, CreateUpload, PatchFile, PatchDescriptor, vars

LEMMA Invariance == Spec => []Inv
BY InitInv, StepInv, PTL DEF Spec

\* Two registries in use that have the same generation are the same.
THEOREM GenerationCorrect == Spec => []GenerationNamesRegistry
<1>1. Inv => GenerationNamesRegistry
  BY DEF Inv, GenerationNamesRegistry, Held
<1> QED BY <1>1, Invariance, PTL

\* A call is decoded and encoded by one registry, which has its service.
THEOREM CallCorrect == Spec => []OneRegistry
<1>1. Inv => OneRegistry
  BY DEF Inv, OneRegistry, Finds
<1> QED BY <1>1, Invariance, PTL

\* What a reset builds is made of all descriptor sets stored at that moment.
LEMMA CombinedIsAll ==
    ASSUME TypeOK
    PROVE  {x[2] : x \in Combined(blobs)}
               = UNION {FilesIn[blobs[name]] : name \in
                     {n \in Names : Kind[n] = "descriptor-set" /\ blobs[n] # Nil}}
<1> DEFINE sets == {n \in Names : Kind[n] = "descriptor-set" /\ blobs[n] # Nil}
<1>1. ASSUME NEW f, f \in {x[2] : x \in Combined(blobs)}
      PROVE  f \in UNION {FilesIn[blobs[name]] : name \in sets}
  BY <1>1 DEF Combined
<1>2. ASSUME NEW name \in sets, NEW f \in FilesIn[blobs[name]]
      PROVE  f \in {x[2] : x \in Combined(blobs)}
  <2>1. blobs[name] \in Contents
    BY DEF TypeOK
  <2>2. f \in ProtoFile
    BY <2>1 DEF ProtoFile
  <2>3. <<name, f>> \in Combined(blobs)
    BY <2>2 DEF Combined
  <2> QED BY <2>3
<1> QED BY <1>1, <1>2

\* The registry changes by a reset only, to the whole of what is stored.
THEOREM ResetCorrect == Spec => RegistryByReset
<1>1. TypeOK /\ [Next]_vars => [active' # active =>
         /\ active'.generation = active.generation + 1
         /\ active'.files = UNION {FilesIn[blobs[name]] : name \in
                {n \in Names : Kind[n] = "descriptor-set" /\ blobs[n] # Nil}}]_vars
  <2> SUFFICES ASSUME TypeOK, Next, active' # active
               PROVE  /\ active'.generation = active.generation + 1
                      /\ active'.files = UNION {FilesIn[blobs[name]] : name \in
                             {n \in Names : Kind[n] = "descriptor-set" /\ blobs[n] # Nil}}
    OBVIOUS
  <2>1. PICK h \in Handlers : Reset(h)
    BY DEF Next, Put, Delete, Refused, CreateUpload, PatchFile, PatchDescriptor,
           Find, Decode, Encode, AnswerCall, vars
  <2> QED BY <2>1, CombinedIsAll DEF Reset
<1> QED BY <1>1, TypeCorrect, PTL DEF Spec, RegistryByReset

-----------------------------------------------------------------------------
(* The two copies of an upload.  While one upload of a name is under way,  *)
(* the handler carries the body the file store has, unless the file has    *)
(* been created anew in the meantime; it owes the descriptor store that    *)
(* body, and pays on its next step.                                        *)

Carries(h, name) == upload[h] # Nil /\ upload[h].name = name

Carried ==
    \A name \in Names \ mixed, h \in Handlers : Carries(h, name) =>
        /\ \A k \in Handlers : Carries(k, name) => k = h
        /\ files[name] \in {upload[h].data, Empty}

Copies == TypeOK /\ Carried /\ CopiesAgree

LEMMA InitCopies == Init => Copies
<1> SUFFICES ASSUME Init PROVE Copies
  OBVIOUS
<1>1. \A name \in Names : files[name] = Nil
  BY DEF Init
<1>2. Carried
  BY DEF Init, Carried, Carries
<1>3. CopiesAgree
  BY <1>1, DescriptorsAssumption DEF CopiesAgree
<1> QED BY <1>2, <1>3, InitTypeOK DEF Copies

\* Only the names an action is about lose or gain a copy.
LEMMA StepCopies == Copies /\ [Next]_vars => Copies'
<1> SUFFICES ASSUME Copies, [Next]_vars PROVE Copies'
  OBVIOUS
<1> USE DescriptorsAssumption
<1>1. TypeOK /\ TypeOK'
  BY StepTypeOK DEF Copies
<1>2. \A h \in Handlers : upload[h] # Nil => upload[h].name \in Names /\ upload[h].data \in Contents
  BY <1>1 DEF TypeOK, Upload
<1>3. ASSUME NEW name \in Names, UNCHANGED <<files, upload>>, mixed' = mixed \cup {name},
             \A n \in Names \ {name} : blobs'[n] = blobs[n]
      PROVE  Carried' /\ CopiesAgree'
  BY <1>3 DEF Copies, Carried, CopiesAgree, Carries, Uploading, Valid
<1>4. ASSUME NEW h \in Handlers, NEW p \in Puts, Put(h, p[1], p[2]) \/ Delete(h, p[1])
      PROVE  Carried' /\ CopiesAgree'
  <2>1. p[1] \in Names
    OBVIOUS
  <2>2. \A n \in Names \ {p[1]} : blobs'[n] = blobs[n]
    BY <1>1, <1>4 DEF Put, Delete, TypeOK
  <2> QED BY <1>3, <1>4, <2>1, <2>2 DEF Put, Delete
<1>5. ASSUME NEW h \in Handlers, NEW u \in Uploads, CreateUpload(h, u[1])
      PROVE  Carried' /\ CopiesAgree'
  <2> DEFINE name == u[1]
  <2>1. name \in Names
    OBVIOUS
  <2> HIDE DEF name
  <2>2. /\ files'[name] = Empty /\ \A n \in Names \ {name} : files'[n] = files[n]
        /\ blobs' = blobs /\ upload' = upload /\ mixed' = mixed
    BY <1>1, <1>5, <2>1 DEF CreateUpload, TypeOK, name
  <2>3. Carried'
    BY <2>2 DEF Copies, Carried, Carries
  <2>4. CopiesAgree'
    BY <2>2 DEF Copies, CopiesAgree, Uploading, Valid
  <2> QED BY <2>3, <2>4
<1>6. ASSUME NEW h \in Handlers, NEW u \in Uploads, PatchFile(h, u[1], u[2])
      PROVE  Carried' /\ CopiesAgree'
  <2> DEFINE name == u[1]
             data == u[2]
             up == [name |-> name, data |-> data]
  <2>1. name \in Names /\ data \in Contents /\ up \in Upload /\ up # Nil
    BY DEF Upload
  <2>2. up.name = name /\ up.data = data
    OBVIOUS
  <2> HIDE DEF up, name, data
  <2>3. /\ upload[h] = Nil /\ upload'[h] = up
        /\ \A k \in Handlers \ {h} : upload'[k] = upload[k]
        /\ files'[name] = data /\ \A n \in Names \ {name} : files'[n] = files[n]
        /\ blobs' = blobs
        /\ mixed' = IF Uploading(name) THEN mixed \cup {name} ELSE mixed \ {name}
    BY <1>1, <1>6, <2>1 DEF PatchFile, TypeOK, up, name, data
  <2>4. \A n \in Names \ {name} : n \notin mixed' <=> n \notin mixed
    BY <2>3
  <2>5. name \notin mixed' => \A k \in Handlers : ~ Carries(k, name)
    BY <2>3 DEF Uploading, Carries
  <2>6. Carried'
    <3> SUFFICES ASSUME NEW n \in Names \ mixed', NEW k \in Handlers, Carries(k, n)'
                 PROVE  /\ \A l \in Handlers : Carries(l, n)' => l = k
                        /\ files'[n] \in {upload'[k].data, Empty}
      BY DEF Carried
    <3>1. CASE n = name
      BY <3>1, <2>1, <2>2, <2>3, <2>5 DEF Carries
    <3>2. CASE n # name
      BY <3>2, <2>2, <2>3, <2>4 DEF Copies, Carried, Carries
    <3> QED BY <3>1, <3>2
  <2>7. CopiesAgree'
    <3> SUFFICES ASSUME NEW n \in Names \ mixed', Kind[n] = "descriptor-set",
                        ~ Uploading(n)', files'[n] \in Contents, Valid(n, files'[n])
                 PROVE  blobs'[n] = files'[n]
      BY DEF CopiesAgree, Valid
    <3>1. n # name
      BY <2>1, <2>2, <2>3 DEF Uploading
    <3>2. ~ Uploading(n)
      BY <3>1, <2>3 DEF Uploading
    <3> QED BY <3>1, <3>2, <2>3, <2>4 DEF Copies, CopiesAgree
  <2> QED BY <2>6, <2>7
<1>7. ASSUME NEW h \in Handlers, PatchDescriptor(h) PROVE Carried' /\ CopiesAgree'
  <2> DEFINE name == upload[h].name
             data == upload[h].data
  <2>1. upload[h] # Nil /\ name \in Names /\ data \in Contents
    BY <1>2, <1>7 DEF PatchDescriptor
  <2>2. Carries(h, name)
    BY <2>1 DEF Carries
  <2> SUFFICES ASSUME NEW nm, nm = name PROVE Carried' /\ CopiesAgree'
    OBVIOUS
  <2>3. /\ upload'[h] = Nil /\ \A k \in Handlers \ {h} : upload'[k] = upload[k]
        /\ files' = files /\ mixed' = mixed
        /\ \A n \in Names \ {nm} : blobs'[n] = blobs[n]
        /\ Kind[nm] = "descriptor-set" /\ Valid(nm, data) => blobs'[nm] = data
    BY <1>1, <1>7, <2>1 DEF PatchDescriptor, PutLegacy, TypeOK
  <2>4. Carried'
    BY <2>3 DEF Copies, Carried, Carries
  <2>5. CopiesAgree'
    <3> SUFFICES ASSUME NEW n \in Names \ mixed, Kind[n] = "descriptor-set",
                        ~ Uploading(n)', files[n] \in Contents, Valid(n, files[n])
                 PROVE  blobs'[n] = files[n]
      BY <2>3 DEF CopiesAgree, Valid
    <3>1. CASE n = nm
      <4>1. files[n] = data
        BY <3>1, <2>1, <2>2 DEF Copies, Carried
      <4> QED BY <3>1, <4>1, <2>3
    <3>2. CASE n # nm
      <4>1. ~ Uploading(n)
        BY <3>2, <2>3 DEF Uploading
      <4> QED BY <3>2, <4>1, <2>3 DEF Copies, CopiesAgree
    <3> QED BY <3>1, <3>2
  <2> QED BY <2>4, <2>5
<1>8. ASSUME UNCHANGED <<blobs, files, upload, mixed>> PROVE Carried' /\ CopiesAgree'
  <2>1. Carried'
    BY <1>8 DEF Copies, Carried, Carries
  <2>2. CopiesAgree'
    BY <1>8 DEF Copies, CopiesAgree, Uploading, Valid
  <2> QED BY <2>1, <2>2
<1>9. ASSUME NEW h \in Handlers, Reset(h) \/ Refused(h) PROVE Carried' /\ CopiesAgree'
  BY <1>8, <1>9 DEF Reset, Refused, vars
<1>10. ASSUME NEW c \in Callers,
              (\E service \in Services : Find(c, service)) \/ Decode(c) \/ Encode(c) \/ AnswerCall(c)
       PROVE  Carried' /\ CopiesAgree'
  BY <1>8, <1>10 DEF Find, Decode, Encode, AnswerCall
<1>11. CASE UNCHANGED vars
  BY <1>1, <1>8, <1>11 DEF vars, Copies
<1> QED BY <1>1, <1>4, <1>5, <1>6, <1>7, <1>9, <1>10, <1>11 DEF Copies, Next

\* A file that was uploaded as a descriptor set is the descriptor set a reset
\* takes, when its uploads came one after the other.
THEOREM CopiesCorrect == Spec => []CopiesAgree
BY InitCopies, StepCopies, PTL DEF Spec, Copies
=============================================================================
