---------------------------- MODULE Descriptors -----------------------------
(***************************************************************************)
(* Descriptors: the descriptor store of gRPC, the file store, the handlers *)
(* that fill them, and the gRPC calls that are decoded and encoded by the  *)
(* registry they found their method in.                                    *)
(*                                                                         *)
(* Each method of a store is one step under its mutex.  A legacy upload    *)
(* goes from the file store to the descriptor store with the bytes it read.*)
(* A call goes on with the registry it has looked up; what happens to it   *)
(* between decoding and encoding concerns the other stores.                *)
(***************************************************************************)
EXTENDS Integers, FiniteSets

CONSTANTS
    Handlers,       \* goroutines that serve the admin and the legacy API
    Callers,        \* goroutines that serve gRPC calls
    Names,          \* file names, trimmed
    Kind,           \* name -> "descriptor-set", "proto-source" or "other"
    Contents,       \* bodies of uploads
    FilesIn,        \* body -> the proto files it describes, none if it is no
                    \* FileDescriptorSet
    Puts, Uploads,  \* the pairs of name and body given to either API
    Texts,          \* the bodies that are valid UTF-8 and not empty
    Services,       \* full names of services
    Nil,            \* no file, no descriptor, no upload, no call
    Empty,          \* the body of a file that was created and not yet uploaded
    MaxGeneration   \* bound on the successful resets of a behaviour, for TLC

\* What a handler takes from the file store to the descriptor store.
Upload == [name : Names, data : Contents]

\* A proto file: its path, the paths it imports, the names it defines.
ProtoFile == UNION {FilesIn[d] : d \in Contents}

ASSUME DescriptorsAssumption ==
    /\ Kind \in [Names -> {"descriptor-set", "proto-source", "other"}]
    /\ Puts \subseteq Names \X Contents
    /\ Uploads \subseteq Names \X Contents
    /\ Texts \subseteq Contents
    /\ DOMAIN FilesIn = Contents
    /\ \A f \in ProtoFile : DOMAIN f = {"path", "imports", "defines"}
    /\ Nil \notin Contents \cup Upload
    /\ Empty \notin Contents \cup {Nil}
    /\ MaxGeneration \in Nat

VARIABLES
    blobs,          \* Store.blobs: name -> body, or Nil
    active,         \* Store.active, with the generation of the store
    files,          \* MemoryStore.files: name -> body, Empty or Nil
    upload,         \* what a handler holds between the two stores, or Nil
    call            \* [registry, by] of a caller, or Nil: the registry it holds
                    \* and the generations it has converted messages by

\* History: the names whose two copies need not agree, because uploads of them
\* overlapped or the descriptor API changed one copy.
VARIABLE mixed

vars == <<blobs, active, files, upload, call, mixed>>

-----------------------------------------------------------------------------
\* validateBlob, for a name that ValidateFileName accepts.
Valid(name, data) ==
    \/ Kind[name] = "descriptor-set" /\ FilesIn[data] # {}
    \/ Kind[name] = "proto-source" /\ data \in Texts

\* The files of all descriptor sets, with the blob each comes from: the same
\* file in two blobs is there twice.
Combined(store) ==
    {x \in Names \X ProtoFile :
        /\ Kind[x[1]] = "descriptor-set"
        /\ store[x[1]] # Nil
        /\ x[2] \in FilesIn[store[x[1]]]}

\* protodesc.NewFiles: no path and no name twice, every import is there, and
\* there is no cycle of imports.
Links(combined) ==
    /\ \A x, y \in combined :
          x # y => x[2].path # y[2].path /\ x[2].defines \cap y[2].defines = {}
    /\ \A x \in combined : \A path \in x[2].imports : \E y \in combined : y[2].path = path
    /\ \A part \in (SUBSET combined) \ {{}} :
          \E x \in part : \A y \in part : y[2].path \notin x[2].imports

-----------------------------------------------------------------------------
Init ==
    /\ blobs = [name \in Names |-> Nil]
    /\ active = [generation |-> 0, files |-> {}]
    /\ files = [name \in Names |-> Nil]
    /\ upload = [h \in Handlers |-> Nil]
    /\ call = [c \in Callers |-> Nil]
    /\ mixed = {}

\* putGRPCDescriptor: Store.Put of a body that validates.
Put(h, name, data) ==
    /\ upload[h] = Nil
    /\ Valid(name, data)
    /\ blobs' = [blobs EXCEPT ![name] = data]
    /\ mixed' = mixed \cup {name}
    /\ UNCHANGED <<active, files, upload, call>>

\* Seeded bug: the files of a deleted descriptor leave the registry at once.
DeleteUnloads(h, name) ==
    /\ upload[h] = Nil
    /\ blobs[name] # Nil
    /\ blobs' = [blobs EXCEPT ![name] = Nil]
    /\ active' = [active EXCEPT !.files = @ \ FilesIn[blobs[name]]]
    /\ mixed' = mixed \cup {name}
    /\ UNCHANGED <<files, upload, call>>

\* deleteGRPCDescriptor
Delete(h, name) ==
    /\ upload[h] = Nil
    /\ blobs[name] # Nil
    /\ blobs' = [blobs EXCEPT ![name] = Nil]
    /\ mixed' = mixed \cup {name}
    /\ UNCHANGED <<active, files, upload, call>>

\* Seeded bug: the new registry has the generation of the old one.
ResetKeepsGeneration(h) ==
    /\ upload[h] = Nil
    /\ active.generation < MaxGeneration
    /\ Links(Combined(blobs))
    /\ active' = [active EXCEPT !.files = {x[2] : x \in Combined(blobs)}]
    /\ UNCHANGED <<blobs, files, upload, call, mixed>>

\* resetGRPC
Reset(h) ==
    /\ upload[h] = Nil
    /\ active.generation < MaxGeneration
    /\ Links(Combined(blobs))
    /\ active' = [generation |-> active.generation + 1,
                  files |-> {x[2] : x \in Combined(blobs)}]
    /\ UNCHANGED <<blobs, files, upload, call, mixed>>

\* A reset that does not link, a put that does not validate and a deletion
\* that finds nothing answer an error and change nothing.
Refused(h) ==
    /\ upload[h] = Nil
    /\ \/ ~ Links(Combined(blobs))
       \/ \E p \in Puts : blobs[p[1]] = Nil \/ ~ Valid(p[1], p[2])
    /\ UNCHANGED vars

-----------------------------------------------------------------------------
\* createUpload, of a request whose headers pass: another changes nothing.
CreateUpload(h, name) ==
    /\ upload[h] = Nil
    /\ files' = [files EXCEPT ![name] = Empty]
    /\ UNCHANGED <<blobs, active, upload, call, mixed>>

Uploading(name) == \E h \in Handlers : upload[h] # Nil /\ upload[h].name = name

\* patchUpload, as far as the file store.
PatchFile(h, name, data) ==
    /\ upload[h] = Nil
    /\ files' = [files EXCEPT ![name] = data]
    /\ upload' = [upload EXCEPT ![h] = [name |-> name, data |-> data]]
    /\ mixed' = IF Uploading(name) THEN mixed \cup {name} ELSE mixed \ {name}
    /\ UNCHANGED <<blobs, active, call>>

\* Seeded bug: proto sources are stored, too, and nothing is validated.
PutLegacyUnvalidated(name, data) ==
    blobs' = IF Kind[name] = "other" THEN blobs ELSE [blobs EXCEPT ![name] = data]

\* Seeded bug: an upload does not replace a descriptor.
PutLegacyOnce(name, data) ==
    blobs' = IF Kind[name] = "descriptor-set" /\ Valid(name, data) /\ blobs[name] = Nil
             THEN [blobs EXCEPT ![name] = data]
             ELSE blobs

\* Store.PutLegacy, which takes descriptor sets only and tells nobody that it
\* has refused something else.
PutLegacy(name, data) ==
    blobs' = IF Kind[name] = "descriptor-set" /\ Valid(name, data)
             THEN [blobs EXCEPT ![name] = data]
             ELSE blobs

\* patchUpload, from there on.
PatchDescriptor(h) ==
    /\ upload[h] # Nil
    /\ PutLegacy(upload[h].name, upload[h].data)
    /\ upload' = [upload EXCEPT ![h] = Nil]
    /\ UNCHANGED <<active, files, call, mixed>>

-----------------------------------------------------------------------------
\* Registry.FindService
FindService(registry, service) == \E f \in registry.files : service \in f.defines

\* findGRPCMethod.  A call whose service the registry does not have is answered
\* with UNIMPLEMENTED.
Find(c, service) ==
    /\ call[c] = Nil
    /\ IF FindService(active, service)
       THEN call' = [call EXCEPT ![c] = [registry |-> active, by |-> {}, step |-> "decode"]]
       ELSE UNCHANGED call
    /\ UNCHANGED <<blobs, active, files, upload, mixed>>

\* decodeProtoJSON
Decode(c) ==
    /\ call[c] # Nil
    /\ call[c].step = "decode"
    /\ call' = [call EXCEPT ![c] = [@ EXCEPT !.by = call[c].by \cup {call[c].registry.generation},
                                             !.step = "encode"]]
    /\ UNCHANGED <<blobs, active, files, upload, mixed>>

\* Seeded bug: the response is encoded by the registry of that moment.
EncodeByActive(c) ==
    /\ call[c] # Nil
    /\ call[c].step = "encode"
    /\ call' = [call EXCEPT ![c] = [@ EXCEPT !.by = call[c].by \cup {active.generation},
                                             !.step = "answer"]]
    /\ UNCHANGED <<blobs, active, files, upload, mixed>>

\* encodeProtoJSON
Encode(c) ==
    /\ call[c] # Nil
    /\ call[c].step = "encode"
    /\ call' = [call EXCEPT ![c] = [@ EXCEPT !.by = call[c].by \cup {call[c].registry.generation},
                                             !.step = "answer"]]
    /\ UNCHANGED <<blobs, active, files, upload, mixed>>

\* The answer, which every failure on the way leads to as well: a frame that
\* cannot be read or decoded, no stub, a delay cut short, a stub with
\* proxyBaseUrl or with an error status, a body that does not encode.
AnswerCall(c) ==
    /\ call[c] # Nil
    /\ call' = [call EXCEPT ![c] = Nil]
    /\ UNCHANGED <<blobs, active, files, upload, mixed>>

Next ==
    \/ \E h \in Handlers :
          \/ \E p \in Puts : Put(h, p[1], p[2]) \/ Delete(h, p[1])
          \/ Reset(h)
          \/ Refused(h)
          \/ \E u \in Uploads : CreateUpload(h, u[1]) \/ PatchFile(h, u[1], u[2])
          \/ PatchDescriptor(h)
    \/ \E c \in Callers :
          \/ \E service \in Services : Find(c, service)
          \/ Decode(c) \/ Encode(c) \/ AnswerCall(c)

Spec == Init /\ [][Next]_vars

-----------------------------------------------------------------------------
(* Properties.                                                             *)
Registry == [generation : 0..MaxGeneration, files : SUBSET ProtoFile]

\* Types.  What is stored is valid for its kind, so that a reset never finds a
\* descriptor set it cannot parse.
TypeOK ==
    /\ blobs \in [Names -> Contents \cup {Nil}]
    /\ \A name \in Names : blobs[name] # Nil => Valid(name, blobs[name])
    /\ active \in Registry
    /\ files \in [Names -> Contents \cup {Empty, Nil}]
    /\ upload \in [Handlers -> {Nil} \cup Upload]
    /\ call \in [Callers -> {Nil} \cup [registry : Registry, by : SUBSET (0..MaxGeneration),
                                       step : {"decode", "encode", "answer"}]]
    /\ mixed \subseteq Names

\* The registry is replaced as a whole and by a reset only, which takes all
\* descriptor sets there are: puts, deletions and failed resets do not show.
RegistryByReset ==
    [][active' # active =>
         /\ active'.generation = active.generation + 1
         /\ active'.files = UNION {FilesIn[blobs[name]] : name \in
                {n \in Names : Kind[n] = "descriptor-set" /\ blobs[n] # Nil}}]_vars

Held == {active} \cup {call[c].registry : c \in {c \in Callers : call[c] # Nil}}

\* A generation names one registry: the active one and those that calls still
\* hold are equal when their generations are.
GenerationNamesRegistry ==
    \A r, s \in Held : r.generation = s.generation => r = s

\* A call is decoded and encoded by one registry, which has its service, though
\* resets replace the active one meanwhile.
OneRegistry ==
    \A c \in Callers : call[c] # Nil =>
        /\ call[c].by \subseteq {call[c].registry.generation}
        /\ \E service \in Services : FindService(call[c].registry, service)

\* The two copies of an upload agree: the body file of a descriptor set is the
\* descriptor set a reset takes, unless uploads of that name overlapped or the
\* descriptor API has changed it.
CopiesAgree ==
    \A name \in Names \ mixed :
        ( /\ Kind[name] = "descriptor-set"
          /\ ~ Uploading(name)
          /\ files[name] \in Contents
          /\ Valid(name, files[name]) ) => blobs[name] = files[name]
=============================================================================
