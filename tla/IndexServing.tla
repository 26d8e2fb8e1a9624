---------------------------- MODULE IndexServing ----------------------------
(***************************************************************************)
(* The container beside the volume.  docker-entrypoint.sh checks the       *)
(* environment and verifies faiss_index, waits for Ollama as long as it    *)
(* takes, reads the proxy secret for nginx and only then starts uvicorn,   *)
(* whose import of api.main loads faiss_index by path and whose startup    *)
(* event validates the environment again and builds the control plane.     *)
(* Between the verification and the loads lies an unbounded window, and    *)
(* nothing in the code keeps maintenance out of it: the freeze of restarts *)
(* that lifecycle.py and docker-entrypoint.sh ask for is the operator's.   *)
(***************************************************************************)
EXTENDS IndexLifecycle

CONSTANT Settings   \* the environments that containers are started in

ASSUME SettingsAssumption ==
  Settings \subseteq
    [auth   : BOOLEAN,        \* AUTH_ENABLED=true
     jwt    : {"unset", "blank", "placeholder", "set"},  \* JWT_SECRET
     claims : BOOLEAN,        \* JWT_AUDIENCE and JWT_ISSUER are set
     secret : {"missing", "weak", "shared", "own"},    \* the proxy secret file
     direct : BOOLEAN]        \* no part of the index path is a symlink

VARIABLES
  setting,    \* the environment of the container, None while there is none
  svc,        \* "down", "waiting" for Ollama, "ready" to load, "half" loaded,
              \* "loaded", "up"
  vectors,    \* the content whose index.faiss is in memory
  metadata,   \* the content whose metadata.pkl is in memory
  undisturbed \* history: faiss_index has held the same artifacts from the
              \* verification to the end of the load

serviceVars == <<setting, svc, vectors, metadata, undisturbed>>
servingVars == <<vars, serviceVars>>

(* Between the verification and the end of the load. *)
Starting == svc \in {"waiting", "ready", "half"}

ServingInit ==
  /\ Init
  /\ setting = None
  /\ svc = "down"
  /\ vectors = None
  /\ metadata = None
  /\ undisturbed = TRUE

(* load_proxy_secret: a file that is not a private regular one, a value    *)
(* that is short or a placeholder, and JWT_SECRET itself are refused.      *)
SecretLoads(s) == s.secret \notin {"missing", "weak", "shared"}

(* The shell's test of JWT_SECRET sees its exact value: one that is blank  *)
(* only once it is stripped gets past it.                                  *)
EntrypointAccepts(s) ==
  s.auth => s.jwt \in {"blank", "set"} /\ SecretLoads(s)

(* validate_auth_config, before a request is served. *)
AuthConfigured(s) ==
  s.auth => s.jwt = "set" /\ s.claims /\ SecretLoads(s)

(* A start that also insists on a recorded promotion. *)
VerifyIndex_Labelled ==
  Validates(fs[Current], TRUE) /\ fs[Current].man.label = "PROMOTED"

(* A start that leaves PUBLIC-only to the manifest. *)
VerifyIndex_AnyVisibility == Validates(fs[Current], FALSE)

(* verify_index.py --require-public-only *)
VerifyIndex == Validates(fs[Current], TRUE)

(* The entrypoint: a refused environment and an absent or invalid index    *)
(* fail the start, which the restart policy then repeats.  Ollama answers  *)
(* at once or not.                                                         *)
ServiceVerify(s) ==
  /\ svc = "down"
  /\ EntrypointAccepts(s)
  /\ s.direct
  /\ VerifyIndex
  /\ svc' \in {"waiting", "ready"}
  /\ setting' = s
  /\ UNCHANGED <<vars, vectors, metadata, undisturbed>>

(* `until curl ...; do sleep 3; done`: nothing bounds the wait. *)
OllamaAnswers ==
  /\ svc = "waiting"
  /\ svc' = "ready"
  /\ UNCHANGED <<vars, setting, vectors, metadata, undisturbed>>

(* After the wait, the proxy secret is read whether authentication is      *)
(* enabled or not, and VectorStore.load reads index.faiss.  A missing      *)
(* index is only logged: the service goes on without one.                  *)
ServiceLoadVectors ==
  /\ svc = "ready"
  /\ SecretLoads(setting)
  /\ vectors' = CurrentContent
  /\ svc' = IF CurrentContent # None THEN "half" ELSE "loaded"
  /\ UNCHANGED <<vars, setting, metadata, undisturbed>>

(* ... then metadata.pkl, by path again. *)
ServiceLoadMetadata ==
  /\ svc = "half"
  /\ CurrentContent # None
  /\ svc' = "loaded"
  /\ metadata' = CurrentContent
  /\ UNCHANGED <<vars, setting, vectors, undisturbed>>

(* The startup event: the environment, then the control plane, which takes *)
(* over the store as it was loaded, seeds the graph and the plugins and    *)
(* becomes READY.  Requests are served from then on.                       *)
ServiceStartup ==
  /\ svc = "loaded"
  /\ AuthConfigured(setting)
  /\ svc' = "up"
  /\ UNCHANGED <<vars, setting, vectors, metadata, undisturbed>>

(* The container stops: on request, in a crash, or when a step of the      *)
(* start raises.                                                           *)
ServiceStop ==
  /\ svc # "down"
  /\ svc' = "down" /\ setting' = None /\ vectors' = None /\ metadata' = None
  /\ undisturbed' = TRUE
  /\ UNCHANGED vars

(* Maintenance on the volume, at any moment of a start. *)
Maintenance ==
  /\ Next
  /\ undisturbed' = (undisturbed /\ (Starting => CurrentContent' = CurrentContent))
  /\ UNCHANGED <<setting, svc, vectors, metadata>>

ServingNext ==
  \/ Maintenance
  \/ \E s \in Settings : ServiceVerify(s)
  \/ OllamaAnswers \/ ServiceLoadVectors \/ ServiceLoadMetadata
  \/ ServiceStartup \/ ServiceStop

(* The restart policy repeats a failed start, and not every start is       *)
(* killed half-way.  That Ollama ever answers is not assumed.              *)
ServiceFairness ==
  /\ WF_servingVars(\E s \in Settings : ServiceVerify(s))
  /\ SF_servingVars(ServiceLoadVectors)
  /\ SF_servingVars(ServiceLoadMetadata)
  /\ SF_servingVars(ServiceStartup)

ServingSpec == ServingInit /\ [][ServingNext]_servingVars /\ ServiceFairness
-----------------------------------------------------------------------------
(* Properties *)

(* "A misconfigured deployment never serves a single request", whatever    *)
(* each of the three checks of the environment lets through.  And "the     *)
(* service never starts on a missing, incomplete, [...] tampered or        *)
(* non-PUBLIC-only index", nor on a torn one (vectors of one, metadata of  *)
(* another), unless the artifacts of faiss_index were exchanged between    *)
(* the verification and the end of the load: commands that stage,          *)
(* validate, rewrite a manifest, fail or crash in that window, and what    *)
(* they left behind before it, do no harm; a swap in it does, and only the *)
(* operator's freeze of restarts keeps one out.                            *)
ServesVerified ==
  svc = "up" => /\ setting.secret = "own"
                /\ setting.auth => setting.jwt = "set" /\ setting.claims
                /\ undisturbed => /\ vectors \in Contents
                                  /\ metadata = vectors
                                  /\ Kind[vectors] = "public"

(* As long as faiss_index verifies and nobody maintains it, a service that *)
(* is not started again and again in an environment it refuses, or while   *)
(* Ollama does not answer, is up or comes up: no outcome of a promotion    *)
(* that verification accepts, such as one whose manifest rewrite was cut   *)
(* short, keeps it down.                                                   *)
Refused == setting # None /\ ~(AuthConfigured(setting) /\ SecretLoads(setting))

ServiceComesUp ==
  []<>(\/ svc \in {"up", "waiting"} \/ Refused
       \/ ~Validates(fs[Current], TRUE) \/ ~Quiescent)
=============================================================================
