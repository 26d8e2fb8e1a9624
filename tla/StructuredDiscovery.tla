------------------------- MODULE StructuredDiscovery -------------------------
(***************************************************************************)
(* GET /api/discovery/...: api/routes/discovery.py and the adapters under  *)
(* integrations/.  A request names the entity it asks about; the routing   *)
(* picks one source for it (TES, the Model Registry or the generated API   *)
(* catalog), an adapter calls it and turns what comes back into records or *)
(* into an error with a status.                                            *)
(*                                                                         *)
(* The sources are the environment: a service may answer anything or not   *)
(* at all, and the docs pipeline may replace the catalog file between two  *)
(* reads.  The relationships of a service take two reads.                  *)
(***************************************************************************)
EXTENDS Integers, FiniteSets

CONSTANTS
    Services, Apis, \* identities in the catalog
    OwnerOf,        \* the service_id of a route
    Visibility,     \* classes of a record, UNKNOWN when it has none
    AuthEnabled,    \* AUTH_ENABLED=true
    Tokens,         \* Authorization headers a caller may send
    Known,          \* those that hold a JWT of this hub
    Granted,        \* those the Model Registry accepts
    MaxReplaced,    \* bound: times the catalog is replaced
    Unreadable, Malformed, Odd, \* a catalog file that cannot be used; Odd has
                    \* records, and nested metadata that is not an object
    Nothing

ASSUME OwnerAssumption == OwnerOf \in [Apis -> Services]

VARIABLES
    catalog,        \* the catalog file: one of Broken, or its records
    replaced,       \* history: how often it was replaced
    request         \* the request being served

discoveryVars == <<catalog, replaced, request>>

Records == [service : [Services -> Visibility \cup {"absent"}], api : [Apis -> Visibility \cup {"absent"}]]
Broken == {Unreadable, Malformed, Odd}

\* SUPPORTED_ENTITY_TYPES after aliases, and anything else.
Entities == {"documentation", "tool", "model", "service", "api", "workflow", "plugin", "unknown"}
RelationshipTypes == {Nothing, "SERVICE_EXPOSES_API", "TOOL_COMPATIBLE_WITH_BACKEND", "unsupported"}

\* A record of a source, an edge of the relationships, the pointer to the
\* documentation route.
Items ==
    [kind : {"service", "api"}, id : Services \cup Apis, visibility : Visibility]
    \cup [kind : {"edge"}, id : Apis, visibility : Visibility \cup {"RESTRICTIVE_INTERSECTION"}]
    \cup [kind : {"tool", "model", "backend", "next_route"}]

NoRequest ==
    [pc |-> "idle", asks |-> Nothing, entity |-> Nothing, type |-> Nothing, service |-> Nothing, token |-> Nothing,
     proxied |-> FALSE, sent |-> Nothing, upstream |-> Nothing, read |-> Nothing, status |-> 0, items |-> {}]

Statuses == {0, 200, 400, 401, 403, 404, 422, 500, 501, 502, 503, 504}

\* A service answers with a status and a body, or does not answer.
Replies == {"timeout", "unreachable", "401", "403", "404", "503", "error",
            "text", "misshapen", "odd", "object"}

ASSUME NothingAssumption ==
    Nothing \notin Services /\ Nothing \notin Entities /\ Nothing \notin Replies /\ Nothing \notin Records
ASSUME VisibilityAssumption == Visibility \cap {"absent", "RESTRICTIVE_INTERSECTION"} = {}
ASSUME BrokenAssumption == Broken \cap Records = {} /\ Odd \notin {Unreadable, Malformed}

Requests ==
    [pc : {"idle", "route", "call", "first", "second", "answered"},
     asks : {"records", "relationships", Nothing}, entity : Entities \cup {Nothing},
     type : RelationshipTypes, service : Services \cup {Nothing},
     token : Tokens \cup {Nothing}, proxied : BOOLEAN, sent : Tokens \cup {Nothing},
     upstream : Replies \cup {Nothing}, read : Records \cup {Nothing},
     status : Statuses, items : SUBSET Items]

RequestTypeOK ==
    /\ catalog \in Broken \cup Records
    /\ replaced \in Nat
    /\ request \in Requests
-----------------------------------------------------------------------------
(* What the adapters make of what comes back *)

\* Mutant: an error that has no case of its own passes for an answer.
StatusOfReply_NoDefault(source, reply) ==
    CASE reply = "timeout" -> 504 [] reply = "unreachable" -> 503 [] reply = "404" -> 404
      [] reply = "503" /\ source = "tes" -> 503
      [] reply = "401" /\ source = "registry" -> 401 [] reply = "403" /\ source = "registry" -> 403
      [] reply \in {"text", "misshapen"} -> 502 [] OTHER -> 200

\* TESDiscoveryClient._get and ModelDiscoveryClient._get: TES's 503 and the
\* registry's 401 and 403 are passed on.
StatusOfReply(source, reply) ==
    CASE reply = "timeout" -> 504 [] reply = "unreachable" -> 503 [] reply = "404" -> 404
      [] reply = "503" /\ source = "tes" -> 503
      [] reply = "401" /\ source = "registry" -> 401 [] reply = "403" /\ source = "registry" -> 403
      [] reply \in {"object", "odd"} -> 200 [] OTHER -> 502

\* "Model Registry remains the auth authority": the caller's header, as it is.
Forwarded(token) == token

\* _catalog: each call reads the file again.
StatusOfCatalog(file) ==
    CASE file = Unreadable -> 503 [] file = Malformed -> 502 [] OTHER -> 200

ServiceRecords(file) ==
    {[kind |-> "service", id |-> s, visibility |-> file.service[s]] :
        s \in {t \in Services : file.service[t] # "absent"}}

RoutesOf(file, service) ==
    {a \in Apis : file.api[a] # "absent" /\ service \in {OwnerOf[a], Nothing}}

ApiRecords(file, service) ==
    {[kind |-> "api", id |-> a, visibility |-> file.api[a]] : a \in RoutesOf(file, service)}

\* Mutant: an edge is as visible as its route.
EdgeVisibility_OfRoute(service, api) == api

EdgeVisibility(service, api) == IF service = api THEN service ELSE "RESTRICTIVE_INTERSECTION"

Edges(file, service, visibility) ==
    {[kind |-> "edge", id |-> a, visibility |-> EdgeVisibility(visibility, file.api[a])] :
        a \in RoutesOf(file, service)}
-----------------------------------------------------------------------------
RequestInit ==
    /\ catalog \in Broken \cup Records
    /\ replaced = 0
    /\ request = NoRequest

\* The docs pipeline writes a new catalog.
ReplaceCatalog ==
    /\ replaced < MaxReplaced /\ request.pc \notin {"idle", "answered"}
    /\ \E file \in Broken \cup Records : file # catalog /\ catalog' = file
    /\ replaced' = replaced + 1
    /\ UNCHANGED request

\* require_auth: a JWT of the hub, or the header that holds the proxy secret.
Admits(token, proxied) == AuthEnabled => token \in Known \/ proxied

\* A request arrives and passes require_auth, or ends there.  What an entity
\* does not read is left out of the choice.
Arrive ==
    /\ request.pc = "idle"
    /\ \E asks \in {"records", "relationships"}, entity \in Entities, type \in RelationshipTypes,
          service \in Services \cup {Nothing}, token \in Tokens \cup {Nothing}, proxied \in BOOLEAN :
        /\ asks = "records" => type = Nothing
        /\ entity \notin {"service", "api"} => service = Nothing
        /\ LET admitted == Admits(token, proxied) IN
           request' = [NoRequest EXCEPT
               !.pc = IF admitted THEN "route" ELSE "answered", !.status = IF admitted THEN 0 ELSE 401,
               !.asks = asks, !.entity = entity, !.type = type, !.service = service,
               !.token = token, !.proxied = proxied]
    /\ UNCHANGED <<catalog, replaced>>

Answer(status, items) ==
    /\ request' = [request EXCEPT !.pc = "answered", !.status = status, !.items = items]
    /\ UNCHANGED <<catalog, replaced>>

Call(pc) ==
    /\ request' = [request EXCEPT !.pc = pc, !.sent = Forwarded(request.token)]
    /\ UNCHANGED <<catalog, replaced>>

\* route_query, and the routes that name their entity themselves: one source
\* per entity; a model by version and alias at once is refused.
RouteRecords ==
    /\ request.pc = "route" /\ request.asks = "records"
    /\ \/ request.entity = "documentation" /\ Answer(200, {[kind |-> "next_route"]})
       \/ request.entity \in {"unknown", "model"} /\ Answer(400, {})
       \/ request.entity \in {"workflow", "plugin"} /\ Answer(501, {})
       \/ request.entity \in {"tool", "model", "service", "api"} /\ Call("call")

\* RelationshipDiscoveryClient.query, service_apis and tool_backends up to
\* the first call; an empty identity is refused before it.
RouteRelationships ==
    /\ request.pc = "route" /\ request.asks = "relationships"
    /\ \/ request.type = "unsupported" /\ Answer(422, {})
       \/ /\ request.type # "unsupported" /\ request.entity \notin {"service", "tool"}
          /\ Answer(501, {})
       \/ /\ request.entity = "service" /\ request.type = "TOOL_COMPATIBLE_WITH_BACKEND"
          /\ Answer(200, {})
       \/ /\ request.entity = "tool" /\ request.type = "SERVICE_EXPOSES_API"
          /\ Answer(200, {})
       \/ /\ request.entity = "service" /\ request.type \in {Nothing, "SERVICE_EXPOSES_API"}
          /\ \/ request.service = Nothing /\ Answer(404, {})
             \/ request.service # Nothing /\ Call("first")
       \/ /\ request.entity = "tool" /\ request.type \in {Nothing, "TOOL_COMPATIBLE_WITH_BACKEND"}
          /\ \/ Answer(404, {})
             \/ Call("call")

\* The fields of a tool are only looked into for its backends; an object
\* whose `provenance` or `freshness` is not an object raises there, outside
\* the handler's except clauses.
CallTes ==
    /\ request.pc = "call" /\ request.entity = "tool"
    /\ \E reply \in Replies :
        LET edges == request.asks = "relationships"
            arrived == StatusOfReply("tes", reply) IN
        \E noBackends \in {b \in BOOLEAN : b => edges /\ arrived = 200} :
            LET status == IF noBackends THEN 422
                          ELSE IF edges /\ reply = "odd" THEN 500 ELSE arrived IN
            request' = [request EXCEPT
                !.pc = "answered", !.upstream = reply, !.status = status,
                !.items = IF status = 200 THEN {[kind |-> IF edges THEN "backend" ELSE "tool"]} ELSE {}]
    /\ UNCHANGED <<catalog, replaced>>

\* The registry answers with metadata only to a header it accepts.
CallRegistry ==
    /\ request.pc = "call" /\ request.entity = "model"
    /\ \E reply \in Replies :
        /\ reply \in {"object", "odd"} => request.sent \in Granted
        /\ LET status == StatusOfReply("registry", reply) IN
           request' = [request EXCEPT !.pc = "answered", !.upstream = reply, !.status = status,
                                      !.items = IF status = 200 THEN {[kind |-> "model"]} ELSE {}]
    /\ UNCHANGED <<catalog, replaced>>

\* list_services, get_service and list_apis: one read of the file.  Metadata
\* of another shape raises at the first record that passes the filters, and
\* _service_api_call has no clause for it.
ReadRecords ==
    /\ request.pc = "call" /\ request.entity \in {"service", "api"}
    /\ IF StatusOfCatalog(catalog) # 200
       THEN Answer(StatusOfCatalog(catalog), {})
       ELSE IF catalog = Odd
       THEN Answer(500, {}) \/ Answer(200, {})
       ELSE IF request.entity = "api"
       THEN Answer(200, ApiRecords(catalog, request.service))
       ELSE LET found == {r \in ServiceRecords(catalog) : request.service \in {r.id, Nothing}}
            IN  \/ Answer(200, found)                                            \* list_services
                \/ found = {} /\ request.service # Nothing /\ Answer(404, {})   \* get_service

\* service_apis: get_service, any exception of which is an unavailable source ...
ReadService ==
    /\ request.pc = "first"
    /\ IF catalog \in Broken
       THEN Answer(IF catalog = Odd THEN 503 ELSE StatusOfCatalog(catalog), {})
       ELSE IF catalog.service[request.service] = "absent"
       THEN Answer(404, {})
       ELSE /\ request' = [request EXCEPT !.pc = "second", !.read = catalog]
            /\ UNCHANGED <<catalog, replaced>>

\* ... then list_apis, which reads the file again.
ReadApis ==
    /\ request.pc = "second"
    /\ IF StatusOfCatalog(catalog) # 200
       THEN Answer(StatusOfCatalog(catalog), {})
       ELSE IF catalog = Odd
       THEN Answer(503, {}) \/ Answer(200, {})
       ELSE Answer(200, Edges(catalog, request.service, request.read.service[request.service]))

Serve == RouteRecords \/ RouteRelationships \/ CallTes \/ CallRegistry \/ ReadRecords \/ ReadService \/ ReadApis
RequestNext == Arrive \/ ReplaceCatalog \/ Serve

RequestSpec == RequestInit /\ [][RequestNext]_discoveryVars
-----------------------------------------------------------------------------
(* Properties *)

\* The relationships of a service join two reads of the catalog.  Whatever
\* was written in between, an edge carries a class only if its service had it
\* at the first read and its route at the second; and if nothing was, the
\* edges are those of the one file.
EdgesAreRestrictive ==
    request.asks = "relationships" /\ request.entity = "service" /\ request.items # {} =>
        /\ \A e \in request.items : e.visibility \in Visibility =>
               e.visibility = request.read.service[request.service] /\ e.visibility = catalog.api[e.id]
        /\ replaced = 0 =>
               /\ request.read = catalog
               /\ {e.id : e \in request.items} = {a \in Apis : catalog.api[a] # "absent" /\ OwnerOf[a] = request.service}

\* A source that fails makes the request fail, with a status that is the
\* source's fault and not the hub's; what escapes is the shape of nested
\* fields, of a tool asked for its backends and of the catalog asked for its
\* records.  Two of the sources are told apart: a source in maintenance (503)
\* is unavailable if it is TES and broken (502) if it is the registry.
FailuresAreFailures ==
    /\ request.upstream \in Replies \ {"object", "odd"} => request.status \notin {200, 500}
    /\ request.status = 500 =>
           \/ request.upstream = "odd" /\ request.asks = "relationships"
           \/ catalog = Odd /\ request.asks = "records"
    /\ request.upstream = "503" => request.status = IF request.entity = "tool" THEN 503 ELSE 502
    /\ request.items # {} => request.status = 200

\* Model metadata is shown only to a caller whose own header the registry
\* accepted: "Model Registry remains the auth authority" (discovery.py:118).
\* The hub vouches for nobody, not for its own page either, which it lets in
\* without any header.
RegistryDecides ==
    (\E i \in request.items : i.kind = "model") =>
        request.token \in Granted /\ Admits(request.token, request.proxied)
=============================================================================
