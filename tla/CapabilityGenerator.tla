------------------------- MODULE CapabilityGenerator -------------------------
(***************************************************************************)
(* The tools made from Home Assistant's service catalog and the entity     *)
(* index (src/app/capability_generator.py), with the risk of each          *)
(* (src/app/risk_map.py), and what a call of one sends to Home Assistant   *)
(* (src/app/home_feature.py).                                              *)
(*                                                                         *)
(* A catalog gives each domain its services, a service its target flag and *)
(* its fields in catalog order; an entry of the fields is a field, or a    *)
(* section that holds fields.                                              *)
(***************************************************************************)
EXTENDS EntityIndex, SequencesExt, FiniteSetsExt

CONSTANTS CriticalDomains, CriticalCoverClasses, ElevatedDomains,  \* risk_map.yaml
          Cover,          \* the domain "cover"
          ReflexDomains,  \* REFLEX_DOMAINS
          ReflexConfig,   \* reflex_tools.yaml: domain -> service -> extra fields
          WordsOf,        \* the words between the underscores of a domain's or service's name
          MaxListed       \* MAX_LISTED_ENTITIES

-----------------------------------------------------------------------------
(* Risk                                                                    *)

Rank == [benign |-> 0, elevated |-> 1, critical |-> 2]

RiskFor(d, class) ==
    IF d \in CriticalDomains \/ (d = Cover /\ class \in CriticalCoverClasses) THEN "critical"
    ELSE IF d \in ElevatedDomains THEN "elevated" ELSE "benign"

Risks(d, index) ==
    LET found == EntitiesForDomain(d, index)
    IN IF found = {} THEN {RiskFor(d, None)} ELSE {RiskFor(d, index[e].class) : e \in found}

\* Slip: the domain's risk is that of one of its entities, not of the riskiest.
DomainToolRisk_First(d, index) ==
    CHOOSE r \in Risks(d, index) : \A q \in Risks(d, index) : Rank[r] <= Rank[q]

DomainToolRisk(d, index) ==
    CHOOSE r \in Risks(d, index) : \A q \in Risks(d, index) : Rank[q] <= Rank[r]

-----------------------------------------------------------------------------
(* Fields                                                                  *)

Section(entry) == entry.section

SetDefaults(f, g) ==
    [x \in DOMAIN f \cup DOMAIN g |-> IF x \in DOMAIN f THEN f[x] ELSE g[x]]

\* Slip: of two sections with a field of the same name the last one wins.
Flatten_LastWins(top, entries) ==
    LET after[n \in 0..Len(entries)] ==
            IF n = 0 THEN top
            ELSE IF Section(entries[n])
            THEN SetDefaults(top, SetDefaults(entries[n].fields, after[n - 1]))
            ELSE after[n - 1]
    IN after[Len(entries)]

\* setdefault, section after section.
Flatten(top, entries) ==
    LET after[n \in 0..Len(entries)] ==
            IF n = 0 THEN top
            ELSE IF Section(entries[n]) THEN SetDefaults(after[n - 1], entries[n].fields)
            ELSE after[n - 1]
    IN after[Len(entries)]

\* _service_fields.  Top-level names are the keys of a dict, so they are distinct.
ServiceFields(svc) ==
    LET top == {i \in DOMAIN svc.entries : ~Section(svc.entries[i])}
    IN Flatten([n \in {svc.entries[i].name : i \in top} |->
                   LET i == CHOOSE i \in top : svc.entries[i].name = n IN svc.entries[i].def],
               svc.entries)

-----------------------------------------------------------------------------
(* Tools                                                                   *)

Spec4(d, s, audience, risk, fields, targeted) ==
    [domain |-> d, service |-> s, audience |-> audience, risk |-> risk,
     fields |-> fields, targeted |-> targeted]

\* home.call_service.
EscapeHatch == Spec4(None, None, "conscious", "critical", <<>>, FALSE)

ReflexSpecs(d, services, risk) ==
    {Spec4(d, s, "reflex", risk,
           LET fields == ServiceFields(services[s])
           IN [f \in ReflexConfig[d][s] \cap DOMAIN fields |-> fields[f]], TRUE) :
        s \in IF d \in DOMAIN ReflexConfig THEN DOMAIN ReflexConfig[d] \cap DOMAIN services
              ELSE {}}

ConsciousSpecs(d, services, risk) ==
    {Spec4(d, s, "conscious", risk, ServiceFields(services[s]), services[s].target) :
        s \in DOMAIN services}

\* f"{domain}_{service}": two pairs may join to one name, a + b_c and a_b + c.
ToolName(d, s) == WordsOf[d] \o WordsOf[s]

Tool(spec) ==
    IF spec.domain = None THEN <<"call", "service">> ELSE ToolName(spec.domain, spec.service)

\* Slip: a domain above benign gets a conscious tool for its reflex services too.
DomainSpecs_Twice(d, services, risk) ==
    IF d \notin ReflexDomains THEN ConsciousSpecs(d, services, risk)
    ELSE ReflexSpecs(d, services, risk)
         \cup (IF risk = "benign" THEN {} ELSE ConsciousSpecs(d, services, risk))

DomainSpecs(d, services, risk) ==
    IF d \notin ReflexDomains THEN ConsciousSpecs(d, services, risk)
    ELSE LET reflex == ReflexSpecs(d, services, risk)
         IN reflex \cup IF risk = "benign" THEN {}
                        ELSE {spec \in ConsciousSpecs(d, services, risk) :
                                 Tool(spec) \notin {Tool(r) : r \in reflex}}

Generate(catalog, index) ==
    {EscapeHatch} \cup UNION {DomainSpecs(d, catalog[d], DomainToolRisk(d, index)) :
                                 d \in DOMAIN catalog \cap Domains(index)}

\* Slip: the areas offered are all of the index's.
OfferedAreas_All(d, index) == {index[e].area : e \in DOMAIN index} \ {None}

\* The areas and the names a target's description offers; the names are the
\* first of a sorted list.
OfferedAreas(d, index) == {index[e].area : e \in EntitiesForDomain(d, index)} \ {None}

OfferedNames(d, index) ==
    LET names == {index[e].friendly : e \in EntitiesForDomain(d, index)}
    IN IF Cardinality(names) <= MaxListed THEN names
       ELSE CHOOSE first \in kSubset(MaxListed, names) : TRUE

ToolMeta(spec, index) ==
    [tool |-> Tool(spec), domain |-> spec.domain, audience |-> spec.audience,
     risk |-> spec.risk, fields |-> spec.fields,
     areas |-> IF spec.targeted THEN OfferedAreas(spec.domain, index) ELSE {},
     names |-> IF spec.targeted THEN OfferedNames(spec.domain, index) ELSE {}]

-----------------------------------------------------------------------------
(* A call of a tool                                                        *)

Refused(why) == [kind |-> "refused", why |-> why]
Call(d, s, entities, data) ==
    [kind |-> "call", domain |-> d, service |-> s, entities |-> entities, data |-> data]

\* The entities a targeted tool is aimed at, or None for an error.
Aim(spec, target, index) ==
    IF target = None THEN None
    ELSE LET found == Resolve(spec.domain, target, index)
         IN IF found = {} THEN None ELSE found

\* _execute: what a tool call with this target and these other parameters
\* sends.  The escape hatch is told the service, and takes its target as it is.
Execute(spec, asked, target, params, index) ==
    IF spec = EscapeHatch
    THEN Call(asked[1], asked[2], IF target = None THEN {} ELSE {target.word}, params)
    ELSE IF ~spec.targeted
    THEN Call(spec.domain, spec.service, {}, params \cap DOMAIN spec.fields)
    ELSE LET aim == Aim(spec, target, index)
         IN IF aim = None THEN Refused("target")
            ELSE Call(spec.domain, spec.service, aim, params \cap DOMAIN spec.fields)
=============================================================================
