------------------------------ MODULE Extensions ------------------------------
(***************************************************************************)
(* The extension registry, internal/extensions/registry.go: a ConfigMap    *)
(* whose "registry.yaml" key maps extension names, and the reserved "core" *)
(* entry, to lists of {group, kind} references.  The operator loads it     *)
(* once, at startup, and resolves the extensions a tenant enables into the *)
(* allowlist of that tenant's AppProject.                                  *)
(*                                                                         *)
(* A reference is an atom: Dedupe's key group + "/" + kind tells two of    *)
(* them apart exactly when they differ, since a group holds no "/".        *)
(***************************************************************************)
EXTENDS Integers, Sequences, SequencesExt

IsSequence(list) == list \in Seq(Range(list))

\* The reserved entry applied to every tenant.
CoreKey == "core"

(***************************************************************************)
(* Load.  A ConfigMap is [exists, hasKey, parses, entries]: whether the    *)
(* object is there, whether it has the data key, whether the YAML parses   *)
(* and the map it parses into.                                             *)
(***************************************************************************)
\* Mutant: an empty core is let through.
LoadFailsEmptyCore(configMap) ==
    \/ ~configMap.exists
    \/ ~configMap.hasKey
    \/ ~configMap.parses
    \/ CoreKey \notin DOMAIN configMap.entries

LoadFails(configMap) ==
    \/ ~configMap.exists
    \/ ~configMap.hasKey
    \/ ~configMap.parses
    \/ CoreKey \notin DOMAIN configMap.entries
    \/ configMap.entries[CoreKey] = <<>>

Load(configMap) ==
    [core       |-> configMap.entries[CoreKey],
     extensions |-> [name \in DOMAIN configMap.entries \ {CoreKey} |->
                        configMap.entries[name]]]

(***************************************************************************)
(* Resolve.                                                                *)
(***************************************************************************)
Has(registry, name) == name \in DOMAIN registry.extensions

\* Resolve stops with an UnknownExtensionError.
UnknownExtension(registry, enabled) ==
    \E i \in DOMAIN enabled : ~Has(registry, enabled[i])

\* Mutant: the duplicate is appended instead of skipped.
DedupeKeepsAll(refs) == refs

\* The references in order of first appearance.
Dedupe(refs) ==
    LET out[i \in 0 .. Len(refs)] ==
            IF i = 0
            THEN <<>>
            ELSE LET earlier == out[i - 1]
                 IN  IF Contains(earlier, refs[i]) THEN earlier ELSE Append(earlier, refs[i])
    IN  out[Len(refs)]

Resolve(registry, enabled) ==
    LET refs[i \in 0 .. Len(enabled)] ==
            IF i = 0 THEN registry.core
                     ELSE refs[i - 1] \o registry.extensions[enabled[i]]
    IN  Dedupe(refs[Len(enabled)])

===============================================================================
