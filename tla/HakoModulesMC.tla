---------------------------- MODULE HakoModulesMC ----------------------------
EXTENDS HakoModules

\* Every combination of the arguments the host passes, with the filename
\* reduced to its extension and the import's attribute keys.
MCCalls ==
    [validArgs : BOOLEAN, stripper : BOOLEAN, strip : BOOLEAN,
     file : {"js", "ts", "mjs", "mts"}, detect : BOOLEAN,
     moduleFlag : BOOLEAN, attrs : {<< >>, << "type" >>, << "type", "other" >>},
     loadOnly : BOOLEAN, imports : BOOLEAN, customNormalize : BOOLEAN]

\* What host_load_module may return: NULL, source text or a precompiled
\* module (each with its data set or NULL), or an error record.
MCModuleSources ==
    {[type |-> "null", data |-> FALSE], [type |-> "error", data |-> FALSE]}
    \cup [type : {"string", "precompiled"}, data : BOOLEAN]

\* A host normalizer that always finds a name, and one that may not.
MCNormalizeFound == {NAME}
MCNormalizeAny == {NAME, NULL}

=============================================================================
