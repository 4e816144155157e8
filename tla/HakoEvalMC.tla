----------------------------- MODULE HakoEvalMC -----------------------------
EXTENDS HakoEval

AllCalls == [strip : BOOLEAN, module : BOOLEAN, detect : BOOLEAN,
             compileOnly : BOOLEAN]

=============================================================================
