------------------------------- MODULE ArgsList -------------------------------
(***************************************************************************)
(* What the functions on []argsKV of src/args.go make of a list of         *)
(* arguments, without the buffers they make it with (for these, see        *)
(* ArgsTable).  An argument is a record with a key and a value; query      *)
(* arguments also have noValue.                                            *)
(***************************************************************************)
EXTENDS Subsequence, SequencesExt

\* The first argument with a key, or 0.
IndexArg(h, key) == SelectInSeq(h, LAMBDA kv : kv.key = key)

HasArg(h, key) == IndexArg(h, key) # 0

\* peekArgBytes and peekArgStr, with what stands for nil.
PeekArg(h, key, nil) == IF HasArg(h, key) THEN h[IndexArg(h, key)].value ELSE nil

\* setArg writes over the first argument with the key and leaves the others.
SetArg(h, arg) ==
    IF HasArg(h, arg.key) THEN [h EXCEPT ![IndexArg(h, arg.key)] = arg] ELSE Append(h, arg)

DelAllArgs(h, key) == Only(h, {kv \in ToSet(h) : kv.key # key})
=============================================================================
