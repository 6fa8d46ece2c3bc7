---------------------------- MODULE EdgeRoutines ----------------------------
(***************************************************************************)
(* The SDK sample's edge routines: functions of the App, one of which is   *)
(* called, that call into the enclave with every kind of parameter, some   *)
(* of which call back, and what both sides assert of the data (App and     *)
(* Enclave/Edger8rSyntax).                                                 *)
(*                                                                         *)
(* A call crosses the bridges generated from the .edl files, which copy a  *)
(* parameter in, out, both or not at all and refuse ecalls that are not    *)
(* permitted.  Calls nest: one frame for each that has not returned.  Data *)
(* is as coarse as the assertions are: an int, an array, or a text that is *)
(* the one or the other.                                                   *)
(***************************************************************************)
EXTENDS Integers, Sequences, FiniteSets

VARIABLES
  stack,   \* the calls under way; the App's function is the first
  status   \* ok; done: the App's function has returned; failed: an
           \* assertion, abort() on a wrong result; lost: abort() because
           \* an ecall found the enclave lost

edgeVars == <<stack, status>>

-----------------------------------------------------------------------------
(* What the .edl files say: "in", "out", both, or user_check ({}).  A      *)
(* parameter passed by value is copied in, a returned value out.           *)

\* Variant for the mutants: a constant text is passed like any other.
PointerEdlWritable == [
  ecall_pointer_user_check |-> {}, ecall_pointer_in |-> {"in"},
  ecall_pointer_out |-> {"out"}, ecall_pointer_in_out |-> {"in", "out"},
  ecall_pointer_string |-> {"in", "out"}, ecall_pointer_string_const |-> {"in"},
  ecall_pointer_size |-> {"in", "out"}, ecall_pointer_count |-> {"in", "out"},
  ecall_pointer_isptr_readonly |-> {"in", "out"}, ocall_pointer_attr |-> {},
  ocall_pointer_user_check |-> {}, ocall_pointer_in |-> {"in"},
  ocall_pointer_out |-> {"out"}, ocall_pointer_in_out |-> {"in", "out"}]

PointerEdl == [
  ecall_pointer_user_check |-> {}, ecall_pointer_in |-> {"in"},
  ecall_pointer_out |-> {"out"}, ecall_pointer_in_out |-> {"in", "out"},
  ecall_pointer_string |-> {"in", "out"}, ecall_pointer_string_const |-> {"in"},
  ecall_pointer_size |-> {"in", "out"}, ecall_pointer_count |-> {"in", "out"},
  ecall_pointer_isptr_readonly |-> {"in"}, ocall_pointer_attr |-> {},
  ocall_pointer_user_check |-> {}, ocall_pointer_in |-> {"in"},
  ocall_pointer_out |-> {"out"}, ocall_pointer_in_out |-> {"in", "out"}]

ArrayEdl == [
  ecall_array_user_check |-> {}, ecall_array_in |-> {"in"}, ecall_array_out |-> {"out"},
  ecall_array_in_out |-> {"in", "out"}, ecall_array_isary |-> {}]

TypeEdl == [
  ecall_type_char |-> {"in"}, ecall_type_int |-> {"in"}, ecall_type_float |-> {"in"},
  ecall_type_double |-> {"in"}, ecall_type_size_t |-> {"in"}, ecall_type_wchar_t |-> {"in"},
  ecall_type_struct |-> {"in"}, ecall_type_enum_union |-> {}]

FunctionEdl == [
  ecall_function_public |-> {}, ocall_function_allow |-> {}, ecall_function_private |-> {"out"}]

\* What these work on is theirs: a buffer, an exception, a map; the numbers
\* of the processor nobody reads.
LibraryEdl == [
  ecall_malloc_free |-> {}, ecall_sgx_cpuid |-> {"out"}, ecall_exception |-> {}, ecall_map |-> {}]

Edl(fn) ==
  CASE fn \in DOMAIN PointerEdl  -> PointerEdl[fn]
    [] fn \in DOMAIN ArrayEdl    -> ArrayEdl[fn]
    [] fn \in DOMAIN TypeEdl     -> TypeEdl[fn]
    [] fn \in DOMAIN FunctionEdl -> FunctionEdl[fn]
    [] fn \in DOMAIN LibraryEdl  -> LibraryEdl[fn]

Ocalls == {"ocall_pointer_user_check", "ocall_pointer_in", "ocall_pointer_out",
           "ocall_pointer_in_out", "ocall_function_allow"}

Private == {"ecall_function_private"}

\* The ecalls an ocall may make.
Allow(ocall) == IF ocall = "ocall_function_allow" THEN Private ELSE {}

-----------------------------------------------------------------------------
(* The calls a function makes: what its variable holds before each, what   *)
(* it must hold after it, and the result it must have.                     *)

Call(fn, given, after) ==
  [fn |-> fn, given |-> given, after |-> after, result |-> "SGX_SUCCESS"]

Plain(fn) == Call(fn, 0, 0)

Up(n)   == [i \in 0 .. n - 1 |-> i]
Down(n) == [i \in 0 .. n - 1 |-> n - 1 - i]

edger8r_pointer_attributes == <<
  Call("ecall_pointer_user_check", [text |-> "fill", sz |-> 128], [text |-> "SGX_SUCCESS", sz |-> 128]),
  Call("ecall_pointer_in", 0, 0), Call("ecall_pointer_out", 0, 1234),
  Call("ecall_pointer_in_out", 0, 1234), Plain("ocall_pointer_attr"),
  Call("ecall_pointer_string", "1234567890", "0987654321"),
  Call("ecall_pointer_string_const", "1234567890", "1234567890"),
  Call("ecall_pointer_size", "1234567890", "0987654321"),
  Call("ecall_pointer_isptr_readonly", "1234567890", "1234567890"),
  Call("ecall_pointer_count", Up(10), Down(10)) >>

ocall_pointer_attr == <<
  Call("ocall_pointer_user_check", 0, 0), Call("ocall_pointer_in", 0, 0),
  Call("ocall_pointer_out", 0, 1234), Call("ocall_pointer_in_out", 0, 1234) >>

edger8r_array_attributes == <<
  Call("ecall_array_user_check", Up(4), Down(4)), Call("ecall_array_in", Up(4), Up(4)),
  Call("ecall_array_out", Up(4), Down(4)), Call("ecall_array_in_out", Up(4), Down(4)),
  Call("ecall_array_isary", Up(10), Down(10)) >>

\* Each passes one value; 1234.0 and 1234.5678 by name.
edger8r_type_attributes == <<
  Call("ecall_type_char", 18, 18), Call("ecall_type_int", 1234, 1234),
  Call("ecall_type_float", "1234.0", "1234.0"), Call("ecall_type_double", "1234.5678", "1234.5678"),
  Call("ecall_type_size_t", 12345678, 12345678), Call("ecall_type_wchar_t", 4660, 4660),
  Call("ecall_type_struct", <<1234, 5678>>, <<1234, 5678>>),
  Call("ecall_type_enum_union", [val1 |-> "ENUM_FOO_0", val2 |-> 0], [val1 |-> "ENUM_FOO_0", val2 |-> 2]) >>

edger8r_function_attributes == <<
  Plain("ecall_function_public"),
  [Call("ecall_function_private", 0, 0) EXCEPT !.result = "SGX_ERROR_ECALL_NOT_ALLOWED"] >>

ecall_function_public == << Plain("ocall_function_allow") >>

ocall_function_allow == << Call("ecall_function_private", 0, 1) >>

ecall_libc_functions == << Plain("ecall_malloc_free"), Plain("ecall_sgx_cpuid") >>

ecall_libcxx_functions == << Plain("ecall_exception"), Plain("ecall_map") >>

Roots == [edger8r_pointer_attributes  |-> edger8r_pointer_attributes,
          edger8r_array_attributes    |-> edger8r_array_attributes,
          edger8r_type_attributes     |-> edger8r_type_attributes,
          edger8r_function_attributes |-> edger8r_function_attributes,
          ecall_libc_functions        |-> ecall_libc_functions,
          ecall_libcxx_functions      |-> ecall_libcxx_functions]

Inner == [ocall_pointer_attr    |-> ocall_pointer_attr,
          ecall_function_public |-> ecall_function_public,
          ocall_function_allow  |-> ocall_function_allow]

Script(fn) ==
  IF fn \in DOMAIN Roots THEN Roots[fn] ELSE IF fn \in DOMAIN Inner THEN Inner[fn] ELSE <<>>

-----------------------------------------------------------------------------
(* What a routine asserts of its parameter v, and what it leaves in it     *)

\* sgx_is_within_enclave, sgx_is_outside_enclave: abort() if it is elsewhere.
MustBeWithin  == {"ecall_pointer_in", "ecall_pointer_out", "ecall_pointer_in_out"}
MustBeOutside == {"ecall_pointer_user_check", "ecall_array_user_check", "ecall_array_isary",
                  "ecall_type_enum_union"}

PointerAsserts(fn, v) == fn = "ecall_pointer_out" => v = 0

ArrayAsserts(fn, v) == \A i \in DOMAIN v : v[i] = IF fn = "ecall_array_out" THEN 0 ELSE i

TypeAsserts(fn, v) ==
  CASE fn = "ecall_type_char"   -> v = 18
    [] fn = "ecall_type_int"    -> v = 1234
    [] fn = "ecall_type_float"  -> v = "1234.0"
    [] fn = "ecall_type_double" -> v = "1234.5678"
    [] fn = "ecall_type_size_t" -> v = 12345678
    [] fn = "ecall_type_wchar_t" -> v = 4660
    [] fn = "ecall_type_struct" -> v = <<1234, 5678>>
    [] fn = "ecall_type_enum_union" -> v.val1 = "ENUM_FOO_0"

Asserts(fn, v) ==
  /\ fn \in MustBeWithin => Edl(fn) # {}
  /\ fn \in MustBeOutside => Edl(fn) = {}
  /\ fn \in DOMAIN PointerEdl => PointerAsserts(fn, v)
  /\ fn \in DOMAIN ArrayEdl => ArrayAsserts(fn, v)
  /\ fn \in DOMAIN TypeEdl => TypeAsserts(fn, v)

\* The 12 bytes of a text with its NUL; a shorter buffer gets a part of them.
UserCheckLeaves(v) == [v EXCEPT !.text = IF v.sz >= 12 THEN "SGX_SUCCESS" ELSE "cut"]

TextLeaves(fn, v) == IF fn = "ecall_pointer_string_const" THEN v ELSE "0987654321"

ArrayLeaves(v) == [i \in DOMAIN v |-> Cardinality(DOMAIN v) - 1 - i]

\* The App's ocalls.
OcallLeaves(fn, v) == IF fn = "ocall_pointer_user_check" THEN v ELSE 1234

\* val2 is a union: the second assignment overwrites the first.
UnionLeaves(v) == [v EXCEPT !.val2 = 2]

Leaves(fn, v) ==
  CASE fn = "ecall_pointer_user_check" -> UserCheckLeaves(v)
    [] fn \in MustBeWithin -> 1234
    [] fn \in {"ecall_pointer_string", "ecall_pointer_string_const", "ecall_pointer_size",
               "ecall_pointer_isptr_readonly"} -> TextLeaves(fn, v)
    [] fn \in DOMAIN ArrayEdl \cup {"ecall_pointer_count"} -> ArrayLeaves(v)
    [] fn \in Ocalls -> OcallLeaves(fn, v)
    [] fn = "ecall_type_enum_union" -> UnionLeaves(v)
    [] fn = "ecall_function_private" -> 1
    [] OTHER -> v

-----------------------------------------------------------------------------
(* Calls *)

EdgeInit == stack = <<>> /\ status = "ok"

\* fn: the function; pc: the call it makes next; mem: the bridge's copy of
\* its parameter; var: the variable it passes to the call it is making.
Frame(fn, mem) == [fn |-> fn, pc |-> 1, mem |-> mem, var |-> 0]

Depth  == Len(stack)
Top    == stack[Depth]
Caller == stack[Depth - 1]

\* The call the function f is making.
Making(f) == Script(f.fn)[f.pc]

\* Memory for "out" alone is cleared.
Copied(fn, v) ==
  IF "in" \in Edl(fn) THEN v
  ELSE IF fn \in DOMAIN ArrayEdl THEN [i \in DOMAIN v |-> 0] ELSE 0

\* The App calls public ecalls, but from an ocall only those it is allowed.
Permitted(fn) ==
  \/ fn \in Ocalls
  \/ Depth = 1 /\ fn \notin Private
  \/ fn \in Allow(Top.fn)

AppBegins(root) ==
  /\ stack = <<>> /\ status = "ok"
  /\ stack' = << Frame(root, 0) >>
  /\ UNCHANGED status

Enters ==
  /\ status = "ok" /\ stack # <<>> /\ Top.pc <= Len(Script(Top.fn))
  /\ LET c == Making(Top)
     IN  /\ Permitted(c.fn)
         /\ stack' = Append([stack EXCEPT ![Depth].var = c.given], Frame(c.fn, Copied(c.fn, c.given)))
  /\ UNCHANGED status

\* The call the top of below was making is over: it finds var in its variable
\* and goes on, if that and the result are as it asserts.
Resumes(below, var, result) ==
  LET n == Len(below)
      c == Making(below[n])
  IN  /\ stack' = [below EXCEPT ![n].var = var, ![n].pc = @ + 1]
      /\ status' = IF var = c.after /\ result = c.result THEN "ok" ELSE "failed"

\* The bridge refuses the call: nothing is copied, nothing runs.
Refuses ==
  /\ status = "ok" /\ stack # <<>> /\ Top.pc <= Len(Script(Top.fn))
  /\ LET c == Making(Top)
     IN  /\ ~Permitted(c.fn)
         /\ Resumes(stack, c.given, "SGX_ERROR_ECALL_NOT_ALLOWED")

\* A routine that calls nothing works on its copy, or on its caller's memory.
Works ==
  /\ status = "ok" /\ stack # <<>> /\ Script(Top.fn) = <<>> /\ Top.pc = 1
  /\ LET shared == Edl(Top.fn) = {}
         v      == IF shared THEN Caller.var ELSE Top.mem
         done   == [stack EXCEPT ![Depth].pc = 2]
     IN  IF ~Asserts(Top.fn, v) THEN status' = "failed" /\ UNCHANGED stack
         ELSE /\ stack' = IF shared THEN [done EXCEPT ![Depth - 1].var = Leaves(Top.fn, v)]
                                    ELSE [done EXCEPT ![Depth].mem = Leaves(Top.fn, v)]
              /\ UNCHANGED status

Returns ==
  /\ status = "ok" /\ stack # <<>>
  /\ Top.pc > IF Script(Top.fn) = <<>> THEN 1 ELSE Len(Script(Top.fn))
  /\ IF Depth = 1
     THEN stack' = <<>> /\ status' = "done"
     ELSE Resumes(SubSeq(stack, 1, Depth - 1),
                  IF "out" \in Edl(Top.fn) THEN Top.mem ELSE Caller.var, "SGX_SUCCESS")

\* A power transition: the ecalls under way fail, and their callers abort().
EcallsFail ==
  /\ status = "ok" /\ stack # <<>>
  /\ status' = "lost"
  /\ UNCHANGED stack

EdgeNext ==
  \/ \E root \in DOMAIN Roots : AppBegins(root)
  \/ Enters \/ Refuses \/ Works \/ Returns
  \/ EcallsFail

=============================================================================
