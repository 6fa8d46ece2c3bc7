------------------------- MODULE EdgeRoutinesProofs -------------------------
(***************************************************************************)
(* Every assertion of the edge routines holds, at any depth of nested      *)
(* calls: each call is made with the data its routine asserts, and finds   *)
(* what it asserts of them when it is over.                                *)
(***************************************************************************)
EXTENDS SampleProperties, SequenceTheorems, FiniteSetTheorems, TLAPS

Leaf(fn) == Script(fn) = <<>>

\* What the routine of call c finds in its parameter, and what its caller
\* finds in its variable when the routine has worked on it.
Given(c) == IF Edl(c.fn) = {} THEN c.given ELSE Copied(c.fn, c.given)

Left(c) ==
  IF Edl(c.fn) = {} \/ "out" \in Edl(c.fn) THEN Leaves(c.fn, Given(c)) ELSE c.given

\* A call of a routine that calls nothing.
Routine(c) ==
  /\ Leaf(c.fn) /\ c.fn \notin DOMAIN Roots
  /\ Asserts(c.fn, Given(c)) /\ Left(c) = c.after /\ c.result = "SGX_SUCCESS"

\* A call of a function that makes calls itself: nothing is passed.
Nested(c) ==
  /\ c.fn \in DOMAIN Inner /\ c.fn \notin DOMAIN Roots
  /\ Edl(c.fn) = {} /\ c.after = c.given /\ c.result = "SGX_SUCCESS"

\* A call that is refused.
Refused(c) ==
  c.fn \in Private /\ c.after = c.given /\ c.result = "SGX_ERROR_ECALL_NOT_ALLOWED"

-----------------------------------------------------------------------------
(* What the tables say *)

LEMMA Kinds ==
  /\ DOMAIN PointerEdl = {
       "ecall_pointer_user_check", "ecall_pointer_in", "ecall_pointer_out",
       "ecall_pointer_in_out", "ecall_pointer_string", "ecall_pointer_string_const",
       "ecall_pointer_size", "ecall_pointer_count", "ecall_pointer_isptr_readonly",
       "ocall_pointer_attr", "ocall_pointer_user_check", "ocall_pointer_in",
       "ocall_pointer_out", "ocall_pointer_in_out"}
  /\ DOMAIN ArrayEdl = {
       "ecall_array_user_check", "ecall_array_in", "ecall_array_out",
       "ecall_array_in_out", "ecall_array_isary"}
  /\ DOMAIN TypeEdl = {
       "ecall_type_char", "ecall_type_int", "ecall_type_float", "ecall_type_double",
       "ecall_type_size_t", "ecall_type_wchar_t", "ecall_type_struct",
       "ecall_type_enum_union"}
  /\ DOMAIN FunctionEdl = {
       "ecall_function_public", "ocall_function_allow", "ecall_function_private"}
  /\ DOMAIN LibraryEdl = {
       "ecall_malloc_free", "ecall_sgx_cpuid", "ecall_exception", "ecall_map"}
BY DEF PointerEdl, ArrayEdl, TypeEdl, FunctionEdl, LibraryEdl

LEMMA EdlOfKind ==
  /\ \A fn \in DOMAIN PointerEdl : Edl(fn) = PointerEdl[fn]
  /\ \A fn \in DOMAIN ArrayEdl : Edl(fn) = ArrayEdl[fn]
  /\ \A fn \in DOMAIN TypeEdl : Edl(fn) = TypeEdl[fn]
  /\ \A fn \in DOMAIN FunctionEdl : Edl(fn) = FunctionEdl[fn]
  /\ \A fn \in DOMAIN LibraryEdl : Edl(fn) = LibraryEdl[fn]
<1>1. \A fn \in DOMAIN PointerEdl : Edl(fn) = PointerEdl[fn]
  BY Kinds DEF Edl
<1>2. \A fn \in DOMAIN ArrayEdl : Edl(fn) = ArrayEdl[fn]
  BY Kinds DEF Edl
<1>3. \A fn \in DOMAIN TypeEdl : Edl(fn) = TypeEdl[fn]
  BY Kinds DEF Edl
<1>4. \A fn \in DOMAIN FunctionEdl : Edl(fn) = FunctionEdl[fn]
  BY Kinds DEF Edl
<1>5. \A fn \in DOMAIN LibraryEdl : Edl(fn) = LibraryEdl[fn]
  BY Kinds DEF Edl
<1> QED
  BY <1>1, <1>2, <1>3, <1>4, <1>5

LEMMA FunctionTables ==
  /\ DOMAIN Roots = {
       "edger8r_pointer_attributes", "edger8r_array_attributes", "edger8r_type_attributes",
       "edger8r_function_attributes", "ecall_libc_functions", "ecall_libcxx_functions"}
  /\ DOMAIN Inner = {"ocall_pointer_attr", "ecall_function_public", "ocall_function_allow"}
  /\ \A fn \in DOMAIN Roots : Script(fn) = Roots[fn]
  /\ \A fn \in DOMAIN Inner : Script(fn) = Inner[fn]
  /\ \A fn : fn \notin DOMAIN Roots /\ fn \notin DOMAIN Inner => Leaf(fn)
<1>1. /\ DOMAIN Roots = {
           "edger8r_pointer_attributes", "edger8r_array_attributes",
           "edger8r_type_attributes", "edger8r_function_attributes",
           "ecall_libc_functions", "ecall_libcxx_functions"}
      /\ DOMAIN Inner = {"ocall_pointer_attr", "ecall_function_public",
                         "ocall_function_allow"}
  BY DEF Roots, Inner
<1>2. \A fn \in DOMAIN Inner : fn \notin DOMAIN Roots
  BY <1>1
<1> QED
  BY <1>1, <1>2 DEF Script, Leaf

LEMMA Reversed ==
  ASSUME NEW n \in Nat, NEW v, DOMAIN v = 0 .. n - 1
  PROVE  ArrayLeaves(v) = Down(n)
<1>1. Cardinality(0 .. n - 1) = n
  BY FS_Interval
<1> QED
  BY <1>1 DEF ArrayLeaves, Down

LEMMA Calls ==
  \A fn, given, after :
    LET c == Call(fn, given, after)
    IN  c.fn = fn /\ c.given = given /\ c.after = after /\ c.result = "SGX_SUCCESS"
BY DEF Call

LEMMA LeavesOf ==
  ASSUME NEW fn, NEW v
  PROVE  /\ fn = "ecall_pointer_user_check" => Leaves(fn, v) = UserCheckLeaves(v)
         /\ fn \in MustBeWithin => Leaves(fn, v) = 1234
         /\ fn \in {"ecall_pointer_string", "ecall_pointer_string_const",
                   "ecall_pointer_size", "ecall_pointer_isptr_readonly"}
               => Leaves(fn, v) = TextLeaves(fn, v)
         /\ fn \in DOMAIN ArrayEdl \cup {"ecall_pointer_count"} => Leaves(fn, v) = ArrayLeaves(v)
         /\ fn \in Ocalls => Leaves(fn, v) = OcallLeaves(fn, v)
         /\ fn = "ecall_type_enum_union" => Leaves(fn, v) = UnionLeaves(v)
         /\ fn = "ecall_function_private" => Leaves(fn, v) = 1
         /\ fn \in DOMAIN TypeEdl \ {"ecall_type_enum_union"} => Leaves(fn, v) = v
         /\ fn \in DOMAIN LibraryEdl => Leaves(fn, v) = v
<1>1. fn = "ecall_pointer_user_check" => Leaves(fn, v) = UserCheckLeaves(v)
  BY DEF Leaves, MustBeWithin, Ocalls, ArrayEdl
<1>2. fn \in MustBeWithin => Leaves(fn, v) = 1234
  BY DEF Leaves, MustBeWithin, Ocalls, ArrayEdl
<1>3. fn \in {"ecall_pointer_string", "ecall_pointer_string_const",
                   "ecall_pointer_size", "ecall_pointer_isptr_readonly"}
               => Leaves(fn, v) = TextLeaves(fn, v)
  BY DEF Leaves, MustBeWithin, Ocalls, ArrayEdl
<1>4. fn \in DOMAIN ArrayEdl \cup {"ecall_pointer_count"} => Leaves(fn, v) = ArrayLeaves(v)
  BY DEF Leaves, MustBeWithin, Ocalls, ArrayEdl
<1>5. fn \in Ocalls => Leaves(fn, v) = OcallLeaves(fn, v)
  BY DEF Leaves, MustBeWithin, Ocalls, ArrayEdl
<1>6. fn = "ecall_type_enum_union" => Leaves(fn, v) = UnionLeaves(v)
  BY DEF Leaves, MustBeWithin, Ocalls, ArrayEdl
<1>7. fn = "ecall_function_private" => Leaves(fn, v) = 1
  BY DEF Leaves, MustBeWithin, Ocalls, ArrayEdl
<1>8. fn \in DOMAIN TypeEdl \ {"ecall_type_enum_union"} => Leaves(fn, v) = v
  BY DEF Leaves, MustBeWithin, Ocalls, ArrayEdl, TypeEdl
<1>9. fn \in DOMAIN LibraryEdl => Leaves(fn, v) = v
  BY DEF Leaves, MustBeWithin, Ocalls, ArrayEdl, LibraryEdl
<1> QED
  BY <1>1, <1>2, <1>3, <1>4, <1>5, <1>6, <1>7, <1>8, <1>9

\* A pointer is copied as the table says, and each routine asserts where it is.
LEMMA PointerRoutine ==
  ASSUME NEW fn \in DOMAIN PointerEdl \ {"ocall_pointer_attr"}, NEW given, NEW after,
         fn \in MustBeWithin => PointerEdl[fn] # {},
         fn \in MustBeOutside => PointerEdl[fn] = {},
         fn = "ecall_pointer_out" => "in" \notin PointerEdl[fn],
         after = IF PointerEdl[fn] = {} THEN Leaves(fn, given)
                 ELSE IF "out" \notin PointerEdl[fn] THEN given
                 ELSE Leaves(fn, IF "in" \in PointerEdl[fn] THEN given ELSE 0)
  PROVE  Routine(Call(fn, given, after))
<1> DEFINE c == Call(fn, given, after)
<1>1. c.fn = fn /\ c.given = given /\ c.after = after /\ c.result = "SGX_SUCCESS"
  BY Calls
<1>2. Leaf(fn) /\ fn \notin DOMAIN Roots
  BY Kinds, FunctionTables
<1>3. Edl(fn) = PointerEdl[fn]
  BY EdlOfKind
<1>4. fn \notin DOMAIN ArrayEdl /\ fn \notin DOMAIN TypeEdl
  BY Kinds
<1>5. Given(c) = IF PointerEdl[fn] = {} THEN given
                 ELSE IF "in" \in PointerEdl[fn] THEN given ELSE 0
  BY <1>1, <1>3, <1>4 DEF Given, Copied
<1>6. fn = "ecall_pointer_out" => PointerEdl[fn] # {}
  BY DEF MustBeWithin
<1>7. Asserts(fn, Given(c))
  BY <1>3, <1>4, <1>5, <1>6 DEF Asserts, PointerAsserts
<1>8. Left(c) = after
  BY <1>1, <1>3, <1>5 DEF Left
<1> HIDE DEF c
<1>9. Routine(c)
  BY <1>1, <1>2, <1>7, <1>8 DEF Routine
<1> QED
  BY <1>9 DEF c

\* An array passed by reference is turned round, one passed in alone is not.
LEMMA ArrayRoutine ==
  ASSUME NEW fn \in DOMAIN ArrayEdl, NEW n \in Nat
  PROVE  Routine(Call(fn, Up(n), IF fn = "ecall_array_in" THEN Up(n) ELSE Down(n)))
<1> DEFINE after == IF fn = "ecall_array_in" THEN Up(n) ELSE Down(n)
           c == Call(fn, Up(n), after)
<1>1. c.fn = fn /\ c.given = Up(n) /\ c.after = after /\ c.result = "SGX_SUCCESS"
  BY Calls
<1>2. Leaf(fn) /\ fn \notin DOMAIN Roots
  BY Kinds, FunctionTables
<1>3. Edl(fn) = ArrayEdl[fn]
  BY EdlOfKind
<1>4. fn \notin DOMAIN PointerEdl /\ fn \notin DOMAIN TypeEdl /\ fn \notin MustBeWithin
  BY Kinds DEF MustBeWithin
<1>5. fn \in MustBeOutside => Edl(fn) = {}
  BY <1>3, Kinds DEF MustBeOutside, ArrayEdl
<1>6. DOMAIN Up(n) = 0 .. n - 1 /\ \A i \in 0 .. n - 1 : Up(n)[i] = i
  BY DEF Up
<1>7. Given(c) = IF fn = "ecall_array_out" THEN [i \in DOMAIN Up(n) |-> 0] ELSE Up(n)
  BY <1>1, <1>3, Kinds DEF Given, Copied, ArrayEdl
<1>8. DOMAIN Given(c) = 0 .. n - 1
  BY <1>6, <1>7
<1>9. Asserts(fn, Given(c))
  BY <1>4, <1>5, <1>6, <1>7 DEF Asserts, ArrayAsserts
<1>10. Leaves(fn, Given(c)) = Down(n)
  BY <1>8, LeavesOf, Reversed
<1>11. Left(c) = after
  BY <1>1, <1>3, <1>10, Kinds DEF Left, ArrayEdl
<1> HIDE DEF c, after
<1>12. Routine(c)
  BY <1>1, <1>2, <1>9, <1>11 DEF Routine
<1> QED
  BY <1>12 DEF c, after

\* A value is asserted as it was passed; no variable of the caller changes.
LEMMA TypeRoutine ==
  ASSUME NEW fn \in DOMAIN TypeEdl \ {"ecall_type_enum_union"}, NEW given, TypeAsserts(fn, given)
  PROVE  Routine(Call(fn, given, given))
<1> DEFINE c == Call(fn, given, given)
<1>1. c.fn = fn /\ c.given = given /\ c.after = given /\ c.result = "SGX_SUCCESS"
  BY Calls
<1>2. Leaf(fn) /\ fn \notin DOMAIN Roots
  BY Kinds, FunctionTables
<1>3. Edl(fn) = {"in"}
  BY EdlOfKind, Kinds DEF TypeEdl
<1>4. /\ fn \notin DOMAIN PointerEdl /\ fn \notin DOMAIN ArrayEdl
      /\ fn \notin MustBeWithin /\ fn \notin MustBeOutside
  BY Kinds DEF MustBeWithin, MustBeOutside
<1>5. Given(c) = given /\ Left(c) = given
  BY <1>1, <1>3 DEF Given, Copied, Left
<1>6. Asserts(fn, Given(c))
  BY <1>4, <1>5 DEF Asserts
<1> HIDE DEF c
<1>7. Routine(c)
  BY <1>1, <1>2, <1>5, <1>6 DEF Routine
<1> QED
  BY <1>7 DEF c

LEMMA UnionRoutine ==
  Routine(Call("ecall_type_enum_union", [val1 |-> "ENUM_FOO_0", val2 |-> 0],
               [val1 |-> "ENUM_FOO_0", val2 |-> 2]))
<1> DEFINE fn == "ecall_type_enum_union"
           given == [val1 |-> "ENUM_FOO_0", val2 |-> 0]
           after == [val1 |-> "ENUM_FOO_0", val2 |-> 2]
           c == Call(fn, given, after)
<1>1. c.fn = fn /\ c.given = given /\ c.after = after /\ c.result = "SGX_SUCCESS"
  BY Calls
<1>2. Leaf(fn) /\ fn \notin DOMAIN Roots
  BY FunctionTables
<1>3. Edl(fn) = {}
  BY EdlOfKind, Kinds DEF TypeEdl
<1>4. fn \notin DOMAIN PointerEdl /\ fn \notin DOMAIN ArrayEdl /\ fn \notin MustBeWithin
  BY Kinds DEF MustBeWithin
<1>5. given.val1 = "ENUM_FOO_0" /\ UnionLeaves(given) = after
  BY DEF UnionLeaves
<1> HIDE DEF given, after
<1>6. Given(c) = given
  BY <1>1, <1>3 DEF Given
<1>7. TypeAsserts(fn, given)
  BY <1>5 DEF TypeAsserts
<1>8. Asserts(fn, Given(c))
  BY <1>3, <1>4, <1>6, <1>7 DEF Asserts
<1>9. Left(c) = after
  BY <1>1, <1>3, <1>5, <1>6, LeavesOf DEF Left
<1> HIDE DEF c
<1>10. Routine(c)
  BY <1>1, <1>2, <1>8, <1>9 DEF Routine
<1> QED
  BY <1>10 DEF c, given, after

LEMMA LibraryRoutine ==
  ASSUME NEW fn \in DOMAIN LibraryEdl
  PROVE  Routine(Plain(fn))
<1> DEFINE c == Plain(fn)
<1>1. c.fn = fn /\ c.given = 0 /\ c.after = 0 /\ c.result = "SGX_SUCCESS"
  BY DEF Call, Plain
<1>2. Leaf(fn) /\ fn \notin DOMAIN Roots
  BY Kinds, FunctionTables
<1>3. /\ fn \notin DOMAIN PointerEdl /\ fn \notin DOMAIN ArrayEdl /\ fn \notin DOMAIN TypeEdl
      /\ fn \notin MustBeWithin /\ fn \notin MustBeOutside
  BY Kinds DEF MustBeWithin, MustBeOutside
<1>4. Edl(fn) = {} \/ Edl(fn) = {"out"}
  BY EdlOfKind, Kinds DEF LibraryEdl
<1>5. Given(c) = 0
  BY <1>1, <1>3, <1>4 DEF Given, Copied
<1>6. Left(c) = 0
  BY <1>1, <1>4, <1>5, LeavesOf DEF Left
<1>7. Asserts(fn, Given(c))
  BY <1>3 DEF Asserts
<1> HIDE DEF c
<1>8. Routine(c)
  BY <1>1, <1>2, <1>6, <1>7 DEF Routine
<1> QED
  BY <1>8 DEF c

\* ecall_function_private returns 1 and takes nothing.
LEMMA PrivateRoutine == Routine(Call("ecall_function_private", 0, 1))
<1> DEFINE fn == "ecall_function_private"
           c == Call(fn, 0, 1)
<1>1. c.fn = fn /\ c.given = 0 /\ c.after = 1 /\ c.result = "SGX_SUCCESS"
  BY Calls
<1>2. Leaf(fn) /\ fn \notin DOMAIN Roots
  BY FunctionTables
<1>3. /\ fn \notin DOMAIN PointerEdl /\ fn \notin DOMAIN ArrayEdl /\ fn \notin DOMAIN TypeEdl
      /\ fn \notin MustBeWithin /\ fn \notin MustBeOutside
  BY Kinds DEF MustBeWithin, MustBeOutside
<1>4. Edl(fn) = {"out"}
  BY EdlOfKind, Kinds DEF FunctionEdl
<1>5. Left(c) = 1
  BY <1>1, <1>4, LeavesOf DEF Left
<1>6. Asserts(fn, Given(c))
  BY <1>3 DEF Asserts
<1> HIDE DEF c
<1>7. Routine(c)
  BY <1>1, <1>2, <1>5, <1>6 DEF Routine
<1> QED
  BY <1>7 DEF c

\* The functions that make calls take and leave nothing.
LEMMA NestedCalls ==
  ASSUME NEW fn \in DOMAIN Inner
  PROVE  Nested(Plain(fn))
<1>1. /\ Plain(fn).fn = fn /\ Plain(fn).given = 0 /\ Plain(fn).after = 0
      /\ Plain(fn).result = "SGX_SUCCESS"
  BY DEF Call, Plain
<1>2. fn \notin DOMAIN Roots
  BY FunctionTables
<1>3. Edl(fn) = {}
  BY FunctionTables, EdlOfKind, Kinds DEF PointerEdl, FunctionEdl
<1> QED
  BY <1>1, <1>2, <1>3 DEF Nested

-----------------------------------------------------------------------------
(* Every call a function makes is one it can make: it is permitted, and    *)
(* its routine completes and leaves what the function asserts; or it is    *)
(* refused, and the function asserts that.                                 *)

Completes(c) == Routine(c) \/ Nested(c)

FromApp(c) ==
  \/ c.fn \notin Private /\ Completes(c)
  \/ Refused(c) /\ c.fn \notin Ocalls /\ c.fn \notin DOMAIN Roots

FromInside(fn, c) == c.fn \in Ocalls \cup Allow(fn) /\ Completes(c)

LEMMA PublicIsNotPrivate ==
  /\ \A fn \in DOMAIN PointerEdl : fn \notin Private
  /\ \A fn \in DOMAIN ArrayEdl : fn \notin Private
  /\ \A fn \in DOMAIN TypeEdl : fn \notin Private
  /\ \A fn \in DOMAIN LibraryEdl : fn \notin Private
  /\ \A fn \in DOMAIN Inner : fn \notin Private
BY Kinds, FunctionTables DEF Private

LEMMA PointerCalls ==
  \A i \in 1 .. Len(edger8r_pointer_attributes) : FromApp(edger8r_pointer_attributes[i])
<1> DEFINE s == edger8r_pointer_attributes
<1>1. /\ Routine(Call("ecall_pointer_in", 0, 0))
      /\ Routine(Call("ecall_pointer_out", 0, 1234))
      /\ Routine(Call("ecall_pointer_in_out", 0, 1234))
  BY PointerRoutine, LeavesOf, Kinds DEF PointerEdl, MustBeWithin, MustBeOutside
<1>2. Routine(Call("ecall_pointer_user_check", [text |-> "fill", sz |-> 128],
                   [text |-> "SGX_SUCCESS", sz |-> 128]))
  <2> DEFINE given == [text |-> "fill", sz |-> 128]
             after == [text |-> "SGX_SUCCESS", sz |-> 128]
  <2>1. UserCheckLeaves(given) = after
    BY DEF UserCheckLeaves
  <2> HIDE DEF given, after
  <2>2. Routine(Call("ecall_pointer_user_check", given, after))
    BY <2>1, PointerRoutine, LeavesOf, Kinds DEF PointerEdl, MustBeWithin, MustBeOutside
  <2> QED
    BY <2>2 DEF given, after
<1>3. /\ Routine(Call("ecall_pointer_string", "1234567890", "0987654321"))
      /\ Routine(Call("ecall_pointer_string_const", "1234567890", "1234567890"))
      /\ Routine(Call("ecall_pointer_size", "1234567890", "0987654321"))
      /\ Routine(Call("ecall_pointer_isptr_readonly", "1234567890", "1234567890"))
  BY PointerRoutine, LeavesOf, Kinds DEF PointerEdl, MustBeWithin, MustBeOutside, TextLeaves
<1>4. Routine(Call("ecall_pointer_count", Up(10), Down(10)))
  <2>1. ArrayLeaves(Up(10)) = Down(10)
    BY Reversed DEF Up
  <2> QED
    BY <2>1, PointerRoutine, LeavesOf, Kinds DEF PointerEdl, MustBeWithin, MustBeOutside
<1>5. Nested(Plain("ocall_pointer_attr"))
  BY NestedCalls, FunctionTables
<1>6. \A i \in 1 .. Len(s) : s[i].fn \in DOMAIN PointerEdl
  BY Calls, Kinds DEF edger8r_pointer_attributes, Plain
<1>7. Len(s) = 10
  BY DEF edger8r_pointer_attributes
<1>8. \A i \in 1 .. 10 : Completes(s[i])
  BY <1>1, <1>2, <1>3, <1>4, <1>5 DEF edger8r_pointer_attributes, Completes
<1> QED
  BY <1>6, <1>7, <1>8, PublicIsNotPrivate DEF FromApp

LEMMA ArrayCalls ==
  \A i \in 1 .. Len(edger8r_array_attributes) : FromApp(edger8r_array_attributes[i])
<1> DEFINE s == edger8r_array_attributes
<1>1. /\ Routine(Call("ecall_array_user_check", Up(4), Down(4)))
      /\ Routine(Call("ecall_array_in", Up(4), Up(4)))
      /\ Routine(Call("ecall_array_out", Up(4), Down(4)))
      /\ Routine(Call("ecall_array_in_out", Up(4), Down(4)))
      /\ Routine(Call("ecall_array_isary", Up(10), Down(10)))
  BY ArrayRoutine, Kinds
<1>2. \A i \in 1 .. Len(s) : s[i].fn \in DOMAIN ArrayEdl
  BY Calls, Kinds DEF edger8r_array_attributes
<1>3. Len(s) = 5
  BY DEF edger8r_array_attributes
<1>4. \A i \in 1 .. 5 : Completes(s[i])
  BY <1>1 DEF edger8r_array_attributes, Completes
<1> QED
  BY <1>2, <1>3, <1>4, PublicIsNotPrivate DEF FromApp

LEMMA TypeCalls ==
  \A i \in 1 .. Len(edger8r_type_attributes) : FromApp(edger8r_type_attributes[i])
<1> DEFINE s == edger8r_type_attributes
<1>1. /\ TypeAsserts("ecall_type_char", 18)
      /\ TypeAsserts("ecall_type_int", 1234)
      /\ TypeAsserts("ecall_type_float", "1234.0")
      /\ TypeAsserts("ecall_type_double", "1234.5678")
      /\ TypeAsserts("ecall_type_size_t", 12345678)
      /\ TypeAsserts("ecall_type_wchar_t", 4660)
      /\ TypeAsserts("ecall_type_struct", <<1234, 5678>>)
  BY DEF TypeAsserts
<1>2. /\ Routine(Call("ecall_type_char", 18, 18))
      /\ Routine(Call("ecall_type_int", 1234, 1234))
      /\ Routine(Call("ecall_type_float", "1234.0", "1234.0"))
      /\ Routine(Call("ecall_type_double", "1234.5678", "1234.5678"))
      /\ Routine(Call("ecall_type_size_t", 12345678, 12345678))
      /\ Routine(Call("ecall_type_wchar_t", 4660, 4660))
      /\ Routine(Call("ecall_type_struct", <<1234, 5678>>, <<1234, 5678>>))
  BY <1>1, TypeRoutine, Kinds
<1>3. \A i \in 1 .. Len(s) : s[i].fn \in DOMAIN TypeEdl
  BY Calls, Kinds DEF edger8r_type_attributes
<1>4. Len(s) = 8
  BY DEF edger8r_type_attributes
<1>5. \A i \in 1 .. 8 : Completes(s[i])
  BY <1>2, UnionRoutine DEF edger8r_type_attributes, Completes
<1> QED
  BY <1>3, <1>4, <1>5, PublicIsNotPrivate DEF FromApp

LEMMA FunctionCalls ==
  /\ \A i \in 1 .. Len(edger8r_function_attributes) : FromApp(edger8r_function_attributes[i])
  /\ \A i \in 1 .. Len(ecall_function_public) :
       FromInside("ecall_function_public", ecall_function_public[i])
  /\ \A i \in 1 .. Len(ocall_function_allow) :
       FromInside("ocall_function_allow", ocall_function_allow[i])
<1>1. FromApp(Plain("ecall_function_public"))
  <2>1. Plain("ecall_function_public").fn = "ecall_function_public"
    BY DEF Call, Plain
  <2> QED
    BY <2>1, NestedCalls, FunctionTables, PublicIsNotPrivate DEF FromApp, Completes
<1>2. ASSUME NEW c,
             c = [Call("ecall_function_private", 0, 0)
                    EXCEPT !.result = "SGX_ERROR_ECALL_NOT_ALLOWED"]
      PROVE  FromApp(c)
  <2>1. /\ c.fn = "ecall_function_private" /\ c.given = 0 /\ c.after = 0
        /\ c.result = "SGX_ERROR_ECALL_NOT_ALLOWED"
    BY <1>2 DEF Call
  <2> QED
    BY <2>1, FunctionTables DEF FromApp, Refused, Private, Ocalls
<1>3. FromInside("ecall_function_public", Plain("ocall_function_allow"))
  <2>1. Plain("ocall_function_allow").fn = "ocall_function_allow"
    BY DEF Call, Plain
  <2> QED
    BY <2>1, NestedCalls, FunctionTables DEF FromInside, Completes, Ocalls
<1>4. FromInside("ocall_function_allow", Call("ecall_function_private", 0, 1))
  BY PrivateRoutine, Calls DEF FromInside, Completes, Allow, Private
<1>5. \A i \in 1 .. Len(edger8r_function_attributes) : FromApp(edger8r_function_attributes[i])
  BY <1>1, <1>2 DEF edger8r_function_attributes
<1>6. \A i \in 1 .. Len(ecall_function_public) :
        FromInside("ecall_function_public", ecall_function_public[i])
  BY <1>3 DEF ecall_function_public
<1>7. \A i \in 1 .. Len(ocall_function_allow) :
        FromInside("ocall_function_allow", ocall_function_allow[i])
  BY <1>4 DEF ocall_function_allow
<1> QED
  BY <1>5, <1>6, <1>7

LEMMA OcallPointerCalls ==
  \A i \in 1 .. Len(ocall_pointer_attr) : FromInside("ocall_pointer_attr", ocall_pointer_attr[i])
<1> DEFINE s == ocall_pointer_attr
<1>1. /\ Routine(Call("ocall_pointer_user_check", 0, 0))
      /\ Routine(Call("ocall_pointer_in", 0, 0))
      /\ Routine(Call("ocall_pointer_out", 0, 1234))
      /\ Routine(Call("ocall_pointer_in_out", 0, 1234))
  BY PointerRoutine, LeavesOf, Kinds
     DEF PointerEdl, MustBeWithin, MustBeOutside, Ocalls, OcallLeaves
<1>2. \A i \in 1 .. Len(s) : s[i].fn \in Ocalls
  BY Calls DEF ocall_pointer_attr, Ocalls
<1>3. Len(s) = 4
  BY DEF ocall_pointer_attr
<1>4. \A i \in 1 .. 4 : Completes(s[i])
  BY <1>1 DEF ocall_pointer_attr, Completes
<1> QED
  BY <1>2, <1>3, <1>4 DEF FromInside

LEMMA LibraryCalls ==
  /\ \A i \in 1 .. Len(ecall_libc_functions) : FromApp(ecall_libc_functions[i])
  /\ \A i \in 1 .. Len(ecall_libcxx_functions) : FromApp(ecall_libcxx_functions[i])
<1>1. \A fn \in DOMAIN LibraryEdl : FromApp(Plain(fn))
  <2>1. \A fn : Plain(fn).fn = fn
    BY DEF Call, Plain
  <2> QED
    BY <2>1, LibraryRoutine, PublicIsNotPrivate DEF FromApp, Completes
<1>2. \A i \in 1 .. Len(ecall_libc_functions) : FromApp(ecall_libc_functions[i])
  BY <1>1, Kinds DEF ecall_libc_functions
<1>3. \A i \in 1 .. Len(ecall_libcxx_functions) : FromApp(ecall_libcxx_functions[i])
  BY <1>1, Kinds DEF ecall_libcxx_functions
<1> QED
  BY <1>2, <1>3

LEMMA EveryCallFits ==
  /\ \A fn \in DOMAIN Roots : \A i \in 1 .. Len(Script(fn)) : FromApp(Script(fn)[i])
  /\ \A fn \in DOMAIN Inner : \A i \in 1 .. Len(Script(fn)) : FromInside(fn, Script(fn)[i])
<1>1. \A fn \in DOMAIN Roots : Script(fn) \in {
        edger8r_pointer_attributes, edger8r_array_attributes, edger8r_type_attributes,
        edger8r_function_attributes, ecall_libc_functions, ecall_libcxx_functions}
  BY FunctionTables DEF Roots
<1>2. /\ Script("ocall_pointer_attr") = ocall_pointer_attr
      /\ Script("ecall_function_public") = ecall_function_public
      /\ Script("ocall_function_allow") = ocall_function_allow
  BY FunctionTables DEF Inner
<1>3. \A fn \in DOMAIN Roots : \A i \in 1 .. Len(Script(fn)) : FromApp(Script(fn)[i])
  BY <1>1, PointerCalls, ArrayCalls, TypeCalls, FunctionCalls, LibraryCalls
<1>4. \A fn \in DOMAIN Inner : \A i \in 1 .. Len(Script(fn)) : FromInside(fn, Script(fn)[i])
  BY <1>2, FunctionTables, FunctionCalls, OcallPointerCalls
<1> QED
  BY <1>3, <1>4

-----------------------------------------------------------------------------
(* The frames *)

Callers == DOMAIN Roots \cup DOMAIN Inner

\* Every call some function makes, and the values a frame can hold.
Made == UNION {{Script(fn)[i] : i \in 1 .. Len(Script(fn))} : fn \in Callers}

Values ==
  {0} \cup {c.given : c \in Made} \cup {c.after : c \in Made}
      \cup {Copied(c.fn, c.given) : c \in Made} \cup {Leaves(c.fn, Given(c)) : c \in Made}

Frames == [fn : Callers \cup {c.fn : c \in Made}, pc : Nat \ {0}, mem : Values, var : Values]

\* What the caller f finds in its variable when the call of g is over.
Found(f, g) == IF "out" \in Edl(g.fn) THEN g.mem ELSE f.var

\* g is the frame of the call f is making, and has in its hands what f gave;
\* a function that calls nothing leaves what f asserts once it has worked, one
\* that makes calls has left it from the start.
Linked(f, g) ==
  /\ f.fn \in Callers /\ f.pc \in 1 .. Len(Script(f.fn))
  /\ g.fn = Making(f).fn /\ Completes(Making(f))
  /\ g.pc = 1 => /\ f.var = Making(f).given
                 /\ g.mem = Copied(g.fn, Making(f).given)
  /\ Leaf(g.fn) => g.pc \in {1, 2}
  /\ ~(Leaf(g.fn) /\ g.pc = 1) => Found(f, g) = Making(f).after

StackInv ==
  /\ stack \in Seq(Frames)
  /\ \A k \in 1 .. Len(stack) : stack[k].fn \in DOMAIN Roots <=> k = 1
  /\ \A k \in 1 .. Len(stack) - 1 : Linked(stack[k], stack[k + 1])

EdgeInv == StackInv /\ status \in {"ok", "done", "lost"}

LEMMA MadeValues ==
  ASSUME NEW c \in Made
  PROVE  /\ c.given \in Values /\ c.after \in Values
         /\ Copied(c.fn, c.given) \in Values /\ Leaves(c.fn, Given(c)) \in Values
BY DEF Values

LEMMA RootsAreCallers == \A fn \in DOMAIN Roots : fn \in Callers /\ fn \notin DOMAIN Inner
BY FunctionTables DEF Callers

LEMMA CallersCall == \A fn \in Callers : Len(Script(fn)) \in Nat \ {0} /\ ~Leaf(fn)
<1>1. /\ Len(edger8r_pointer_attributes) = 10 /\ Len(edger8r_array_attributes) = 5
      /\ Len(edger8r_type_attributes) = 8 /\ Len(edger8r_function_attributes) = 2
      /\ Len(ecall_libc_functions) = 2 /\ Len(ecall_libcxx_functions) = 2
      /\ Len(ocall_pointer_attr) = 4 /\ Len(ecall_function_public) = 1
      /\ Len(ocall_function_allow) = 1
  BY DEF edger8r_pointer_attributes, edger8r_array_attributes,
         edger8r_type_attributes, edger8r_function_attributes, ecall_libc_functions,
         ecall_libcxx_functions, ocall_pointer_attr, ecall_function_public, ocall_function_allow
<1>2. \A fn \in DOMAIN Roots : Script(fn) \in {
        edger8r_pointer_attributes, edger8r_array_attributes, edger8r_type_attributes,
        edger8r_function_attributes, ecall_libc_functions, ecall_libcxx_functions}
  BY FunctionTables DEF Roots
<1>3. \A fn \in DOMAIN Inner :
        Script(fn) \in {ocall_pointer_attr, ecall_function_public, ocall_function_allow}
  BY FunctionTables DEF Inner
<1>4. ASSUME NEW fn \in Callers PROVE Len(Script(fn)) \in Nat \ {0}
  <2>1. Len(Script(fn)) \in {10, 5, 8, 2, 4, 1}
    BY <1>1, <1>2, <1>3 DEF Callers
  <2>2. \A l \in {10, 5, 8, 2, 4, 1} : l \in Nat \ {0}
    OBVIOUS
  <2> QED
    BY <2>1, <2>2, Zenon
<1>5. Len(<<>>) = 0
  OBVIOUS
<1> QED
  BY <1>4, <1>5 DEF Leaf

\* A function that has a call to make makes one that fits.
LEMMA TopCall ==
  ASSUME StackInv, NEW k \in 1 .. Len(stack), stack[k].pc <= Len(Script(stack[k].fn))
  PROVE  /\ stack[k].fn \in Callers /\ ~Leaf(stack[k].fn)
         /\ stack[k].pc \in 1 .. Len(Script(stack[k].fn))
         /\ Making(stack[k]) \in Made
         /\ k = 1 => FromApp(Making(stack[k])) /\ Allow(stack[k].fn) = {}
         /\ k # 1 => FromInside(stack[k].fn, Making(stack[k]))
<1> DEFINE f == stack[k]
<1>1. f \in Frames
  BY DEF StackInv
<1>2. f.pc \in Nat /\ f.pc > 0
  BY <1>1 DEF Frames
<1>3. ~Leaf(f.fn)
  BY <1>2 DEF Leaf
<1>4. f.fn \in Callers
  BY <1>3, FunctionTables DEF Callers
<1>5. Len(Script(f.fn)) \in Nat
  BY <1>4, CallersCall
<1>6. f.pc \in 1 .. Len(Script(f.fn))
  BY <1>2, <1>5
<1>7. Making(f) \in Made
  BY <1>4, <1>6 DEF Making, Made
<1>8. k = 1 => FromApp(Making(f)) /\ Allow(f.fn) = {}
  <2> SUFFICES ASSUME k = 1 PROVE FromApp(Making(f)) /\ Allow(f.fn) = {}
    OBVIOUS
  <2>1. f.fn \in DOMAIN Roots
    BY DEF StackInv
  <2>2. Allow(f.fn) = {}
    BY <2>1, FunctionTables DEF Allow
  <2> QED
    BY <2>1, <2>2, <1>6, EveryCallFits DEF Making
<1>9. k # 1 => FromInside(f.fn, Making(f))
  BY <1>4, <1>6, EveryCallFits DEF StackInv, Making, Callers
<1> QED
  BY <1>3, <1>4, <1>6, <1>7, <1>8, <1>9

\* What passes through the caller's variable does not concern its own caller.
LEMMA LinkedCallee ==
  ASSUME NEW f, NEW g \in Frames, NEW h \in Frames, Linked(f, g), ~Leaf(g.fn),
         h.fn = g.fn, h.mem = g.mem, h.pc = g.pc \/ h.pc = g.pc + 1
  PROVE  Linked(f, h)
<1>1. g.pc \in Nat /\ g.pc > 0
  BY DEF Frames
<1>2. Found(f, h) = Found(f, g)
  BY DEF Found
<1>3. h.pc = 1 => g.pc = 1
  BY <1>1
<1> QED
  BY <1>2, <1>3 DEF Linked

\* A frame that is replaced by one of the same function keeps the stack's shape.
LEMMA Replaced ==
  ASSUME StackInv, NEW below, NEW n \in 1 .. Len(stack), NEW h \in Frames,
         below \in Seq(Frames), Len(below) = n,
         \A k \in 1 .. n - 1 : below[k] = stack[k],
         below[n] = h, h.fn = stack[n].fn,
         n # 1 => Linked(stack[n - 1], h)
  PROVE  /\ \A k \in 1 .. Len(below) : below[k].fn \in DOMAIN Roots <=> k = 1
         /\ \A k \in 1 .. Len(below) - 1 : Linked(below[k], below[k + 1])
<1>1. Len(stack) \in Nat
  BY DEF StackInv
<1>2. ASSUME NEW k \in 1 .. n PROVE below[k].fn \in DOMAIN Roots <=> k = 1
  <2>1. below[k].fn = stack[k].fn
    BY <1>1
  <2> QED
    BY <2>1, <1>1 DEF StackInv
<1>3. ASSUME NEW k \in 1 .. n - 1 PROVE Linked(below[k], below[k + 1])
  <2>1. below[k] = stack[k]
    OBVIOUS
  <2>2. CASE k = n - 1
    BY <2>1, <2>2, <1>1
  <2>3. CASE k # n - 1
    <3>1. k + 1 \in 1 .. n - 1 /\ k \in 1 .. Len(stack) - 1
      BY <2>3, <1>1
    <3> QED
      BY <2>1, <3>1 DEF StackInv
  <2> QED
    BY <2>2, <2>3
<1> QED
  BY <1>2, <1>3

LEMMA LinkedAt ==
  ASSUME StackInv, NEW n \in 1 .. Len(stack), n # 1
  PROVE  n - 1 \in 1 .. Len(stack) /\ Linked(stack[n - 1], stack[n])
<1> DEFINE k == n - 1
<1>1. Len(stack) \in Nat
  BY DEF StackInv
<1>2. k \in 1 .. Len(stack) - 1 /\ k \in 1 .. Len(stack) /\ k + 1 = n
  BY <1>1
<1> HIDE DEF k
<1>3. Linked(stack[k], stack[k + 1])
  BY <1>2 DEF StackInv
<1> QED
  BY <1>2, <1>3 DEF k

LEMMA Updated ==
  ASSUME NEW S, NEW s \in Seq(S), NEW n \in 1 .. Len(s), NEW e \in S
  PROVE  /\ [s EXCEPT ![n] = e] \in Seq(S) /\ Len([s EXCEPT ![n] = e]) = Len(s)
         /\ [s EXCEPT ![n] = e][n] = e
         /\ \A k \in 1 .. Len(s) : k # n => [s EXCEPT ![n] = e][k] = s[k]
BY ExceptSeq, LenProperties

\* A function that finds what it asserts goes on to its next call.
LEMMA GoesOn ==
  ASSUME StackInv, NEW n \in 1 .. Len(stack), NEW below, NEW var, NEW result,
         below \in Seq(Frames), Len(below) = n,
         \A k \in 1 .. n : below[k] = stack[k],
         stack[n].pc <= Len(Script(stack[n].fn)),
         var = Making(stack[n]).after, result = Making(stack[n]).result,
         Resumes(below, var, result)
  PROVE  EdgeInv'
<1> DEFINE f == stack[n]
           h == [f EXCEPT !.var = var, !.pc = @ + 1]
           s == [below EXCEPT ![n].var = var, ![n].pc = @ + 1]
<1>1. f \in Frames
  BY DEF StackInv
<1>2. /\ ~Leaf(f.fn) /\ Making(f) \in Made
  BY TopCall
<1>3. var \in Values
  BY <1>2, MadeValues
<1>4. h \in Frames /\ h.fn = f.fn /\ h.mem = f.mem /\ h.pc = f.pc + 1
  <2> HIDE DEF f
  <2>1. f.pc + 1 \in Nat \ {0}
    BY <1>1 DEF Frames
  <2> DEFINE p == f.pc + 1
             a == [f EXCEPT !.var = var]
  <2>2. a \in Frames /\ a.fn = f.fn /\ a.mem = f.mem
    BY <1>1, <1>3 DEF Frames
  <2>3. h = [a EXCEPT !.pc = p]
    BY <1>1 DEF Frames
  <2>4. p \in Nat \ {0}
    BY <2>1
  <2> HIDE DEF a, p, h
  <2>5. h \in Frames /\ h.fn = f.fn /\ h.mem = f.mem /\ h.pc = p
    BY <2>2, <2>3, <2>4 DEF Frames
  <2> QED
    BY <2>5 DEF p
<1>5. s = [below EXCEPT ![n] = h]
  <2> DEFINE b == [below EXCEPT ![n].var = var]
  <2>1. DOMAIN below = 1 .. n /\ below = [k \in 1 .. n |-> below[k]] /\ n \in 1 .. n
    BY LenProperties
  <2>2. b = [below EXCEPT ![n] = [f EXCEPT !.var = var]]
    BY <2>1
  <2>3. s = [b EXCEPT ![n].pc = @ + 1]
    BY <2>1
  <2>4. DOMAIN b = 1 .. n /\ b[n] = [f EXCEPT !.var = var]
    BY <2>1, <2>2
  <2> HIDE DEF b
  <2>5. [b EXCEPT ![n].pc = @ + 1] = [b EXCEPT ![n] = [b[n] EXCEPT !.pc = @ + 1]]
    OBVIOUS
  <2> QED
    BY <2>1, <2>2, <2>3, <2>4, <2>5, <1>1 DEF Frames
<1>6. /\ s \in Seq(Frames) /\ Len(s) = n /\ s[n] = h
      /\ \A k \in 1 .. n - 1 : s[k] = stack[k]
  <2> HIDE DEF s, h
  <2>1. n \in 1 .. Len(below)
    BY DEF StackInv
  <2> QED
    BY <1>4, <1>5, <2>1, Updated
<1>7. n # 1 => Linked(stack[n - 1], h)
  <2> SUFFICES ASSUME n # 1 PROVE Linked(stack[n - 1], h)
    OBVIOUS
  <2>2. Linked(stack[n - 1], f)
    BY LinkedAt
  <2> QED
    BY <2>2, <1>1, <1>2, <1>4, LinkedCallee
<1>8. stack' = s /\ status' = "ok"
  BY DEF Resumes
<1> HIDE DEF s, h
<1>9. StackInv'
  <2>1. /\ \A k \in 1 .. n : s[k].fn \in DOMAIN Roots <=> k = 1
        /\ \A k \in 1 .. n - 1 : Linked(s[k], s[k + 1])
    BY <1>4, <1>6, <1>7, Replaced
  <2> QED
    BY <2>1, <1>6, <1>8 DEF StackInv
<1> QED
  BY <1>8, <1>9 DEF EdgeInv

LEMMA StepBegins ==
  ASSUME EdgeInv, NEW root \in DOMAIN Roots, AppBegins(root)
  PROVE  EdgeInv'
<1>1. stack' = <<Frame(root, 0)>> /\ status' = "ok"
  BY DEF AppBegins
<1>2. Frame(root, 0) \in Frames /\ Frame(root, 0).fn = root
  BY RootsAreCallers DEF Frame, Frames, Values
<1> QED
  BY <1>1, <1>2 DEF EdgeInv, StackInv

LEMMA StepEnters ==
  ASSUME EdgeInv, Enters
  PROVE  EdgeInv'
<1> DEFINE n == Len(stack)
           c == Making(Top)
           h == [Top EXCEPT !.var = c.given]
           g == Frame(c.fn, Copied(c.fn, c.given))
           s == [stack EXCEPT ![n].var = c.given]
<1>1. n \in Nat /\ n > 0 /\ n \in 1 .. Len(stack) /\ Top = stack[n] /\ Top \in Frames
  BY DEF EdgeInv, StackInv, Enters, Top, Depth
<1>2. Top.pc <= Len(Script(Top.fn)) /\ Permitted(c.fn)
  BY DEF Enters
<1>3. /\ Top.fn \in Callers /\ ~Leaf(Top.fn) /\ c \in Made
      /\ Top.pc \in 1 .. Len(Script(Top.fn))
      /\ n = 1 => FromApp(c) /\ Allow(Top.fn) = {}
      /\ n # 1 => FromInside(Top.fn, c)
  BY <1>1, <1>2, TopCall DEF EdgeInv
<1>4. Completes(c)
  <2>1. CASE n = 1
    <3>1. Permitted(c.fn) => c.fn \in Ocalls \/ c.fn \notin Private
      BY <2>1, <1>3 DEF Permitted, Depth
    <3> HIDE DEF c
    <3> QED
      BY <2>1, <3>1, <1>2, <1>3 DEF FromApp, Refused
  <2>2. CASE n # 1
    BY <2>2, <1>3 DEF FromInside
  <2> QED
    BY <2>1, <2>2
<1>5. c.fn \notin DOMAIN Roots
  BY <1>4 DEF Completes, Routine, Nested
<1>6. /\ g \in Frames /\ g.fn = c.fn /\ g.pc = 1 /\ g.mem = Copied(c.fn, c.given)
  <2>1. g = [fn |-> c.fn, pc |-> 1, mem |-> Copied(c.fn, c.given), var |-> 0]
    BY DEF Frame
  <2> QED
    BY <2>1, <1>3, MadeValues DEF Frames, Values
<1>7. h \in Frames /\ h.fn = Top.fn /\ h.pc = Top.pc /\ h.mem = Top.mem /\ h.var = c.given
  BY <1>1, <1>3, MadeValues DEF Frames
<1>8. stack' = Append(s, g) /\ status' = "ok"
  BY DEF Enters, Depth
<1>9. s = [stack EXCEPT ![n] = h]
  BY <1>1
<1>10. Making(h) = c
  BY <1>7 DEF Making
<1> HIDE DEF s, h, g, c
<1>11. /\ s \in Seq(Frames) /\ Len(s) = n /\ s[n] = h
       /\ \A k \in 1 .. n - 1 : s[k] = stack[k]
  BY <1>1, <1>7, <1>9, Updated DEF EdgeInv, StackInv
<1>12. n # 1 => Linked(stack[n - 1], h)
  <2> SUFFICES ASSUME n # 1 PROVE Linked(stack[n - 1], h)
    OBVIOUS
  <2>2. Linked(stack[n - 1], Top)
    BY <1>1, LinkedAt DEF EdgeInv
  <2> QED
    BY <2>2, <1>1, <1>3, <1>7, LinkedCallee
<1>13. /\ \A k \in 1 .. n : s[k].fn \in DOMAIN Roots <=> k = 1
       /\ \A k \in 1 .. n - 1 : Linked(s[k], s[k + 1])
  BY <1>1, <1>7, <1>11, <1>12, Replaced DEF EdgeInv
<1>14. Linked(h, g)
  <2>1. ~(Leaf(g.fn) /\ g.pc = 1) => Found(h, g) = c.after
    BY <1>4, <1>6, <1>7 DEF Completes, Routine, Nested, Found
  <2> QED
    BY <2>1, <1>3, <1>4, <1>6, <1>7, <1>10 DEF Linked
<1>15. /\ Append(s, g) \in Seq(Frames) /\ Len(Append(s, g)) = n + 1
       /\ Append(s, g)[n + 1] = g /\ \A k \in 1 .. n : Append(s, g)[k] = s[k]
  BY <1>6, <1>11, AppendProperties
<1>16. StackInv'
  <2>1. \A k \in 1 .. n + 1 : Append(s, g)[k].fn \in DOMAIN Roots <=> k = 1
    BY <1>1, <1>5, <1>6, <1>13, <1>15
  <2>2. ASSUME NEW k \in 1 .. n PROVE Linked(Append(s, g)[k], Append(s, g)[k + 1])
    <3>1. CASE k = n
      BY <3>1, <1>1, <1>11, <1>14, <1>15
    <3>2. CASE k # n
      <4>1. k \in 1 .. n - 1 /\ k + 1 \in 1 .. n
        BY <3>2, <1>1
      <4> QED
        BY <4>1, <1>13, <1>15
    <3> QED
      BY <3>1, <3>2
  <2> QED
    BY <2>1, <2>2, <1>1, <1>8, <1>15 DEF StackInv
<1> QED
  BY <1>8, <1>16 DEF EdgeInv

LEMMA StepRefuses ==
  ASSUME EdgeInv, Refuses
  PROVE  EdgeInv'
<1> DEFINE n == Len(stack)
           c == Making(Top)
<1>1. n \in Nat /\ n > 0 /\ n \in 1 .. Len(stack) /\ Top = stack[n] /\ Top.pc <= Len(Script(Top.fn))
  BY DEF EdgeInv, StackInv, Refuses, Top, Depth
<1>2. ~Permitted(c.fn) /\ Resumes(stack, c.given, "SGX_ERROR_ECALL_NOT_ALLOWED")
  BY DEF Refuses
<1>3. /\ n = 1 => FromApp(c)
      /\ n # 1 => FromInside(Top.fn, c)
  BY <1>1, TopCall DEF EdgeInv
<1>4. Refused(c)
  <2>1. CASE n = 1
    <3>1. c.fn \in Private
      BY <2>1, <1>2 DEF Permitted, Depth
    <3> HIDE DEF c
    <3> QED
      BY <2>1, <3>1, <1>3 DEF FromApp
  <2>2. CASE n # 1
    <3>1. c.fn \notin Ocalls \cup Allow(Top.fn)
      BY <1>2 DEF Permitted
    <3> HIDE DEF c
    <3> QED
      BY <2>2, <3>1, <1>3 DEF FromInside
  <2> QED
    BY <2>1, <2>2
<1>5. c.given = c.after /\ c.result = "SGX_ERROR_ECALL_NOT_ALLOWED"
  BY <1>4 DEF Refused
<1> QED
  BY <1>1, <1>2, <1>5, GoesOn DEF EdgeInv, StackInv

LEMMA StepReturns ==
  ASSUME EdgeInv, Returns
  PROVE  EdgeInv'
<1> DEFINE n == Len(stack)
           below == SubSeq(stack, 1, n - 1)
           var == IF "out" \in Edl(Top.fn) THEN Top.mem ELSE Caller.var
<1>1. n \in Nat /\ n > 0 /\ n \in 1 .. Len(stack) /\ Top = stack[n] /\ stack \in Seq(Frames)
  BY DEF EdgeInv, StackInv, Returns, Top, Depth
<1>2. CASE n = 1
  <2>1. stack' = <<>> /\ status' = "done"
    BY <1>2 DEF Returns, Depth
  <2> QED
    BY <2>1 DEF EdgeInv, StackInv
<1>3. CASE n # 1
  <2> DEFINE f == stack[n - 1]
  <2>1. Resumes(below, var, "SGX_SUCCESS") /\ Caller = f
    BY <1>3 DEF Returns, Depth, Caller
  <2>2. n - 1 \in 1 .. n /\ n - 1 \in Nat
    <3> HIDE DEF n
    <3> QED
      BY <1>1, <1>3
  <2>3. Linked(f, Top)
    BY <1>1, <1>3, LinkedAt DEF EdgeInv
  <2>4. Leaf(Top.fn) => Top.pc # 1
    BY DEF Returns, Leaf
  <2>5. var = Making(f).after
    BY <2>1, <2>3, <2>4 DEF Linked, Found
  <2>6. Making(f).result = "SGX_SUCCESS"
    BY <2>3 DEF Linked, Completes, Routine, Nested
  <2>7. /\ below \in Seq(Frames) /\ Len(below) = n - 1
        /\ \A k \in 1 .. n - 1 : below[k] = stack[k]
    BY <1>1, <2>2, SubSeqProperties
  <2>8. f.pc <= Len(Script(f.fn))
    BY <2>3, CallersCall DEF Linked
  <2> HIDE DEF below, var
  <2> QED
    BY <2>1, <2>2, <2>5, <2>6, <2>7, <2>8, GoesOn DEF EdgeInv
<1> QED
  BY <1>2, <1>3

\* A routine works on what its caller gave: the bridge's copy, or the caller's
\* own memory, which nobody has touched.
LEMMA StepWorks ==
  ASSUME EdgeInv, Works
  PROVE  EdgeInv'
<1> DEFINE n == Len(stack)
           f == stack[n - 1]
           c == Making(f)
           shared == Edl(Top.fn) = {}
           v == IF shared THEN Caller.var ELSE Top.mem
           h == [Top EXCEPT !.pc = 2]
           done == [stack EXCEPT ![n].pc = 2]
<1>1. n \in Nat /\ n > 0 /\ n \in 1 .. Len(stack) /\ Top = stack[n] /\ Top \in Frames
  BY DEF EdgeInv, StackInv, Works, Top, Depth
<1>2. Leaf(Top.fn) /\ Top.pc = 1
  BY DEF Works, Leaf
<1>3. Top.fn \notin DOMAIN Roots
  BY <1>2, CallersCall DEF Callers
<1>4. n # 1
  BY <1>1, <1>3 DEF EdgeInv, StackInv
<1>5. n - 1 \in 1 .. Len(stack) /\ Linked(f, Top) /\ Caller = f /\ f \in Frames
  <2>1. Caller = f
    BY DEF Caller, Depth
  <2>2. n - 1 \in 1 .. Len(stack) /\ Linked(f, stack[n])
    BY <1>1, <1>4, LinkedAt DEF EdgeInv
  <2>3. f \in Frames
    BY <2>2 DEF EdgeInv, StackInv
  <2> QED
    BY <1>1, <2>1, <2>2, <2>3
<1>6. /\ f.fn \in Callers /\ f.pc \in 1 .. Len(Script(f.fn))
      /\ Top.fn = c.fn /\ f.var = c.given /\ Top.mem = Copied(c.fn, c.given)
  BY <1>2, <1>5 DEF Linked
<1>7. f.pc <= Len(Script(f.fn))
  BY <1>6, CallersCall
<1>8. c \in Made /\ ~Leaf(f.fn)
  BY <1>5, <1>7, TopCall DEF EdgeInv
<1>9. Routine(c)
  <2>1. Top.fn \notin DOMAIN Inner
    BY <1>2, CallersCall DEF Callers
  <2> QED
    BY <2>1, <1>5, <1>6 DEF Linked, Completes, Nested
<1>10. v = Given(c)
  BY <1>5, <1>6 DEF Given
<1>11. Asserts(Top.fn, v)
  BY <1>6, <1>9, <1>10 DEF Routine
<1>12. h \in Frames /\ h.fn = Top.fn /\ h.pc = 2 /\ h.mem = Top.mem
  BY <1>1 DEF Frames
<1>13. done = [stack EXCEPT ![n] = h]
  BY <1>1
<1>14. /\ done \in Seq(Frames) /\ Len(done) = n /\ done[n] = h
       /\ \A k \in 1 .. n - 1 : done[k] = stack[k]
  <2> HIDE DEF h, done
  <2> QED
    BY <1>1, <1>12, <1>13, Updated DEF EdgeInv, StackInv
<1> DEFINE w == Leaves(Top.fn, v)
<1>15. w = Leaves(c.fn, Given(c)) /\ w \in Values
  BY <1>6, <1>8, <1>10, MadeValues
<1>16. status' = "ok"
  BY <1>11 DEF Works
<1>17. CASE shared
  <2> DEFINE b == [f EXCEPT !.var = w]
             m == n - 1
             s == [done EXCEPT ![m] = b]
  <2>1. stack' = [done EXCEPT ![m].var = w]
    BY <1>11, <1>17 DEF Works, Depth
  <2>2. m \in 1 .. n /\ m # n /\ m + 1 = n /\ m \in Nat
    <3> HIDE DEF n
    <3> QED
      BY <1>1, <1>4
  <2>3. done[m] = f
    <3>1. m \in 1 .. n - 1
      <4> HIDE DEF n
      <4> QED
        BY <1>1, <1>4
    <3> HIDE DEF m, done
    <3>2. done[m] = stack[m]
      BY <3>1, <1>14
    <3> QED
      BY <3>2 DEF m
  <2>4. stack' = s
    <3> HIDE DEF done, m, f, w, n
    <3> QED
      BY <2>1, <2>3
  <2>5. b \in Frames /\ b.fn = f.fn /\ b.pc = f.pc /\ b.mem = f.mem /\ b.var = w
    <3> HIDE DEF f, w
    <3> QED
      BY <1>5, <1>15 DEF Frames
  <2>6. /\ s \in Seq(Frames) /\ Len(s) = n /\ s[m] = b /\ s[n] = h
        /\ \A k \in 1 .. n : k # m /\ k # n => s[k] = stack[k]
    <3> HIDE DEF done, m, b, h, n
    <3>1. \A k \in 1 .. n : k # n => k \in 1 .. n - 1
      BY <1>1
    <3> QED
      BY <3>1, <1>1, <1>14, <2>2, <2>5, Updated
  <2>7. Linked(b, h)
    <3>1. Making(b) = c
      BY <2>5 DEF Making
    <3>2. Found(b, h) = c.after
      BY <1>6, <1>9, <1>12, <1>15, <1>17, <2>5 DEF Found, Routine, Left
    <3> HIDE DEF b, h, c, f
    <3> QED
      BY <3>1, <3>2, <1>6, <1>9, <1>12, <2>5 DEF Linked, Completes
  <2>8. m # 1 => Linked(stack[m - 1], b)
    <3> HIDE DEF b
    <3> QED
      BY <1>5, <1>8, <2>5, LinkedAt, LinkedCallee DEF EdgeInv
  <2> HIDE DEF s, b, h, m
  <2>9. ASSUME NEW k \in 1 .. n PROVE s[k].fn \in DOMAIN Roots <=> k = 1
    <3>1. s[k].fn = stack[k].fn
      BY <2>5, <2>6, <1>12, <1>1 DEF m
    <3> QED
      BY <3>1, <1>1 DEF EdgeInv, StackInv
  <2>10. ASSUME NEW k \in 1 .. n - 1 PROVE Linked(s[k], s[k + 1])
    <3>1. CASE k = m
      BY <3>1, <2>2, <2>6, <2>7
    <3>2. CASE k + 1 = m
      <4>1. k = m - 1 /\ m # 1 /\ k \in 1 .. n /\ k # m /\ k # n
        BY <3>2, <2>2, <1>1
      <4> QED
        BY <4>1, <3>2, <2>6, <2>8
    <3>3. CASE k # m /\ k + 1 # m
      <4>1. k \in 1 .. n /\ k + 1 \in 1 .. n /\ k # n /\ k + 1 # n
        BY <3>3, <2>2, <1>1
      <4> QED
        BY <4>1, <3>3, <2>6, <1>1 DEF EdgeInv, StackInv
    <3> QED
      BY <3>1, <3>2, <3>3
  <2>11. StackInv'
    BY <2>4, <2>6, <2>9, <2>10 DEF StackInv
  <2> QED
    BY <2>11, <1>16 DEF EdgeInv
<1>18. CASE ~shared
  <2> DEFINE e == [h EXCEPT !.mem = w]
             s == [stack EXCEPT ![n] = e]
  <2>1. stack' = [done EXCEPT ![n].mem = w]
    BY <1>11, <1>18 DEF Works, Depth
  <2>2. stack' = s
    <3> HIDE DEF h, w, n
    <3> QED
      BY <2>1, <1>13, <1>14
  <2>3. e \in Frames /\ e.fn = Top.fn /\ e.pc = 2 /\ e.mem = w
    <3> HIDE DEF h, w
    <3> QED
      BY <1>12, <1>15 DEF Frames
  <2>4. /\ s \in Seq(Frames) /\ Len(s) = n /\ s[n] = e
        /\ \A k \in 1 .. n - 1 : s[k] = stack[k]
    <3> HIDE DEF e
    <3> QED
      BY <1>1, <2>3, Updated DEF EdgeInv, StackInv
  <2>5. Linked(f, e)
    <3>1. Found(f, e) = c.after
      BY <1>6, <1>9, <1>15, <1>18, <2>3 DEF Found, Routine, Left
    <3> HIDE DEF e, c, f
    <3>2. Making(f) = c
      BY DEF c
    <3> QED
      BY <3>1, <3>2, <1>6, <1>9, <2>3 DEF Linked, Completes
  <2> HIDE DEF s, e
  <2>6. /\ \A k \in 1 .. n : s[k].fn \in DOMAIN Roots <=> k = 1
        /\ \A k \in 1 .. n - 1 : Linked(s[k], s[k + 1])
    BY <1>1, <2>3, <2>4, <2>5, Replaced DEF EdgeInv
  <2>7. StackInv'
    BY <2>2, <2>4, <2>6 DEF StackInv
  <2> QED
    BY <2>7, <1>16 DEF EdgeInv
<1> QED
  BY <1>17, <1>18

-----------------------------------------------------------------------------
(* The sample's functions: one of them is called *)

LEMMA EdgeStep ==
  ASSUME EdgeInv, [SampleNext]_<<threadVars, edgeVars>>
  PROVE  EdgeInv'
<1>1. CASE UNCHANGED edgeVars
  BY <1>1 DEF edgeVars, EdgeInv, StackInv
<1>2. CASE EdgeNext
  <2>1. CASE \E root \in DOMAIN Roots : AppBegins(root)
    BY <2>1, StepBegins
  <2>2. CASE Enters
    BY <2>2, StepEnters
  <2>3. CASE Refuses
    BY <2>3, StepRefuses
  <2>4. CASE Works
    BY <2>4, StepWorks
  <2>5. CASE Returns
    BY <2>5, StepReturns
  <2>6. CASE EcallsFail
    BY <2>6 DEF EcallsFail, EdgeInv, StackInv
  <2> QED
    BY <1>2, <2>1, <2>2, <2>3, <2>4, <2>5, <2>6 DEF EdgeNext
<1> QED
  BY <1>1, <1>2 DEF SampleNext

(***************************************************************************)
(* No assertion of the edge routines fails, whichever function of the App  *)
(* is called and wherever a power transition strikes: each routine finds   *)
(* in its parameter what it asserts, each caller finds in its variable     *)
(* what it asserts, and only the ecall that is to be refused is refused    *)
(* (App/Edger8rSyntax, and the routines of Enclave/Edger8rSyntax).         *)
(***************************************************************************)
THEOREM AssertionsHold == SampleSpec => []ChecksPass
<1>1. SampleInit => EdgeInv
  BY DEF SampleInit, EdgeInit, EdgeInv, StackInv
<1>2. EdgeInv /\ [SampleNext]_<<threadVars, edgeVars>> => EdgeInv'
  BY EdgeStep
<1>3. EdgeInv => ChecksPass
  BY DEF EdgeInv, ChecksPass
<1> QED
  BY <1>1, <1>2, <1>3, PTL DEF SampleSpec

=============================================================================
