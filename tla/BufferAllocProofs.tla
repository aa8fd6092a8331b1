------------------------- MODULE BufferAllocProofs -------------------------
(***************************************************************************)
(* Proofs about BufferAlloc, for every set of buffers: wherever the        *)
(* construction of a buffer fails, and however often it is tried, its      *)
(* rings leave nothing behind.                                             *)
(***************************************************************************)
EXTENDS BufferAlloc, SequenceTheorems, TLAPS

Parts == Rings \cup Handles
Members == {"d_bytes", "d_base", "d_registered", "d_aligned_bytes", "d_ptr", "d_handle"}

\* The step of the construction that acquires a part, and the one that sets a
\* member.
GotAt ==
  [x \in Parts |->
    CASE x = "fd" -> 1            [] x = "host_va" -> 3     [] x = "host_half1" -> 4
      [] x = "host_half2" -> 5    [] x = "pinned" -> 6      [] x = "dev_va" -> 8
      [] x = "dev_phys" -> 9      [] x = "dev_half1" -> 10  [] x = "dev_half2" -> 11
      [] x = "stream" -> 13       [] x = "dev_ready" -> 14  [] x = "host_ready" -> 15
      [] x = "read_done" -> 16]

SetAt ==
  [f \in Members |->
    CASE f = "d_bytes" -> 1          [] f = "d_base" -> 5  [] f = "d_registered" -> 6
      [] f = "d_aligned_bytes" -> 8  [] f = "d_ptr" -> 8   [] f = "d_handle" -> 9]

\* What the i-th step does to the parts and the members, and what it undoes
\* when it fails.
StepIs(i, s) ==
  /\ s.gets = {x \in Parts : GotAt[x] = i}
  /\ s.before \cup s.after = {f \in Members : SetAt[f] = i}
  /\ s.closes = IF i = 5 THEN {"fd"} ELSE {}
  /\ s.undo = IF i \in 2..5 THEN {x \in HostRing : GotAt[x] < i} ELSE {}

AnyStep == [gets : SUBSET Parts, before : SUBSET Members, after : SUBSET Members,
            closes : SUBSET Parts, undo : SUBSET Parts]

LEMMA StepType ==
  ASSUME NEW g \in SUBSET Parts, NEW m \in SUBSET Members, NEW a \in SUBSET Members,
         NEW c \in SUBSET Parts, NEW u \in SUBSET Parts
  PROVE  Step(g, m, a, c, u) \in AnyStep
  BY DEF Step, AnyStep

LEMMA PiecesAre ==
  /\ host_create \in Seq(AnyStep) /\ Len(host_create) = 5
  /\ register_pinned \in Seq(AnyStep) /\ Len(register_pinned) = 1
  /\ device_create \in Seq(AnyStep) /\ Len(device_create) = 6
  /\ stream_and_events \in Seq(AnyStep) /\ Len(stream_and_events) = 4
<1> USE DEF Parts, Rings, HostRing, DeviceRing, Handles, Members
<1>1. host_create \in Seq(AnyStep) /\ Len(host_create) = 5
  BY StepType DEF host_create
<1>2. register_pinned \in Seq(AnyStep) /\ Len(register_pinned) = 1
  BY StepType DEF register_pinned
<1>3. device_create \in Seq(AnyStep) /\ Len(device_create) = 6
  BY StepType DEF device_create
<1>4. stream_and_events \in Seq(AnyStep) /\ Len(stream_and_events) = 4
  BY StepType DEF stream_and_events
<1> QED
  BY <1>1, <1>2, <1>3, <1>4

LEMMA ConstructionIs ==
  /\ Len(Construction) = 16
  /\ \A i \in 1..5 : Construction[i] = host_create[i]
  /\ Construction[6] = register_pinned[1]
  /\ \A i \in 7..12 : Construction[i] = device_create[i - 6]
  /\ \A i \in 13..16 : Construction[i] = stream_and_events[i - 12]
<1>1. PICK c2 : c2 = host_create \o register_pinned
  OBVIOUS
<1>2. PICK c3 : c3 = c2 \o device_create
  OBVIOUS
<1>3. Construction = c3 \o stream_and_events
  BY <1>1, <1>2 DEF Construction
<1>4. /\ c2 \in Seq(AnyStep) /\ Len(c2) = 6
      /\ \A i \in 1..6 : c2[i] = IF i <= 5 THEN host_create[i] ELSE register_pinned[i - 5]
  <2>1. /\ c2 \in Seq(AnyStep) /\ Len(c2) = Len(host_create) + Len(register_pinned)
        /\ \A i \in 1..(Len(host_create) + Len(register_pinned)) :
             c2[i] = IF i <= Len(host_create) THEN host_create[i]
                     ELSE register_pinned[i - Len(host_create)]
    BY <1>1, PiecesAre, ConcatProperties
  <2> QED
    BY <2>1, PiecesAre
<1>5. /\ c3 \in Seq(AnyStep) /\ Len(c3) = 12
      /\ \A i \in 1..12 : c3[i] = IF i <= 6 THEN c2[i] ELSE device_create[i - 6]
  <2>1. /\ c3 \in Seq(AnyStep) /\ Len(c3) = Len(c2) + Len(device_create)
        /\ \A i \in 1..(Len(c2) + Len(device_create)) :
             c3[i] = IF i <= Len(c2) THEN c2[i] ELSE device_create[i - Len(c2)]
    BY <1>2, <1>4, PiecesAre, ConcatProperties
  <2> QED
    BY <1>4, <2>1, PiecesAre
<1>6. /\ Len(Construction) = 16
      /\ \A i \in 1..16 :
           Construction[i] = IF i <= 12 THEN c3[i] ELSE stream_and_events[i - 12]
  <2>1. /\ Len(Construction) = Len(c3) + Len(stream_and_events)
        /\ \A i \in 1..(Len(c3) + Len(stream_and_events)) :
             Construction[i] = IF i <= Len(c3) THEN c3[i] ELSE stream_and_events[i - Len(c3)]
    BY <1>3, <1>5, PiecesAre, ConcatProperties
  <2> QED
    BY <1>5, <2>1, PiecesAre
<1> QED
  BY <1>4, <1>5, <1>6

LEMMA StepsAre ==
  /\ Len(Construction) = 16
  /\ \A i \in 1..16 : StepIs(i, Construction[i])
<1> USE DEF Parts, Rings, HostRing, DeviceRing, Handles, Members
<1>1. StepIs(1, host_create[1])
  BY DEF host_create, Step, StepIs, GotAt, SetAt
<1>2. StepIs(2, host_create[2])
  BY DEF host_create, Step, StepIs, GotAt, SetAt
<1>3. StepIs(3, host_create[3])
  BY DEF host_create, Step, StepIs, GotAt, SetAt
<1>4. StepIs(4, host_create[4])
  BY DEF host_create, Step, StepIs, GotAt, SetAt
<1>5. StepIs(5, host_create[5])
  BY DEF host_create, Step, StepIs, GotAt, SetAt
<1>6. StepIs(6, register_pinned[1])
  BY DEF register_pinned, Step, StepIs, GotAt, SetAt
<1>7. StepIs(7, device_create[1])
  BY DEF device_create, Step, StepIs, GotAt, SetAt
<1>8. StepIs(8, device_create[2])
  BY DEF device_create, Step, StepIs, GotAt, SetAt
<1>9. StepIs(9, device_create[3])
  BY DEF device_create, Step, StepIs, GotAt, SetAt
<1>10. StepIs(10, device_create[4])
  BY DEF device_create, Step, StepIs, GotAt, SetAt
<1>11. StepIs(11, device_create[5])
  BY DEF device_create, Step, StepIs, GotAt, SetAt
<1>12. StepIs(12, device_create[6])
  BY DEF device_create, Step, StepIs, GotAt, SetAt
<1>13. StepIs(13, stream_and_events[1])
  BY DEF stream_and_events, Step, StepIs, GotAt, SetAt
<1>14. StepIs(14, stream_and_events[2])
  BY DEF stream_and_events, Step, StepIs, GotAt, SetAt
<1>15. StepIs(15, stream_and_events[3])
  BY DEF stream_and_events, Step, StepIs, GotAt, SetAt
<1>16. StepIs(16, stream_and_events[4])
  BY DEF stream_and_events, Step, StepIs, GotAt, SetAt
<1>17. \A i \in 1..5 : StepIs(i, host_create[i])
  BY <1>1, <1>2, <1>3, <1>4, <1>5
<1>18. \A i \in 7..12 : StepIs(i, device_create[i - 6])
  BY <1>7, <1>8, <1>9, <1>10, <1>11, <1>12
<1>19. \A i \in 13..16 : StepIs(i, stream_and_events[i - 12])
  BY <1>13, <1>14, <1>15, <1>16
<1> QED
  BY <1>6, <1>17, <1>18, <1>19, ConstructionIs

-----------------------------------------------------------------------------
HostMembers == {"d_bytes", "d_base", "d_registered"}
DeviceMembers == {"d_aligned_bytes", "d_ptr", "d_handle"}

\* A buffer that is being built, or is built, holds what the steps so far have
\* acquired; the descriptor is closed when both halves are mapped.
Built(b) ==
  /\ resets[b] = {}
  /\ \A x \in Rings : x \in held[b] <=> GotAt[x] < at[b] /\ (x = "fd" => at[b] <= 5)
  /\ \A f \in Members : f \in fields[b] <=> SetAt[f] < at[b]

\* A ring that is not reset yet has its members set for all that it holds.
Recoverable(b) ==
  /\ IF "host" \in resets[b]
       THEN held[b] \cap HostRing = {} /\ fields[b] \cap HostMembers = {}
       ELSE /\ "fd" \notin held[b]
            /\ "pinned" \in held[b] => {"d_registered", "d_base"} \subseteq fields[b]
            /\ held[b] \cap {"host_va", "host_half1", "host_half2"} # {}
                 => {"d_base", "d_bytes"} \subseteq fields[b]
  /\ IF "device" \in resets[b]
       THEN held[b] \cap DeviceRing = {} /\ fields[b] \cap DeviceMembers = {}
       ELSE /\ held[b] \cap {"dev_half1", "dev_half2", "dev_phys"} # {}
                 => {"d_ptr", "d_handle"} \subseteq fields[b]
            /\ "dev_va" \in held[b] => {"d_ptr", "d_aligned_bytes"} \subseteq fields[b]

Mapped(b) ==
  /\ "pinned" \in held[b] => {"host_va", "host_half1"} \subseteq held[b]
  /\ held[b] \cap {"dev_half1", "dev_half2"} # {}
       => {"dev_va", "dev_phys"} \subseteq held[b]

RingsIn(b) ==
  /\ stage[b] = "none" => held[b] \cap Rings = {} /\ fields[b] = {} /\ resets[b] = {}
  /\ stage[b] \in {"building", "live"} => Built(b)
  /\ stage[b] = "building" => at[b] \in 1..16
  /\ stage[b] = "live" => at[b] = 17
  /\ stage[b] \in {"unwinding", "closing"} => Recoverable(b)
  /\ Mapped(b)

RingsHeld == \A b \in Buffers : RingsIn(b)

Others(b) ==
  \A c \in Buffers \ {b} :
    /\ stage'[c] = stage[c] /\ at'[c] = at[c] /\ held'[c] = held[c]
    /\ fields'[c] = fields[c] /\ resets'[c] = resets[c]

LEMMA GotAtType ==
  /\ \A x \in Parts : GotAt[x] \in 1..16
  /\ \A f \in Members : SetAt[f] \in 1..16
  /\ \A x \in HostRing : GotAt[x] <= 6
  /\ \A x \in HostRing : x # "pinned" => GotAt[x] <= 5
  /\ GotAt["fd"] = 1 /\ GotAt["host_va"] = 3 /\ GotAt["host_half1"] = 4
  /\ GotAt["host_half2"] = 5 /\ GotAt["pinned"] = 6 /\ GotAt["dev_va"] = 8
  /\ GotAt["dev_phys"] = 9 /\ GotAt["dev_half1"] = 10 /\ GotAt["dev_half2"] = 11
  /\ SetAt["d_bytes"] = 1 /\ SetAt["d_base"] = 5 /\ SetAt["d_registered"] = 6
  /\ SetAt["d_aligned_bytes"] = 8 /\ SetAt["d_ptr"] = 8 /\ SetAt["d_handle"] = 9
  BY DEF GotAt, SetAt, Parts, Members, Rings, HostRing, DeviceRing, Handles

LEMMA BeginStep ==
  ASSUME TypeOK, RingsHeld, NEW b \in Buffers, Begin(b)
  PROVE  TypeOK' /\ RingsIn(b)' /\ Others(b)
<1>1. /\ stage[b] = "none" /\ stage'[b] = "building" /\ at'[b] = 1 /\ held' = held
      /\ fields' = fields /\ resets' = resets /\ Others(b)
  BY DEF Begin, TypeOK, Others
<1>2. held[b] \cap Rings = {} /\ fields[b] = {} /\ resets[b] = {}
  BY <1>1 DEF RingsHeld, RingsIn
<1>3. Built(b)'
  BY <1>1, <1>2, GotAtType DEF Built, Parts
<1>4. Mapped(b)'
  BY <1>1 DEF RingsHeld, RingsIn, Mapped
<1>5. TypeOK'
  BY StepsAre DEF Begin, TypeOK
<1> QED
  BY <1>1, <1>3, <1>4, <1>5 DEF RingsIn

LEMMA SucceedStep ==
  ASSUME TypeOK, RingsHeld, NEW b \in Buffers, Succeed(b)
  PROVE  TypeOK' /\ RingsIn(b)' /\ Others(b)
<1>0. /\ stage[b] = "building" /\ at[b] \in 1..16 /\ Built(b) /\ Mapped(b)
  BY DEF Succeed, RingsHeld, RingsIn
<1>i. PICK i \in 1..16 : i = at[b]
  BY <1>0
<1>s. PICK s : s = Construction[at[b]]
  OBVIOUS
<1>1. i = at[b] /\ s = Construction[at[b]] /\ StepIs(i, s)
  BY <1>i, <1>s, StepsAre
<1>2. /\ held' = [held EXCEPT ![b] = (@ \cup s.gets) \ s.closes]
      /\ fields' = [fields EXCEPT ![b] = @ \cup s.before \cup s.after]
      /\ at' = [at EXCEPT ![b] = @ + 1]
      /\ stage' = IF i = 16 THEN [stage EXCEPT ![b] = "live"] ELSE stage
      /\ resets' = resets
  BY <1>1, StepsAre DEF Succeed
<1>3. /\ held'[b] = (held[b] \cup s.gets) \ s.closes
      /\ fields'[b] = fields[b] \cup s.before \cup s.after
      /\ at'[b] = i + 1
      /\ stage'[b] = (IF i = 16 THEN "live" ELSE "building")
      /\ resets'[b] = {}
      /\ Others(b)
  BY <1>0, <1>1, <1>2 DEF TypeOK, Others, Built
<1>4. ASSUME NEW x \in Rings
      PROVE  x \in held'[b] <=> GotAt[x] < at'[b] /\ (x = "fd" => at'[b] <= 5)
  <2>1. x \in held[b] <=> GotAt[x] < i /\ (x = "fd" => i <= 5)
    BY <1>0, <1>1 DEF Built
  <2>2. /\ x \in s.gets <=> GotAt[x] = i
        /\ x \in s.closes <=> i = 5 /\ x = "fd"
        /\ GotAt[x] \in Nat /\ GotAt["fd"] = 1
    BY <1>1, GotAtType DEF StepIs, Parts
  <2>3. i + 1 <= 5 <=> i <= 5 /\ i # 5
    OBVIOUS
  <2>4. GotAt[x] < i + 1 <=> GotAt[x] < i \/ GotAt[x] = i
    BY <2>2
  <2> QED
    BY <1>3, <2>1, <2>2, <2>3, <2>4
<1>5. ASSUME NEW f \in Members PROVE f \in fields'[b] <=> SetAt[f] < at'[b]
  <2>1. f \in fields[b] <=> SetAt[f] < i
    BY <1>0, <1>1 DEF Built
  <2>2. (f \in s.before \cup s.after <=> SetAt[f] = i) /\ SetAt[f] \in Nat
    BY <1>1, GotAtType DEF StepIs
  <2> QED
    BY <1>3, <2>1, <2>2
<1>6. Built(b)'
  BY <1>3, <1>4, <1>5 DEF Built
<1>7. Mapped(b)'
  BY <1>6, <1>3, GotAtType DEF Built, Mapped, Rings, HostRing, DeviceRing
<1>8. TypeOK'
  <2>1. s.gets \subseteq Rings \cup Handles /\ s.before \cup s.after \subseteq Members
    BY <1>1 DEF StepIs, Parts
  <2>2. held' \in [Buffers -> SUBSET (Rings \cup Handles)]
    BY <1>2, <2>1 DEF TypeOK
  <2>3. fields' \in [Buffers -> SUBSET Members]
    BY <1>2, <2>1 DEF TypeOK, Members
  <2>4. at' \in [Buffers -> 1..17]
    BY <1>1, <1>2, StepsAre DEF TypeOK
  <2> QED
    BY <1>2, <2>2, <2>3, <2>4, StepsAre DEF TypeOK, Members
<1> QED
  BY <1>3, <1>6, <1>7, <1>8 DEF RingsIn

LEMMA FailStep ==
  ASSUME TypeOK, RingsHeld, NEW b \in Buffers, Fail(b)
  PROVE  TypeOK' /\ RingsIn(b)' /\ Others(b)
<1>0. /\ stage[b] = "building" /\ at[b] \in 1..16 /\ Built(b) /\ Mapped(b)
  BY DEF Fail, RingsHeld, RingsIn
<1>i. PICK i \in 1..16 : i = at[b]
  BY <1>0
<1>s. PICK s : s = Construction[at[b]]
  OBVIOUS
<1>1. i = at[b] /\ s = Construction[at[b]] /\ StepIs(i, s)
  BY <1>i, <1>s, StepsAre
<1>2. /\ held' = [held EXCEPT ![b] = @ \ s.undo]
      /\ fields' = [fields EXCEPT ![b] = @ \cup s.before]
      /\ stage' = [stage EXCEPT ![b] = "unwinding"]
      /\ at' = at /\ resets' = resets
  BY <1>1 DEF Fail
<1>3. /\ held'[b] = held[b] \ s.undo
      /\ fields'[b] = fields[b] \cup s.before
      /\ stage'[b] = "unwinding" /\ resets'[b] = {} /\ Others(b)
  BY <1>0, <1>2 DEF TypeOK, Others, Built
<1>4. \A x \in Rings : x \in held'[b] <=>
        GotAt[x] < i /\ (x = "fd" => i <= 5) /\ ~(x \in HostRing /\ i \in 2..5)
  <2> SUFFICES ASSUME NEW x \in Rings
               PROVE  x \in held'[b] <=>
                        GotAt[x] < i /\ (x = "fd" => i <= 5) /\ ~(x \in HostRing /\ i \in 2..5)
    OBVIOUS
  <2>1. x \in held[b] <=> GotAt[x] < i /\ (x = "fd" => i <= 5)
    BY <1>0, <1>1 DEF Built
  <2>2. x \in s.undo <=> i \in 2..5 /\ x \in HostRing /\ GotAt[x] < i
    BY <1>1 DEF StepIs
  <2> QED
    BY <1>3, <2>1, <2>2
<1>5. \A f \in Members : SetAt[f] < i => f \in fields'[b]
  BY <1>0, <1>1, <1>3 DEF Built
<1>6. Recoverable(b)'
  <2>1. "fd" \notin held'[b]
    <3>1. GotAt["fd"] = 1 /\ "fd" \in Rings /\ "fd" \in HostRing
      BY GotAtType DEF Rings, HostRing
    <3> QED
      BY <1>4, <3>1
  <2>2. "pinned" \in held'[b] => {"d_registered", "d_base"} \subseteq fields'[b]
    BY <1>4, <1>5, GotAtType DEF Rings, HostRing, Members
  <2>3. held'[b] \cap {"host_va", "host_half1", "host_half2"} # {}
          => {"d_base", "d_bytes"} \subseteq fields'[b]
    BY <1>4, <1>5, GotAtType DEF Rings, HostRing, Members
  <2>4. held'[b] \cap {"dev_half1", "dev_half2", "dev_phys"} # {}
          => {"d_ptr", "d_handle"} \subseteq fields'[b]
    BY <1>4, <1>5, GotAtType DEF Rings, DeviceRing, Members
  <2>5. "dev_va" \in held'[b] => {"d_ptr", "d_aligned_bytes"} \subseteq fields'[b]
    BY <1>4, <1>5, GotAtType DEF Rings, DeviceRing, Members
  <2> QED
    BY <1>3, <2>1, <2>2, <2>3, <2>4, <2>5 DEF Recoverable
<1>7. Mapped(b)'
  BY <1>4, GotAtType DEF Mapped, Rings, HostRing, DeviceRing
<1>8. TypeOK'
  <2>1. s.before \subseteq Members
    BY <1>1 DEF StepIs
  <2>2. fields' \in [Buffers -> SUBSET Members]
    BY <1>2, <2>1 DEF TypeOK, Members
  <2> QED
    BY <1>2, <2>2 DEF TypeOK, Members
<1> QED
  BY <1>3, <1>6, <1>7, <1>8 DEF RingsIn

LEMMA CloseStep ==
  ASSUME TypeOK, RingsHeld, NEW b \in Buffers, Close(b)
  PROVE  TypeOK' /\ RingsIn(b)' /\ Others(b)
<1>0. /\ stage[b] = "live" /\ at[b] = 17 /\ Built(b) /\ Mapped(b)
  BY DEF Close, RingsHeld, RingsIn
<1>1. /\ held'[b] = held[b] \ Handles /\ fields'[b] = fields[b]
      /\ stage'[b] = "closing" /\ resets'[b] = {} /\ Others(b)
  BY <1>0 DEF Close, TypeOK, Others, Built
<1>2. /\ \A f \in Members : f \in fields'[b]
      /\ "fd" \notin held'[b]
  BY <1>0, <1>1, GotAtType DEF Built, Rings, HostRing
<1>3. Recoverable(b)'
  BY <1>1, <1>2 DEF Recoverable, Members
<1>4. Mapped(b)'
  BY <1>0, <1>1 DEF Mapped, Handles
<1>5. TypeOK'
  BY DEF Close, TypeOK
<1> QED
  BY <1>1, <1>3, <1>4, <1>5 DEF RingsIn

LEMMA ResetHostStep ==
  ASSUME TypeOK, RingsHeld, NEW b \in Buffers, reset_host(b)
  PROVE  TypeOK' /\ RingsIn(b)' /\ Others(b)
<1>0. /\ stage[b] \in {"unwinding", "closing"} /\ Recoverable(b) /\ Mapped(b)
      /\ "host" \notin resets[b]
  BY DEF reset_host, Resetting, RingsHeld, RingsIn
<1>1. PICK G : G = (IF {"d_registered", "d_base"} \subseteq fields[b] THEN {"pinned"} ELSE {})
                   \cup
                   (IF {"d_base", "d_bytes"} \subseteq fields[b]
                      THEN {"host_va", "host_half1", "host_half2"} ELSE {})
  OBVIOUS
<1>2. /\ held'[b] = held[b] \ G /\ fields'[b] = fields[b] \ HostMembers
      /\ stage'[b] = stage[b] /\ resets'[b] = resets[b] \cup {"host"} /\ Others(b)
  BY <1>1 DEF reset_host, Resetting, TypeOK, Others, HostMembers
<1>3. G \subseteq HostRing /\ held'[b] \cap HostRing = {}
  BY <1>0, <1>1, <1>2 DEF Recoverable, HostRing
<1>4. Recoverable(b)'
  <2>1. \A x \in DeviceRing : x \in held'[b] <=> x \in held[b]
    BY <1>2, <1>3 DEF DeviceRing, HostRing
  <2>2. \A f \in DeviceMembers : f \in fields'[b] <=> f \in fields[b]
    BY <1>2 DEF DeviceMembers, HostMembers
  <2>3. "device" \in resets'[b] <=> "device" \in resets[b]
    BY <1>2
  <2>4. "host" \in resets'[b] /\ fields'[b] \cap HostMembers = {}
    BY <1>2
  <2> QED
    BY <1>0, <1>3, <2>1, <2>2, <2>3, <2>4 DEF Recoverable, DeviceRing, DeviceMembers
<1>5. Mapped(b)'
  BY <1>0, <1>2, <1>3 DEF Mapped, HostRing
<1>6. TypeOK'
  BY DEF reset_host, Resetting, TypeOK
<1> QED
  BY <1>0, <1>2, <1>4, <1>5, <1>6 DEF RingsIn

LEMMA ResetDeviceStep ==
  ASSUME TypeOK, RingsHeld, NEW b \in Buffers, reset_device(b)
  PROVE  TypeOK' /\ RingsIn(b)' /\ Others(b)
<1>0. /\ stage[b] \in {"unwinding", "closing"} /\ Recoverable(b) /\ Mapped(b)
      /\ "device" \notin resets[b]
  BY DEF reset_device, Resetting, RingsHeld, RingsIn
<1>1. PICK G : G = (IF {"d_ptr", "d_handle"} \subseteq fields[b]
                      THEN {"dev_half1", "dev_half2", "dev_phys"} ELSE {})
                   \cup
                   (IF {"d_ptr", "d_aligned_bytes"} \subseteq fields[b] THEN {"dev_va"} ELSE {})
  OBVIOUS
<1>2. /\ held'[b] = held[b] \ G /\ fields'[b] = fields[b] \ DeviceMembers
      /\ stage'[b] = stage[b] /\ resets'[b] = resets[b] \cup {"device"} /\ Others(b)
  BY <1>1 DEF reset_device, Resetting, TypeOK, Others, DeviceMembers
<1>3. G \subseteq DeviceRing /\ held'[b] \cap DeviceRing = {}
  BY <1>0, <1>1, <1>2 DEF Recoverable, DeviceRing
<1>4. Recoverable(b)'
  <2>1. \A x \in HostRing : x \in held'[b] <=> x \in held[b]
    BY <1>2, <1>3 DEF DeviceRing, HostRing
  <2>2. \A f \in HostMembers : f \in fields'[b] <=> f \in fields[b]
    BY <1>2 DEF DeviceMembers, HostMembers
  <2>3. "host" \in resets'[b] <=> "host" \in resets[b]
    BY <1>2
  <2>4. "device" \in resets'[b] /\ fields'[b] \cap DeviceMembers = {}
    BY <1>2
  <2> QED
    BY <1>0, <1>3, <2>1, <2>2, <2>3, <2>4 DEF Recoverable, HostRing, HostMembers
<1>5. Mapped(b)'
  BY <1>0, <1>2, <1>3 DEF Mapped, DeviceRing
<1>6. TypeOK'
  BY DEF reset_device, Resetting, TypeOK
<1> QED
  BY <1>0, <1>2, <1>4, <1>5, <1>6 DEF RingsIn

LEMMA GoneStep ==
  ASSUME TypeOK, RingsHeld, NEW b \in Buffers, Gone(b)
  PROVE  TypeOK' /\ RingsIn(b)' /\ Others(b)
<1>1. /\ resets[b] = {"host", "device"} /\ stage'[b] = "none" /\ resets'[b] = {}
      /\ held'[b] = held[b] /\ fields'[b] = fields[b] /\ Others(b)
  BY DEF Gone, TypeOK, Others
<1>2. stage[b] \in {"unwinding", "closing"}
  BY <1>1 DEF TypeOK, RingsHeld, RingsIn, Built
<1>3. Recoverable(b) /\ Mapped(b)
  BY <1>2 DEF RingsHeld, RingsIn
<1>4. held[b] \cap Rings = {}
  BY <1>1, <1>3 DEF Recoverable, Rings
<1>5. fields[b] = {}
  <2>1. fields[b] \subseteq HostMembers \cup DeviceMembers
    BY DEF TypeOK, HostMembers, DeviceMembers
  <2> QED
    BY <1>1, <1>3, <2>1 DEF Recoverable
<1>6. TypeOK'
  BY DEF Gone, TypeOK
<1> QED
  BY <1>1, <1>3, <1>4, <1>5, <1>6 DEF RingsIn, Mapped

LEMMA OthersIn ==
  ASSUME RingsHeld, NEW b \in Buffers, Others(b), RingsIn(b)'
  PROVE  RingsHeld'
<1> SUFFICES ASSUME NEW c \in Buffers \ {b} PROVE RingsIn(c)'
  BY DEF RingsHeld
<1>1. /\ stage'[c] = stage[c] /\ at'[c] = at[c] /\ held'[c] = held[c]
      /\ fields'[c] = fields[c] /\ resets'[c] = resets[c] /\ RingsIn(c)
  BY DEF Others, RingsHeld
<1>2. (Built(c) => Built(c)') /\ (Recoverable(c) => Recoverable(c)') /\ (Mapped(c) => Mapped(c)')
  BY <1>1 DEF Built, Recoverable, Mapped
<1> QED
  BY <1>1, <1>2 DEF RingsIn

LEMMA RingsInvariant == Spec => [](TypeOK /\ RingsHeld)
<1>1. Init => TypeOK /\ RingsHeld
  BY StepsAre DEF Init, TypeOK, RingsHeld, RingsIn, Mapped
<1>2. TypeOK /\ RingsHeld /\ [Next]_vars => TypeOK' /\ RingsHeld'
  <2> SUFFICES ASSUME TypeOK, RingsHeld, [Next]_vars PROVE TypeOK' /\ RingsHeld'
    OBVIOUS
  <2>1. ASSUME NEW b \in Buffers,
               \/ Begin(b) \/ Succeed(b) \/ Fail(b) \/ Close(b)
               \/ reset_host(b) \/ reset_device(b) \/ Gone(b)
        PROVE  TypeOK' /\ RingsHeld'
    <3>1. TypeOK' /\ RingsIn(b)' /\ Others(b)
      BY <2>1, BeginStep, SucceedStep, FailStep, CloseStep, ResetHostStep, ResetDeviceStep,
         GoneStep
    <3> QED
      BY <3>1, OthersIn
  <2>2. CASE UNCHANGED vars
    BY <2>2 DEF vars, TypeOK, RingsHeld, RingsIn, Built, Recoverable, Mapped
  <2> QED
    BY <2>1, <2>2 DEF Next
<1> QED
  BY <1>1, <1>2, PTL DEF Spec

\* Types: the construction never runs past its last step.
THEOREM AllocTyping == Spec => []TypeOK
  BY RingsInvariant, PTL

\* Wherever a construction fails, the code at the call and the reset() of the
\* two rings between them give back every descriptor, mapping and allocation
\* of the rings, for any number of buffers and of attempts.
THEOREM RingsAreGivenBack == Spec => []NoRingLeftBehind
<1>1. RingsHeld => NoRingLeftBehind
  BY DEF RingsHeld, RingsIn, NoRingLeftBehind
<1> QED
  BY <1>1, RingsInvariant, PTL

\* At every moment of construction, unwinding and destruction the pinned pages
\* are mapped, and so are the memory and the addresses behind the device ring.
THEOREM NothingIsLeftDangling == Spec => []NothingDangles
<1>1. RingsHeld => NothingDangles
  BY DEF RingsHeld, RingsIn, Mapped, NothingDangles
<1> QED
  BY <1>1, RingsInvariant, PTL
=============================================================================
