--------------------------- MODULE NumericProofs ---------------------------
(***************************************************************************)
(* Theorems about the two components whose correctness is a matter of      *)
(* arithmetic: the timer of ipc_wait_event (EventTimer), which divides     *)
(* what the clock gives, and the framing of messages (Framing), which      *)
(* divides a length into the bytes of a header and counts bytes modulo the *)
(* size of a word.  They hold for any units of the clock and any period,   *)
(* and for any sizes, bytes and number of messages.                        *)
(***************************************************************************)
EXTENDS EventTimer, Framing, SequenceTheorems, TLAPS

-----------------------------------------------------------------------------
(* The arithmetic of time_elapsed_ms.                                      *)

LEMMA Division ==
  ASSUME NEW a \in Nat, NEW b \in Nat \ {0}
  PROVE  /\ a \div b \in Nat /\ a % b \in Nat /\ a % b < b
         /\ (a \div b) * b = a - (a % b)
<1>1. b \in Nat /\ b > 0
  OBVIOUS
<1>2. a \div b \in Int /\ a % b \in 0 .. b - 1
  BY <1>1
<1>3. a = (a \div b) * b + (a % b)
  BY <1>1, SMTT(30)
<1>4. a \div b >= 0
  BY <1>1
<1> QED
  BY <1>2, <1>3, <1>4

LEMMA QuotientNear ==
  ASSUME NEW a \in Int, NEW b \in Nat \ {0}
  PROVE  /\ Quotient(a, b) \in Int
         /\ Quotient(a, b) * b - a < b /\ a - Quotient(a, b) * b < b
<1>1. CASE a >= 0
  BY <1>1, Division DEF Quotient
<1>2. CASE a < 0
  <2>1. PICK c \in Nat : c = -a
    BY <1>2
  <2>2. PICK q \in Nat : q = c \div b
    BY Division
  <2>3. q * b = c - (c % b) /\ c % b \in Nat /\ c % b < b
    BY <2>2, Division
  <2>4. Quotient(a, b) = -q
    BY <1>2, <2>1, <2>2 DEF Quotient
  <2>5. (-q) * b = -(q * b)
    OBVIOUS
  <2> QED
    BY <2>1, <2>3, <2>4, <2>5
<1> QED
  BY <1>1, <1>2

(* The milliseconds counted are less than one away from the time spent.    *)
LEMMA ElapsedNear ==
  ASSUME NEW t \in 0 .. Second - 1, NEW d \in Nat
  PROVE  /\ Elapsed(t, d) \in Nat
         /\ Elapsed(t, d) * Tick - d < Tick /\ d - Elapsed(t, d) * Tick < Tick
<1>1. Second \in Nat \ {0}
  BY UnitAssumption DEF Second
<1>2. t \in Nat /\ t \div Second = 0 /\ t % Second = t
  BY <1>1
<1>3. PICK q \in Nat : q = (t + d) \div Second
  BY <1>1, <1>2, Division
<1>4. PICK r \in Nat : r = (t + d) % Second
  BY <1>1, <1>2, Division
<1>5. q * Second = t + d - r
  BY <1>1, <1>2, <1>3, <1>4, Division
<1>6. PICK p \in Int : p = Quotient(r - t, Tick)
  BY <1>2, UnitAssumption, QuotientNear
<1>7. p * Tick - (r - t) < Tick /\ (r - t) - p * Tick < Tick
  BY <1>2, <1>6, UnitAssumption, QuotientNear
<1>8. Elapsed(t, d) = q * Ms + p
  BY <1>2, <1>3, <1>4, <1>6 DEF Elapsed
<1>9. (q * Ms + p) * Tick = q * Second + p * Tick
  BY UnitAssumption DEF Second
<1>10. (q * Ms + p) * Tick - d < Tick /\ d - (q * Ms + p) * Tick < Tick
  BY <1>2, <1>5, <1>7, <1>9, UnitAssumption
<1>11. q * Ms + p >= 0
  <2>1. PICK e \in Int : e = q * Ms + p
    BY UnitAssumption
  <2>2. (e + 1) * Tick > 0
    BY <1>10, <2>1, UnitAssumption
  <2>3. e + 1 > 0
    BY <2>2, UnitAssumption
  <2> QED
    BY <2>1, <2>3
<1>12. q * Ms + p \in Int
  BY UnitAssumption
<1> QED
  BY <1>8, <1>10, <1>11, <1>12

-----------------------------------------------------------------------------

(* The longest call, in clock units.                                       *)
Longest == Period * Tick + Late

(* The inductive invariant: as long as the calls are counted the time      *)
(* spent is exact, not only bounded, and what the timer has lost is within *)
(* a millisecond per call of it.                                           *)
TimerInv ==
  /\ timer \in 0 .. Period /\ phase \in 0 .. Second - 1
  /\ since \in Nat /\ calls \in Nat
  /\ calls <= MaxCalls =>
       /\ since <= calls * Longest
       /\ timer > 0 => /\ (Period - timer) * Tick - since <= calls * Tick
                       /\ since - (Period - timer) * Tick <= calls * Tick
       /\ event = "TIMER" => since >= (Period - calls) * Tick

(* One call, of d units.                                                   *)
LEMMA SpendKeeps ==
  ASSUME TimerInv, NEW d \in 0 .. timer_ * Tick + Late, Spend(d)
  PROVE  /\ timer' \in 0 .. Period /\ phase' \in 0 .. Second - 1
         /\ since' \in Nat /\ calls' \in Nat
         /\ calls' <= MaxCalls =>
              /\ calls' = calls + 1 /\ calls <= MaxCalls
              /\ since' = since + d /\ since' <= calls' * Longest
              /\ timer' > 0 => /\ (Period - timer') * Tick - since' <= calls' * Tick
                               /\ since' - (Period - timer') * Tick <= calls' * Tick
<1>1. PICK t \in 0 .. Period : t = timer
  BY DEF TimerInv
<1>2. PICK s \in Nat : s = since
  BY DEF TimerInv
<1>3. PICK c \in Nat : c = calls
  BY DEF TimerInv
<1>4. PICK p \in 0 .. Second - 1 : p = phase
  BY DEF TimerInv
<1>5. Longest \in Nat
  BY UnitAssumption, PeriodAssumption DEF Longest
<1>6. d \in Nat /\ d <= Longest
  <2>1. t * Tick \in Nat /\ t * Tick <= Period * Tick
    BY UnitAssumption, PeriodAssumption
  <2>2. timer_ * Tick \in Nat /\ timer_ * Tick <= Period * Tick
    BY <1>1, <2>1, UnitAssumption, PeriodAssumption DEF timer_
  <2> QED
    BY <2>2, PeriodAssumption, UnitAssumption DEF Longest
<1>7. PICK e \in Nat : e = Elapsed(p, d)
  BY <1>6, ElapsedNear
<1>8. e * Tick - d < Tick /\ d - e * Tick < Tick
  BY <1>6, <1>7, ElapsedNear
<1>9. timer' = IF e >= t THEN 0 ELSE t - e
  BY <1>1, <1>4, <1>7 DEF Spend, Remaining
<1>10. timer' \in 0 .. Period
  BY <1>9, PeriodAssumption
<1>11. phase' \in 0 .. Second - 1
  <2>1. Second \in Nat \ {0}
    BY UnitAssumption DEF Second
  <2>2. phase' = (p + d) % Second
    BY <1>4 DEF Spend
  <2> QED
    BY <1>6, <2>1, <2>2, Division
<1>12. PICK cap \in Nat : cap = (MaxCalls + 1) * Longest
  BY <1>5, PeriodAssumption
<1>13. since' = IF s + d < cap THEN s + d ELSE cap
  BY <1>2, <1>12 DEF Spend, Least, Longest
<1>14. calls' = IF c + 1 < MaxCalls + 1 THEN c + 1 ELSE MaxCalls + 1
  BY <1>3 DEF Spend, Least
<1>15. since' \in Nat /\ calls' \in Nat
  BY <1>6, <1>13, <1>14, PeriodAssumption
<1>16. ASSUME calls' <= MaxCalls
       PROVE  /\ calls' = calls + 1 /\ calls <= MaxCalls
              /\ since' = since + d /\ since' <= calls' * Longest
              /\ timer' > 0 => /\ (Period - timer') * Tick - since' <= calls' * Tick
                               /\ since' - (Period - timer') * Tick <= calls' * Tick
  <2>1. calls' = c + 1 /\ c <= MaxCalls /\ c + 1 <= MaxCalls
    BY <1>14, <1>16, PeriodAssumption
  <2>2. s <= c * Longest
    BY <1>2, <1>3, <2>1 DEF TimerInv
  <2>3. (c + 1) * Longest = c * Longest + Longest
    BY <1>5
  <2>4. s + d <= (c + 1) * Longest
    BY <1>5, <1>6, <2>2, <2>3
  <2>5. (c + 1) * Longest <= cap
    BY <1>5, <1>12, <2>1, PeriodAssumption
  <2>6. since' = s + d
    BY <1>5, <1>6, <1>13, <2>4, <2>5
  <2>7. ASSUME timer' > 0
        PROVE  /\ (Period - timer') * Tick - since' <= calls' * Tick
               /\ since' - (Period - timer') * Tick <= calls' * Tick
    <3>1. t > 0 /\ timer' = t - e
      BY <1>9, <2>7
    <3>2. /\ (Period - t) * Tick - s <= c * Tick
          /\ s - (Period - t) * Tick <= c * Tick
      BY <1>1, <1>2, <1>3, <2>1, <3>1 DEF TimerInv
    <3>3. PICK x \in Int : x = (Period - t) * Tick
      BY UnitAssumption, PeriodAssumption
    <3>4. PICK y \in Int : y = e * Tick
      BY UnitAssumption
    <3>5. PICK z \in Int : z = c * Tick
      BY UnitAssumption
    <3>6. (Period - timer') * Tick = x + y
      BY <3>1, <3>3, <3>4, UnitAssumption, PeriodAssumption
    <3>7. calls' * Tick = z + Tick
      BY <2>1, <3>5, UnitAssumption
    <3>8. x - s <= z /\ s - x <= z /\ y - d < Tick /\ d - y < Tick
      BY <1>8, <3>2, <3>3, <3>4, <3>5
    <3>9. (x + y) - (s + d) <= z + Tick /\ (s + d) - (x + y) <= z + Tick
      BY <1>6, <3>8, UnitAssumption
    <3> QED
      BY <2>6, <3>6, <3>7, <3>9
  <2> QED
    BY <1>2, <1>3, <2>1, <2>4, <2>6, <2>7
<1> QED
  BY <1>10, <1>11, <1>15, <1>16

LEMMA TimerInvInit == TimerInit => TimerInv
<1> SUFFICES ASSUME TimerInit PROVE TimerInv
  OBVIOUS
<1>1. timer = Period /\ phase \in 0 .. Second - 1 /\ since = 0 /\ calls = 0
      /\ event = "NOT_SET"
  BY DEF TimerInit
<1>2. (Period - Period) * Tick = 0 /\ 0 * Tick = 0 /\ 0 * Longest = 0
  BY UnitAssumption, PeriodAssumption DEF Longest
<1> QED
  BY <1>1, <1>2, PeriodAssumption DEF TimerInv

LEMMA TimerInvNext == TimerInv /\ [TimerNext]_timerVars => TimerInv'
<1> SUFFICES ASSUME TimerInv, [TimerNext]_timerVars PROVE TimerInv'
  OBVIOUS
<1>1. CASE WaitReady
  <2>1. PICK d \in 0 .. timer_ * Tick + Late : Spend(d)
    BY <1>1 DEF WaitReady
  <2>2. event' = "IO"
    BY <1>1 DEF WaitReady
  <2> QED
    BY <2>1, <2>2, SpendKeeps DEF TimerInv
<1>2. CASE WaitQuiet
  <2>1. PICK d \in timer_ * Tick .. timer_ * Tick + Late : Spend(d)
    BY <1>2 DEF WaitQuiet
  <2>2. timer_ = timer /\ event' = IF timer # 0 THEN "TIMER" ELSE "NOT_SET"
    BY <1>2 DEF WaitQuiet, timer_
  <2>3. timer * Tick \in Nat /\ timer \in Nat
    BY UnitAssumption, PeriodAssumption DEF TimerInv
  <2>4. d \in 0 .. timer_ * Tick + Late /\ d >= timer * Tick
    BY <2>1, <2>2, <2>3, PeriodAssumption
  <2>5. ASSUME calls' <= MaxCalls, event' = "TIMER"
        PROVE  since' >= (Period - calls') * Tick
    <3>1. timer > 0
      BY <2>2, <2>3, <2>5
    <3>2. calls' = calls + 1 /\ calls <= MaxCalls /\ since' = since + d
      BY <2>1, <2>4, <2>5, SpendKeeps
    <3>3. since \in Nat /\ calls \in Nat /\ (Period - timer) * Tick - since <= calls * Tick
      BY <3>1, <3>2 DEF TimerInv
    <3>4. PICK x \in Int : x = timer * Tick
      BY <2>3
    <3>5. PICK y \in Int : y = calls * Tick
      BY <3>3, UnitAssumption
    <3>6. PICK z \in Int : z = Period * Tick
      BY PeriodAssumption, UnitAssumption
    <3>7. (Period - timer) * Tick = z - x
      BY <2>3, <3>4, <3>6, PeriodAssumption, UnitAssumption
    <3>8. (Period - (calls + 1)) * Tick = z - y - Tick
      BY <3>3, <3>5, <3>6, PeriodAssumption, UnitAssumption
    <3>9. since + d >= z - y - Tick
      BY <2>4, <3>3, <3>4, <3>5, <3>7, UnitAssumption
    <3> QED
      BY <3>2, <3>8, <3>9
  <2>6. PICK b \in 0 .. timer_ * Tick + Late : b = d
    BY <2>4
  <2> QED
    BY <2>1, <2>5, <2>6, SpendKeeps DEF TimerInv
<1>3. CASE Routine
  <2>1. timer' = Period /\ event' = "NOT_SET" /\ since' = 0 /\ calls' = 0
        /\ phase' = phase
    BY <1>3 DEF Routine
  <2>2. (Period - Period) * Tick = 0 /\ 0 * Tick = 0 /\ 0 * Longest = 0
    BY UnitAssumption, PeriodAssumption DEF Longest
  <2>3. phase \in 0 .. Second - 1
    BY DEF TimerInv
  <2> QED
    BY <2>1, <2>2, <2>3, PeriodAssumption DEF TimerInv
<1>4. CASE UNCHANGED timerVars
  BY <1>4 DEF TimerInv, timerVars
<1> QED
  BY <1>1, <1>2, <1>3, <1>4 DEF TimerNext

(* The timer never becomes negative, and it drifts by less than a          *)
(* millisecond per call, however the calls fall with respect to the change *)
(* of second: for any period, any delay of poll(2) and any units.          *)
THEOREM NoDriftAlways == TimerSpec => []NoDrift
<1>1. TimerInv => NoDrift
  BY DEF TimerInv, NoDrift
<1> QED
  BY TimerInvInit, TimerInvNext, <1>1, PTL DEF TimerSpec

-----------------------------------------------------------------------------
(* Framing: the bytes of a message.                                        *)

Message == [type : Byte, user_type : Byte, payload : Seq(Byte)]
Size(m) == Header + Len(m.payload)

LEMMA ByteFacts ==
  ASSUME NEW n \in Nat, n < Base * Base
  PROVE  /\ n \div Base \in Byte /\ n % Base \in Byte
         /\ ntohl(n \div Base, n % Base) = n
<1>1. Base \in Nat \ {0}
  BY SizeAssumption
<1>2. PICK q \in Nat : q = n \div Base
  BY <1>1, Division
<1>3. PICK r \in Nat : r = n % Base
  BY <1>1, Division
<1>4. q * Base = n - r /\ r < Base
  BY <1>1, <1>2, <1>3, Division
<1>5. q < Base
  <2> SUFFICES ASSUME q >= Base PROVE FALSE
    BY <1>1
  <2>1. q * Base >= Base * Base
    BY <1>1
  <2> QED
    BY <1>1, <1>4, <2>1
<1> QED
  BY <1>1, <1>2, <1>3, <1>4, <1>5 DEF Byte, ntohl

(* The four bytes of the header, then the payload.                         *)
LEMMA FormatFacts ==
  ASSUME NEW m \in Message, Len(m.payload) <= MaxPayload
  PROVE  /\ ipc_message_format_write(m) \in Seq(Byte)
         /\ Len(ipc_message_format_write(m)) = Size(m)
         /\ Size(m) \in Nat /\ Size(m) >= 4
         /\ ipc_message_format_write(m)[1] = m.type
         /\ ipc_message_format_write(m)[4] = m.user_type
         /\ ntohl(ipc_message_format_write(m)[2], ipc_message_format_write(m)[3])
              = Len(m.payload)
         /\ \A i \in 1 .. Len(m.payload) :
              ipc_message_format_write(m)[4 + i] = m.payload[i]
<1>1. PICK s \in Seq(Byte) : s = m.payload
  BY DEF Message
<1>2. PICK n \in Nat : n = Len(s)
  BY <1>1
<1>3. n <= MaxPayload /\ n < Base * Base
  BY <1>1, <1>2, SizeAssumption
<1>4. n \div Base \in Byte /\ n % Base \in Byte /\ ntohl(n \div Base, n % Base) = n
  BY <1>3, ByteFacts
<1>5. PICK hi \in Byte : hi = n \div Base
  BY <1>4
<1>6. PICK lo \in Byte : lo = n % Base
  BY <1>4
<1>7. PICK t \in Byte : t = m.type
  BY DEF Message
<1>8. PICK u \in Byte : u = m.user_type
  BY DEF Message
<1>9. ipc_message_format_write(m) = <<t>> \o <<hi, lo>> \o <<u>> \o s
  BY <1>1, <1>2, <1>5, <1>6, <1>7, <1>8 DEF ipc_message_format_write, htonl
<1>10. PICK a \in Seq(Byte) : a = <<t>> /\ Len(a) = 1 /\ a[1] = t
  <2>1. <<t>> \in Seq(Byte) /\ Len(<<t>>) = 1 /\ <<t>>[1] = t
    OBVIOUS
  <2> QED
    BY <2>1
<1>11. PICK b2 \in Seq(Byte) : b2 = <<hi, lo>> /\ Len(b2) = 2 /\ b2[1] = hi /\ b2[2] = lo
  <2>1. /\ <<hi, lo>> \in Seq(Byte) /\ Len(<<hi, lo>>) = 2
        /\ <<hi, lo>>[1] = hi /\ <<hi, lo>>[2] = lo
    OBVIOUS
  <2> QED
    BY <2>1
<1>a. PICK d \in Seq(Byte) : d = <<u>> /\ Len(d) = 1 /\ d[1] = u
  <2>1. <<u>> \in Seq(Byte) /\ Len(<<u>>) = 1 /\ <<u>>[1] = u
    OBVIOUS
  <2> QED
    BY <2>1
<1>b. /\ a \o b2 \in Seq(Byte) /\ Len(a \o b2) = Len(a) + Len(b2)
      /\ \A i \in 1 .. Len(a) + Len(b2) :
           (a \o b2)[i] = IF i <= Len(a) THEN a[i] ELSE b2[i - Len(a)]
  BY ConcatProperties
<1>c. PICK e \in Seq(Byte) : e = a \o b2 /\ Len(e) = 3 /\ e[1] = t /\ e[2] = hi /\ e[3] = lo
  <2>1. PICK e \in Seq(Byte) : e = a \o b2
    BY <1>b
  <2>2. Len(e) = 3 /\ \A i \in 1 .. 3 : e[i] = IF i <= 1 THEN a[i] ELSE b2[i - 1]
    BY <1>10, <1>11, <1>b, <2>1
  <2>3. e[1] = a[1] /\ e[2] = b2[1] /\ e[3] = b2[2]
    BY <2>2
  <2> QED
    BY <1>10, <1>11, <2>1, <2>2, <2>3
<1>d. /\ e \o d \in Seq(Byte) /\ Len(e \o d) = Len(e) + Len(d)
      /\ \A i \in 1 .. Len(e) + Len(d) :
           (e \o d)[i] = IF i <= Len(e) THEN e[i] ELSE d[i - Len(e)]
  BY ConcatProperties
<1>e. PICK h \in Seq(Byte) : h = e \o d
  BY <1>d
<1>12. Len(h) = 4 /\ h[1] = t /\ h[2] = hi /\ h[3] = lo /\ h[4] = u
  BY <1>a, <1>c, <1>d, <1>e
<1>13. /\ h \o s \in Seq(Byte) /\ Len(h \o s) = Len(h) + Len(s)
       /\ \A k \in 1 .. Len(h) + Len(s) :
            (h \o s)[k] = IF k <= Len(h) THEN h[k] ELSE s[k - Len(h)]
  BY ConcatProperties
<1>14. PICK b \in Seq(Byte) : b = h \o s
  BY <1>13
<1>15. /\ Len(b) = 4 + n /\ b[1] = t /\ b[2] = hi /\ b[3] = lo /\ b[4] = u
       /\ \A i \in 1 .. n : b[4 + i] = s[i]
  <2>1. \A k \in 1 .. 4 + n : b[k] = IF k <= 4 THEN h[k] ELSE s[k - 4]
    BY <1>2, <1>12, <1>13, <1>14
  <2>2. Len(b) = 4 + n
    BY <1>2, <1>12, <1>13, <1>14
  <2>3. 1 \in 1 .. 4 + n /\ 2 \in 1 .. 4 + n /\ 3 \in 1 .. 4 + n /\ 4 \in 1 .. 4 + n
    OBVIOUS
  <2>4. \A i \in 1 .. n : 4 + i \in 1 .. 4 + n /\ ~(4 + i <= 4) /\ (4 + i) - 4 = i
    OBVIOUS
  <2>5. \A i \in 1 .. n : b[4 + i] = s[i]
    BY <2>1, <2>4
  <2> QED
    BY <1>12, <2>1, <2>2, <2>3, <2>5
<1>16. ipc_message_format_write(m) = b /\ Size(m) = 4 + n
  BY <1>1, <1>2, <1>9, <1>10, <1>11, <1>14, <1>a, <1>c, <1>e DEF Size, Header
<1>17. ntohl(b[2], b[3]) = n
  BY <1>4, <1>5, <1>6, <1>15
<1> QED
  BY <1>1, <1>2, <1>7, <1>8, <1>15, <1>16, <1>17

(* ipc_message_format_read of a buffer that has at its start the bytes of  *)
(* a message, alone or with others behind it.                              *)
LEMMA ReadFormatted ==
  ASSUME NEW m \in Message, Len(m.payload) <= MaxPayload, NEW n \in 1 .. MaxSize,
         Size(m) <= n, NEW buf \in [1 .. MaxSize -> Byte],
         \A i \in 1 .. Size(m) : buf[i] = ipc_message_format_write(m)[i]
  PROVE  /\ ntohl(buf[2], buf[3]) = Len(m.payload)
         /\ ~TooLong(Len(m.payload)) /\ ~Again(Len(m.payload), n)
         /\ ipc_message_format_read(buf, n) \in {m, NULL}
         /\ Size(m) = n => ipc_message_format_read(buf, n) = m
<1>1. PICK s \in Seq(Byte) : s = m.payload
  BY DEF Message
<1>2. PICK l \in Nat : l = Len(s)
  BY <1>1
<1>3. Size(m) = 4 + l /\ l <= MaxPayload /\ MaxSize \in Nat /\ Word \in Nat
      /\ 4 + MaxPayload <= MaxSize /\ 2 * (MaxSize + 4) < Word /\ MaxPayload \in Nat
  BY <1>1, <1>2, SizeAssumption DEF Size, Header
<1>4. /\ buf[1] = m.type /\ buf[4] = m.user_type /\ ntohl(buf[2], buf[3]) = l
      /\ \A i \in 1 .. l : buf[4 + i] = s[i]
  <2>1. 1 \in 1 .. 4 + l /\ 2 \in 1 .. 4 + l /\ 3 \in 1 .. 4 + l /\ 4 \in 1 .. 4 + l
        /\ \A i \in 1 .. l : 4 + i \in 1 .. 4 + l
    OBVIOUS
  <2>2. \A i \in 1 .. 4 + l : buf[i] = ipc_message_format_write(m)[i]
    BY <1>3
  <2>3. /\ ipc_message_format_write(m)[1] = m.type
        /\ ipc_message_format_write(m)[4] = m.user_type
        /\ ntohl(ipc_message_format_write(m)[2], ipc_message_format_write(m)[3]) = l
        /\ \A i \in 1 .. l : ipc_message_format_write(m)[4 + i] = s[i]
    BY <1>1, <1>2, FormatFacts
  <2> QED
    BY <2>1, <2>2, <2>3
<1>5. WithoutHeader(n) = n - 4 /\ n - 4 >= l
  <2>1. n - 4 \in Nat /\ n - 4 < Word /\ Word \in Nat \ {0}
    BY <1>3
  <2>2. (n - 4) % Word = n - 4
    BY <2>1
  <2> QED
    BY <1>3, <2>2 DEF WithoutHeader, Header
<1>6. ~TooLong(l) /\ ~Again(l, n)
  BY <1>3, <1>5 DEF TooLong, Again
<1>7. SubSeq(buf, Header + 1, Header + l) = s
  <2>1. PICK v : v = SubSeq(buf, 5, 4 + l)
    OBVIOUS
  <2>2. \A i \in 5 .. 4 + l : buf[i] \in Byte
    BY <1>3
  <2>3. /\ SubSeq(buf, 5, 4 + l) \in Seq(Byte)
        /\ Len(SubSeq(buf, 5, 4 + l)) = IF 5 <= 4 + l THEN (4 + l) - 5 + 1 ELSE 0
        /\ \A i \in 1 .. (4 + l) - 5 + 1 : SubSeq(buf, 5, 4 + l)[i] = buf[5 + i - 1]
    BY <2>2, SubSeqProperties
  <2>4. (4 + l) - 5 + 1 = l /\ (~(5 <= 4 + l) => l = 0) /\ \A i \in 1 .. l : 5 + i - 1 = 4 + i
    OBVIOUS
  <2>5. v \in Seq(Byte) /\ Len(v) = l /\ \A i \in 1 .. l : v[i] = buf[4 + i]
    BY <2>1, <2>3, <2>4
  <2>6. Len(v) = Len(s) /\ \A i \in 1 .. Len(v) : v[i] = s[i]
    BY <1>2, <1>4, <2>5
  <2>7. v = s
    BY <2>5, <2>6, SeqEqual
  <2> QED
    BY <2>1, <2>7 DEF Header
<1>8. m = [type |-> buf[1], user_type |-> buf[4], payload |-> s]
  BY <1>1, <1>4 DEF Message
<1>9. ipc_message_format_read(buf, n) =
        IF n > MaxSize \/ l > MaxSize \/ (l # WithoutHeader(n) /\ l # 0) THEN NULL ELSE m
  BY <1>4, <1>7, <1>8 DEF ipc_message_format_read
<1>10. Size(m) = n => ~(n > MaxSize \/ l > MaxSize \/ (l # WithoutHeader(n) /\ l # 0))
  BY <1>3, <1>5
<1> QED
  BY <1>1, <1>2, <1>4, <1>6, <1>9, <1>10

-----------------------------------------------------------------------------
(* Framing: where the messages are in the stream.                          *)

(* Messages that ipc_message_format accepts.                               *)
Formatted(w) ==
  /\ w \in Seq(Message)
  /\ \A k \in 1 .. Len(w) : Len(w[k].payload) <= MaxPayload /\ w[k] # NULL

(* Message k of w starts at byte f[k] of what was sent, top bytes in all.  *)
Starts(f, w, top) ==
  /\ f \in [1 .. Len(w) + 1 -> 0 .. top] /\ f[1] = 0 /\ f[Len(w) + 1] = top
  /\ \A k \in 1 .. Len(w) : f[k + 1] = f[k] + Size(w[k])
  /\ \A j, k \in 1 .. Len(w) + 1 : j < k => f[j] + Size(w[j]) <= f[k]

(* The stream s has the messages of w from the p-th on.                    *)
Holds(s, f, w, p) ==
  /\ s \in Seq(Byte) /\ Len(s) = f[Len(w) + 1] - f[p]
  /\ \A k \in p .. Len(w) : \A i \in 1 .. Size(w[k]) :
       s[f[k] - f[p] + i] = ipc_message_format_write(w[k])[i]

(* The messages r are those of w at g, all before the p-th.                *)
Given(r, g, w, p) ==
  /\ \A i \in 1 .. Len(r) : r[i] = w[g[i]] /\ g[i] < p
  /\ \A i, j \in 1 .. Len(r) : i < j => g[i] < g[j]

(* The messages r are all those of w before the p-th, at step pc of the    *)
(* reader and with a writer that is in state wr.                           *)
Alone(r, w, p, pc, wr) ==
  /\ Len(r) = p - 1 /\ \A i \in 1 .. Len(r) : r[i] = w[i]
  /\ pc = "error" => wr = "reset"
  /\ pc = "closed" => p = Len(w) + 1

(* The reader never keeps a part of a message.                             *)
Readers ==
  [pc : {"idle", "reading", "closed", "error"}, buf : {Buffer}, msize : {0}, msize_read : {0}]

Framed(p, f) ==
  /\ Starts(f, written, nsent)
  /\ ends = {f[k] : k \in 2 .. Len(written) + 1}
  /\ Holds(stream, f, written, p)
  /\ \E g \in [1 .. Len(received) -> 1 .. Len(written)] : Given(received, g, written, p)
  /\ ~glued => Alone(received, written, p, reader.pc, writer)

FramingInv ==
  whole =>
    /\ Formatted(written) /\ nsent \in Nat /\ reader \in Readers /\ received \in Seq(Message)
    /\ \E p \in 1 .. Len(written) + 1 :
         \E f \in [1 .. Len(written) + 1 -> 0 .. nsent] : Framed(p, f)

(* The starts f of n messages, and the end of one more.                    *)
Extends(f2, f, n, end) ==
  /\ DOMAIN f2 = 1 .. n + 2 /\ f2 = [k \in DOMAIN f2 |-> f2[k]]
  /\ \A k \in 1 .. n + 1 : f2[k] = f[k]
  /\ f2[n + 2] = end

(* A message more.                                                         *)
LEMMA StartsAppend ==
  ASSUME NEW w \in Seq(Message), Formatted(w), NEW m \in Message,
         Len(m.payload) <= MaxPayload, NEW w2, w2 = Append(w, m), NEW top \in Nat,
         NEW f, Starts(f, w, top),
         NEW end \in Nat, end = top + Size(m), NEW f2, Extends(f2, f, Len(w), end)
  PROVE  Starts(f2, w2, end)
<1>1. PICK n \in Nat : n = Len(w)
  OBVIOUS
<1>2. /\ Len(w2) = n + 1 /\ \A k \in 1 .. n : w2[k] = w[k]
      /\ w2[n + 1] = m
  BY <1>1
<1>3. PICK z \in Nat : z = Size(m) /\ z >= 4
  BY FormatFacts
<1>4. /\ \A k \in 1 .. n + 1 : f2[k] = f[k] /\ f2[k] \in 0 .. top
      /\ f2[n + 2] = top + z /\ f[n + 1] = top
  BY <1>1, <1>3 DEF Extends, Starts
<1>a. /\ \A k \in 1 .. n + 2 : k \in 1 .. n + 1 \/ k = n + 2
      /\ \A k \in 1 .. n + 1 : k \in 1 .. n \/ k = n + 1
      /\ 0 .. top \subseteq Nat
  OBVIOUS
<1>5. /\ \A k \in 1 .. n + 2 : k \in 1 .. n + 1 \/ k = n + 2
      /\ \A k \in 1 .. n + 1 : k \in 1 .. n \/ k = n + 1
      /\ \A k \in 1 .. n + 1 : f2[k] \in Nat
  BY <1>4, <1>a, Zenon
<1>6. f2 \in [1 .. Len(w2) + 1 -> 0 .. top + z]
  <2>1. \A k \in 1 .. n + 2 : f2[k] \in 0 .. top + z
    <3>1. 0 .. top \subseteq 0 .. top + z /\ top + z \in 0 .. top + z
      OBVIOUS
    <3> QED
      BY <1>4, <1>5, <3>1
  <2>2. f2 = [k \in 1 .. n + 2 |-> f2[k]]
    BY <1>1 DEF Extends
  <2>3. f2 \in [1 .. n + 2 -> 0 .. top + z]
    BY <2>1, <2>2, Zenon
  <2>4. Len(w2) + 1 = n + 2
    BY <1>2
  <2> QED
    BY <2>3, <2>4
<1>7. \A k \in 1 .. n : Size(w[k]) \in Nat /\ Size(w2[k]) = Size(w[k])
  BY <1>1, <1>2, FormatFacts DEF Formatted
<1>8. \A k \in 1 .. n + 1 : f2[k + 1] = f2[k] + Size(w2[k])
  <2>1. \A k \in 1 .. n : k \in 1 .. n + 1 /\ k + 1 \in 1 .. n + 1 /\ f[k + 1] = f[k] + Size(w[k])
    BY <1>1 DEF Starts
  <2>2. \A k \in 1 .. n : f2[k + 1] = f2[k] + Size(w2[k])
    BY <1>4, <1>7, <2>1
  <2>3. f2[(n + 1) + 1] = f2[n + 1] + Size(w2[n + 1])
    BY <1>2, <1>3, <1>4
  <2>4. \A k \in 1 .. n + 1 : k \in 1 .. n \/ k = n + 1
    OBVIOUS
  <2> QED
    BY <2>2, <2>3, <2>4
<1>9. ASSUME NEW j \in 1 .. n + 2, NEW k \in 1 .. n + 2, j < k
      PROVE  f2[j] + Size(w2[j]) <= f2[k]
  <2>1. CASE k \in 1 .. n + 1
    <3>1. j \in 1 .. n /\ j \in 1 .. n + 1
      BY <1>9, <2>1
    <3>2. f[j] + Size(w[j]) <= f[k]
      BY <1>1, <1>9, <2>1, <3>1 DEF Starts
    <3> QED
      BY <1>4, <1>7, <2>1, <3>1, <3>2
  <2>2. CASE k = n + 2 /\ j = n + 1
    BY <1>2, <1>3, <1>4, <2>2
  <2>3. CASE k = n + 2 /\ j \in 1 .. n
    <3>1. j < n + 1 /\ j \in 1 .. n + 1 /\ n + 1 \in 1 .. n + 1
      BY <2>3
    <3>2. f[j] + Size(w[j]) <= f[n + 1]
      BY <1>1, <3>1 DEF Starts
    <3>3. f2[j] + Size(w2[j]) <= top
      BY <1>4, <1>7, <2>3, <3>1, <3>2
    <3>4. f2[j] \in Nat /\ Size(w2[j]) \in Nat
      BY <1>5, <1>7, <2>3, <3>1
    <3>5. f2[k] = top + z
      BY <1>4, <2>3
    <3>6. PICK x \in Nat : x = f2[j]
      BY <3>4
    <3>7. PICK y \in Nat : y = Size(w2[j])
      BY <3>4
    <3>8. x + y <= top
      BY <3>3, <3>6, <3>7, Zenon
    <3>9. x + y <= top + z
      BY <3>8
    <3> QED
      BY <3>5, <3>6, <3>7, <3>9, Zenon
  <2>4. k = n + 2 => j \in 1 .. n + 1
    BY <1>9
  <2> QED
    BY <1>5, <2>1, <2>2, <2>3, <2>4
<1>10. Len(w2) + 1 = n + 2 /\ f2[1] = 0
  <2>1. 1 \in 1 .. n + 1 /\ f[1] = 0
    BY DEF Starts
  <2> QED
    BY <1>2, <1>4, <2>1
<1>11. f2[Len(w2) + 1] = end /\ f2 \in [1 .. Len(w2) + 1 -> 0 .. end]
  BY <1>3, <1>4, <1>6, <1>10
<1> QED
  BY <1>2, <1>8, <1>9, <1>10, <1>11 DEF Starts

(* The starts are numbers, in order.                                       *)
LEMMA StartFacts ==
  ASSUME NEW w \in Seq(Message), Formatted(w), NEW top \in Nat,
         NEW f, Starts(f, w, top)
  PROVE  /\ \A k \in 1 .. Len(w) + 1 : f[k] \in Nat /\ f[k] <= top
         /\ \A k \in 1 .. Len(w) : Size(w[k]) \in Nat /\ Size(w[k]) >= 4
         /\ \A j, k \in 1 .. Len(w) + 1 : j < k => f[j] < f[k]
<1>1. PICK n \in Nat : n = Len(w)
  OBVIOUS
<1>2. \A v \in 0 .. top : v \in Nat /\ v <= top
  OBVIOUS
<1>3. \A k \in 1 .. n + 1 : f[k] \in 0 .. top
  BY <1>1 DEF Starts
<1>4. \A k \in 1 .. n + 1 : f[k] \in Nat /\ f[k] <= top
  BY <1>2, <1>3, Zenon
<1>5. \A k \in 1 .. n : Size(w[k]) \in Nat /\ Size(w[k]) >= 4
  BY <1>1, FormatFacts DEF Formatted
<1>6. ASSUME NEW j \in 1 .. n + 1, NEW k \in 1 .. n + 1, j < k PROVE f[j] < f[k]
  <2>1. PICK x \in Nat : x = f[j]
    BY <1>4
  <2>2. PICK y \in Nat : y = f[k]
    BY <1>4
  <2>3. j \in 1 .. n
    BY <1>6
  <2>4. PICK z \in Nat : z = Size(w[j]) /\ z >= 4
    BY <1>5, <2>3
  <2>5. x + z <= y
    BY <1>1, <1>6, <2>1, <2>2, <2>4 DEF Starts
  <2>6. x < y
    BY <2>4, <2>5
  <2> QED
    BY <2>1, <2>2, <2>6, Zenon
<1> QED
  BY <1>1, <1>4, <1>5, <1>6

LEMMA Offset ==
  ASSUME NEW l \in Nat, NEW z \in Nat, NEW i \in 1 .. z
  PROVE  l + i \in 1 .. l + z /\ ~(l + i <= l) /\ l + i - l = i
OBVIOUS

LEMMA HoldsAppend ==
  ASSUME NEW w \in Seq(Message), Formatted(w), NEW m \in Message,
         Len(m.payload) <= MaxPayload, NEW w2, w2 = Append(w, m), NEW top \in Nat,
         NEW f, Starts(f, w, top),
         NEW end \in Nat, end = top + Size(m), NEW f2, Extends(f2, f, Len(w), end),
         NEW p \in 1 .. Len(w) + 1, NEW s, Holds(s, f, w, p),
         NEW s2, s2 = s \o ipc_message_format_write(m)
  PROVE  Holds(s2, f2, w2, p)
<1>1. PICK n \in Nat : n = Len(w)
  OBVIOUS
<1>2. /\ Len(w2) = n + 1 /\ \A k \in 1 .. n : w2[k] = w[k]
      /\ w2[n + 1] = m
  BY <1>1
<1>3. PICK b \in Seq(Byte) : b = ipc_message_format_write(m) /\ Len(b) = Size(m)
  BY FormatFacts
<1>4. PICK z \in Nat : z = Size(m) /\ z >= 4
  BY FormatFacts
<1>a. PICK x \in Nat : x = f[p] /\ x <= top
  BY StartFacts
<1>b. PICK l \in Nat : l = Len(s)
  BY DEF Holds
<1>5. s \in Seq(Byte) /\ l = top - x
  BY <1>a, <1>b DEF Holds, Starts
<1>6. /\ s2 \in Seq(Byte) /\ Len(s2) = l + z
      /\ \A i \in 1 .. l + z : s2[i] = IF i <= l THEN s[i] ELSE b[i - l]
  <2>1. /\ s \o b \in Seq(Byte) /\ Len(s \o b) = Len(s) + Len(b)
        /\ \A i \in 1 .. Len(s) + Len(b) :
             (s \o b)[i] = IF i <= Len(s) THEN s[i] ELSE b[i - Len(s)]
    BY <1>5, ConcatProperties
  <2>2. s \o b = s2 /\ Len(s) = l /\ Len(b) = z
    BY <1>3, <1>4, <1>b
  <2> QED
    BY <2>1, <2>2, Zenon
<1>7. f2[Len(w2) + 1] = top + z /\ (\A k \in 1 .. n + 1 : f2[k] = f[k]) /\ f2[p] = x
  <2>0. Starts(f2, w2, end)
    BY StartsAppend
  <2>1. f2[Len(w2) + 1] = end
    BY <2>0 DEF Starts
  <2>2. \A k \in 1 .. n + 1 : f2[k] = f[k]
    BY <1>1 DEF Extends
  <2> QED
    BY <1>1, <1>4, <1>a, <2>1, <2>2
<1>8. Len(s2) = f2[Len(w2) + 1] - f2[p]
  BY <1>5, <1>6, <1>7
<1>9. ASSUME NEW k \in p .. n, NEW i \in 1 .. Size(w2[k])
      PROVE  s2[f2[k] - f2[p] + i] = ipc_message_format_write(w2[k])[i]
  <2>1. k \in 1 .. n /\ k \in 1 .. n + 1 /\ p \in 1 .. n + 1 /\ n + 1 \in 1 .. n + 1 /\ k < n + 1
    BY <1>1
  <2>2. w2[k] = w[k] /\ f2[k] = f[k]
    BY <1>2, <1>7, <2>1
  <2>3. PICK y \in Nat : y = Size(w[k])
    BY <1>1, <2>1, StartFacts
  <2>a. PICK v \in Nat : v = f[k]
    BY <1>1, <2>1, StartFacts
  <2>4. i \in 1 .. y
    BY <2>2, <2>3
  <2>5. v + y <= top
    BY <1>1, <2>1, <2>3, <2>a DEF Starts
  <2>6. x <= v
    <3>1. CASE p = k
      BY <1>a, <2>a, <3>1
    <3>2. CASE p < k
      <4>1. f[p] < f[k]
        BY <1>1, <2>1, <3>2, StartFacts
      <4>2. x < v
        BY <1>a, <2>a, <4>1, Zenon
      <4> QED
        BY <4>2
    <3> QED
      BY <2>1, <3>1, <3>2
  <2>b. v - x + i \in Nat /\ v - x + i >= 1 /\ v - x + i <= l
    BY <1>5, <2>4, <2>5, <2>6
  <2>7. PICK q \in Nat : q = v - x + i /\ q >= 1 /\ q <= l
    BY <2>b
  <2>c. q \in 1 .. l + z
    BY <1>4, <2>7
  <2>8. s2[q] = s[q]
    BY <1>6, <2>7, <2>c
  <2>9. s[f[k] - f[p] + i] = ipc_message_format_write(w[k])[i]
    BY <1>1, <2>3, <2>4 DEF Holds
  <2>10. f[k] - f[p] + i = q /\ f2[k] - f2[p] + i = q
    BY <1>7, <1>a, <2>2, <2>7, <2>a
  <2> QED
    BY <2>2, <2>8, <2>9, <2>10
<1>10. ASSUME NEW i \in 1 .. z
       PROVE  s2[f2[n + 1] - f2[p] + i] = ipc_message_format_write(w2[n + 1])[i]
  <2>2. f2[n + 1] = top
    BY <1>1, <1>7 DEF Starts
  <2>3. l + i \in 1 .. l + z /\ ~(l + i <= l) /\ l + i - l = i
    BY Offset
  <2>4. PICK q \in 1 .. l + z : q = l + i /\ ~(q <= l) /\ q - l = i
    BY <2>3
  <2>5. s2[q] = b[i]
    BY <1>6, <2>4
  <2>6. f2[n + 1] - f2[p] + i = q
    BY <1>5, <1>7, <2>2, <2>4
  <2> QED
    BY <1>2, <1>3, <2>5, <2>6
<1>11. \A k \in p .. Len(w2) : k \in p .. n \/ k = n + 1
  BY <1>1, <1>2
<1>12. \A k \in p .. Len(w2) : \A i \in 1 .. Size(w2[k]) :
         s2[f2[k] - f2[p] + i] = ipc_message_format_write(w2[k])[i]
  <2> SUFFICES ASSUME NEW k \in p .. Len(w2), NEW i \in 1 .. Size(w2[k])
               PROVE  s2[f2[k] - f2[p] + i] = ipc_message_format_write(w2[k])[i]
    OBVIOUS
  <2>1. CASE k \in p .. n
    BY <1>9, <2>1
  <2>2. CASE k = n + 1
    <3>1. Size(w2[k]) = z
      BY <1>2, <1>4, <2>2
    <3> QED
      BY <1>10, <2>2, <3>1
  <2> QED
    BY <1>11, <2>1, <2>2
<1> QED
  BY <1>6, <1>8, <1>12 DEF Holds

-----------------------------------------------------------------------------
(* Framing: the invariant is inductive.                                    *)

LEMMA FramingInit == Init => FramingInv
<1> SUFFICES ASSUME Init PROVE FramingInv
  OBVIOUS
<1>1. /\ written = <<>> /\ received = <<>> /\ stream = <<>> /\ nsent = 0 /\ ends = {}
      /\ reader = [pc |-> "idle", buf |-> Buffer, msize |-> 0, msize_read |-> 0]
      /\ Len(<<>>) = 0 /\ <<>> \in Seq(Message) /\ <<>> \in Seq(Byte)
  BY DEF Init
<1>2. Formatted(written) /\ nsent \in Nat /\ received \in Seq(Message)
  BY <1>1 DEF Formatted
<1>3. reader \in Readers /\ reader.pc = "idle"
  BY <1>1 DEF Readers
<1>4. PICK f : f = [k \in 1 .. 1 |-> 0]
  OBVIOUS
<1>5. f \in [1 .. Len(written) + 1 -> 0 .. nsent] /\ f[1] = 0
  BY <1>1, <1>4
<1>6. Starts(f, written, nsent)
  BY <1>1, <1>5 DEF Starts
<1>7. ends = {f[k] : k \in 2 .. Len(written) + 1}
  BY <1>1
<1>8. Holds(stream, f, written, 1)
  BY <1>1, <1>5 DEF Holds
<1>9. \E g \in [1 .. Len(received) -> 1 .. Len(written)] : Given(received, g, written, 1)
  <2>1. PICK g : g = [i \in 1 .. 0 |-> 0]
    OBVIOUS
  <2>2. g \in [1 .. Len(received) -> 1 .. Len(written)]
    BY <1>1, <2>1
  <2>3. Given(received, g, written, 1)
    BY <1>1 DEF Given
  <2> QED
    BY <2>2, <2>3
<1>10. Alone(received, written, 1, reader.pc, writer)
  BY <1>1, <1>3 DEF Alone
<1>11. Framed(1, f)
  BY <1>6, <1>7, <1>8, <1>9, <1>10, Zenon DEF Framed
<1>12. 1 \in 1 .. Len(written) + 1
  BY <1>1
<1> QED
  BY <1>2, <1>3, <1>5, <1>11, <1>12, Zenon DEF FramingInv

(* A step of which the stream and the messages know nothing.               *)
LEMMA OutsideKeeps ==
  ASSUME FramingInv,
         UNCHANGED <<stream, nsent, ends, written, received, whole, glued>>,
         whole => reader' \in Readers,
         ~glued => (reader'.pc = "error" => writer' = "reset"),
         ~glued => reader.pc # "closed",
         reader'.pc = "closed" => stream = <<>>
  PROVE  FramingInv'
<1> SUFFICES ASSUME whole PROVE FramingInv'
  BY DEF FramingInv
<1>1. /\ Formatted(written) /\ nsent \in Nat /\ received \in Seq(Message)
  BY DEF FramingInv
<1>2. PICK p \in 1 .. Len(written) + 1, f \in [1 .. Len(written) + 1 -> 0 .. nsent] :
        Framed(p, f)
  BY DEF FramingInv
<1>3. ASSUME ~glued PROVE Alone(received, written, p, reader'.pc, writer')
  <2>1. Alone(received, written, p, reader.pc, writer)
    BY <1>2, <1>3 DEF Framed
  <2>2. ASSUME reader'.pc = "closed" PROVE p = Len(written) + 1
    <3>1. PICK n \in Nat : n = Len(written)
      BY <1>1 DEF Formatted
    <3>2. Len(stream) = 0
      BY <2>2
    <3>3. f[n + 1] - f[p] = 0
      BY <1>2, <3>1, <3>2 DEF Framed, Holds
    <3>4. Starts(f, written, nsent) /\ written \in Seq(Message)
      BY <1>1, <1>2 DEF Framed, Formatted
    <3>5. /\ \A k \in 1 .. n + 1 : f[k] \in Nat
          /\ \A j, k \in 1 .. n + 1 : j < k => f[j] < f[k]
      BY <1>1, <3>1, <3>4, StartFacts
    <3>6. p \in 1 .. n + 1 /\ n + 1 \in 1 .. n + 1
      BY <3>1
    <3>7. ~(p < n + 1)
      <4> SUFFICES ASSUME p < n + 1 PROVE FALSE
        OBVIOUS
      <4>1. f[p] < f[n + 1] /\ f[p] \in Nat /\ f[n + 1] \in Nat
        BY <3>5, <3>6
      <4> QED
        BY <3>3, <4>1
    <3> QED
      BY <3>1, <3>6, <3>7
  <2> QED
    BY <1>3, <2>1, <2>2 DEF Alone
<1>4. Framed(p, f)'
  BY <1>2, <1>3 DEF Framed
<1> QED
  BY <1>1, <1>2, <1>4 DEF FramingInv

LEMMA LeaveKeeps ==
  ASSUME FramingInv, NEW how \in {"gone", "reset"}, Leave(how)
  PROVE  FramingInv'
<1>1. UNCHANGED <<stream, nsent, ends, written, received, whole, glued, reader>>
  BY DEF Leave
<1> SUFFICES ASSUME whole PROVE FramingInv'
  BY <1>1 DEF FramingInv
<1>2. /\ Formatted(written) /\ nsent \in Nat /\ received \in Seq(Message) /\ reader \in Readers
  BY DEF FramingInv
<1>3. PICK p \in 1 .. Len(written) + 1, f \in [1 .. Len(written) + 1 -> 0 .. nsent] :
        Framed(p, f)
  BY DEF FramingInv
<1>4. ~glued => Alone(received, written, p, reader.pc, writer')
  BY <1>3 DEF Framed, Alone, Leave
<1>5. Framed(p, f)'
  BY <1>1, <1>3, <1>4 DEF Framed
<1> QED
  BY <1>1, <1>2, <1>3, <1>5 DEF FramingInv

LEMMA StartReadKeeps ==
  ASSUME FramingInv, StartRead
  PROVE  FramingInv'
<1>1. /\ UNCHANGED <<stream, nsent, ends, written, received, whole, glued>>
      /\ reader' = [pc |-> "reading", buf |-> Buffer, msize |-> 0, msize_read |-> 0]
      /\ reader.pc = "idle"
  BY DEF StartRead
<1>2. reader' \in Readers /\ reader'.pc = "reading"
  BY <1>1 DEF Readers
<1> QED
  BY <1>1, <1>2, OutsideKeeps

LEMMA RecvEndKeeps ==
  ASSUME FramingInv, RecvEnd
  PROVE  FramingInv'
<1>1. /\ UNCHANGED <<stream, nsent, ends, written, received, whole, glued>>
      /\ reader.pc = "reading" /\ stream = <<>> /\ writer' = writer
  BY DEF RecvEnd
<1> SUFFICES ASSUME whole PROVE FramingInv'
  BY <1>1 DEF FramingInv
<1>2. reader \in Readers
  BY DEF FramingInv
<1>3. ~Again(reader.msize, reader.msize_read)
  BY <1>2 DEF Again, Readers
<1>4. CASE writer = "gone" /\ reader' = [reader EXCEPT !.pc = "closed"]
  <2>1. reader' \in Readers /\ reader'.pc = "closed"
    BY <1>2, <1>4 DEF Readers
  <2> QED
    BY <1>1, <2>1, OutsideKeeps
<1>5. CASE writer = "reset" /\ reader' = [reader EXCEPT !.pc = "error"]
  <2>1. reader' \in Readers /\ reader'.pc = "error"
    BY <1>2, <1>5 DEF Readers
  <2> QED
    BY <1>1, <1>5, <2>1, OutsideKeeps
<1> QED
  BY <1>3, <1>4, <1>5 DEF RecvEnd

(* A whole message is sent.                                                *)
LEMMA SendKeeps ==
  ASSUME FramingInv, NEW m \in Message, Len(m.payload) <= MaxPayload, m # NULL,
         ipc_write_fd(m)
  PROVE  FramingInv'
<1> SUFFICES ASSUME whole' PROVE FramingInv'
  BY DEF FramingInv
<1> DEFINE bytes == ipc_message_format_write(m)
<1>1. /\ written' = Append(written, m) /\ usock_send(bytes)
      /\ UNCHANGED <<writer, reader, received, glued>>
      /\ reader.pc \in {"idle", "reading"}
  BY DEF ipc_write_fd
<1>2. /\ stream' = stream \o bytes /\ nsent' = nsent + Len(bytes)
      /\ ends' = ends \cup {nsent + Len(bytes)} /\ whole' = whole
  BY <1>1 DEF usock_send
<1>3. /\ Formatted(written) /\ nsent \in Nat /\ received \in Seq(Message) /\ reader \in Readers
  BY <1>2 DEF FramingInv
<1>4. PICK p \in 1 .. Len(written) + 1, f \in [1 .. Len(written) + 1 -> 0 .. nsent] :
        Framed(p, f)
  BY <1>2 DEF FramingInv
<1>5. PICK w \in Seq(Message) : w = written
  BY <1>3 DEF Formatted
<1>6. PICK w2 \in Seq(Message) : w2 = Append(w, m)
  <2>1. Append(w, m) \in Seq(Message)
    OBVIOUS
  <2> QED
    BY <2>1
<1>7. PICK n \in Nat : n = Len(w)
  OBVIOUS
<1>8. Len(w2) = n + 1 /\ (\A k \in 1 .. n : w2[k] = w[k]) /\ w2[n + 1] = m
  BY <1>6, <1>7
<1>9. PICK top \in Nat : top = nsent
  BY <1>3
<1>14. Len(bytes) = Size(m) /\ Size(m) \in Nat /\ top + Size(m) \in Nat
  BY FormatFacts
<1>e. PICK end \in Nat : end = top + Size(m)
  BY <1>14
<1>10. PICK f2 : Extends(f2, f, Len(w), end)
  <2>1. PICK h : h = [k \in 1 .. n + 2 |-> IF k <= n + 1 THEN f[k] ELSE end]
    OBVIOUS
  <2>2. /\ DOMAIN h = 1 .. n + 2 /\ h = [k \in DOMAIN h |-> h[k]]
        /\ \A k \in 1 .. n + 1 : h[k] = f[k]
        /\ h[n + 2] = end
    BY <2>1
  <2> QED
    BY <1>7, <2>2 DEF Extends
<1>11. /\ Starts(f, w, top)
       /\ Formatted(w) /\ Holds(stream, f, w, p) /\ p \in 1 .. Len(w) + 1
  BY <1>3, <1>4, <1>5, <1>9 DEF Framed
<1>a. Starts(f2, w2, end)
  BY <1>6, <1>10, <1>11, <1>e, StartsAppend
<1>12. /\ f2[Len(w2) + 1] = end /\ f2 \in [1 .. Len(w2) + 1 -> 0 .. end]
       /\ \A k \in 1 .. Len(w) + 1 : f2[k] = f[k]
  BY <1>10, <1>a DEF Starts, Extends
<1>13. Holds(stream \o bytes, f2, w2, p)
  BY <1>6, <1>10, <1>11, <1>e, HoldsAppend
<1> HIDE DEF bytes
<1>15. written' = w2 /\ nsent' = end /\ stream' = stream \o bytes
  BY <1>1, <1>2, <1>5, <1>6, <1>9, <1>14, <1>e
<1>16. ends' = {f2[k] : k \in 2 .. Len(w2) + 1}
  <2>1. ends = {f[k] : k \in 2 .. n + 1}
    BY <1>4, <1>5, <1>7 DEF Framed
  <2>2. /\ \A k \in 2 .. n + 1 : k \in 1 .. Len(w) + 1 /\ k \in 2 .. Len(w2) + 1
        /\ \A k \in 2 .. Len(w2) + 1 : k \in 2 .. n + 1 \/ k = Len(w2) + 1
        /\ Len(w2) + 1 \in 2 .. Len(w2) + 1
    BY <1>7, <1>8
  <2>3. \A k \in 2 .. n + 1 : f2[k] = f[k]
    BY <1>12, <2>2
  <2>4. ends' = ends \cup {f2[Len(w2) + 1]}
    BY <1>2, <1>9, <1>12, <1>14, <1>e
  <2>5. \A v \in ends' : v \in {f2[k] : k \in 2 .. Len(w2) + 1}
    BY <2>1, <2>2, <2>3, <2>4
  <2>6. \A k \in 2 .. Len(w2) + 1 : f2[k] \in ends'
    BY <2>1, <2>2, <2>3, <2>4
  <2> QED
    BY <2>5, <2>6
<1>17. Formatted(w2)
  <2>1. \A k \in 1 .. n + 1 : k \in 1 .. n \/ k = n + 1
    OBVIOUS
  <2>2. \A k \in 1 .. n : Len(w[k].payload) <= MaxPayload /\ w[k] # NULL
    BY <1>7, <1>11 DEF Formatted
  <2> QED
    BY <1>8, <2>1, <2>2 DEF Formatted
<1>18. PICK g \in [1 .. Len(received) -> 1 .. n] : Given(received, g, w, p)
  BY <1>4, <1>5, <1>7 DEF Framed
<1>19. g \in [1 .. Len(received) -> 1 .. Len(w2)] /\ Given(received, g, w2, p)
  <2>1. \A v \in 1 .. n : v \in 1 .. Len(w2)
    BY <1>8
  <2>2. g \in [1 .. Len(received) -> 1 .. Len(w2)]
    BY <2>1
  <2>3. \A i \in 1 .. Len(received) : w2[g[i]] = w[g[i]]
    BY <1>8, <1>18
  <2> QED
    BY <1>18, <2>2, <2>3 DEF Given
<1>20. ~glued => Alone(received, w2, p, reader.pc, writer)
  <2> SUFFICES ASSUME ~glued PROVE Alone(received, w2, p, reader.pc, writer)
    OBVIOUS
  <2>1. Alone(received, w, p, reader.pc, writer)
    BY <1>4, <1>5 DEF Framed
  <2>2. \A i \in 1 .. Len(received) : i \in 1 .. n
    BY <1>3, <1>7, <1>11, <2>1 DEF Alone
  <2> QED
    BY <1>1, <1>8, <2>1, <2>2 DEF Alone
<1>21. Framed(p, f2)'
  <2>1. \E h \in [1 .. Len(received) -> 1 .. Len(w2)] : Given(received, h, w2, p)
    BY <1>19
  <2> QED
    BY <1>1, <1>13, <1>15, <1>16, <1>20, <1>a, <2>1 DEF Framed
<1>22. p \in 1 .. Len(w2) + 1
  BY <1>7, <1>8, <1>11
<1>23. f2 \in [1 .. Len(w2) + 1 -> 0 .. nsent'] /\ nsent' \in Nat
  BY <1>12, <1>14, <1>15
<1> QED
  BY <1>1, <1>3, <1>15, <1>17, <1>21, <1>22, <1>23 DEF FramingInv

(* What ipc_message_format makes of the arguments of the application.      *)
LEMMA WriteKeeps ==
  ASSUME FramingInv, NEW type \in Types, NEW utype \in UserTypes,
         NEW payload \in Payload \cup {NULL},
         Write(type, utype, payload, IF payload = NULL THEN 0 ELSE Len(payload))
  PROVE  FramingInv'
<1>1. PICK s : s = IF payload = NULL THEN <<>> ELSE payload
  OBVIOUS
<1>2. s \in Seq(Byte) /\ Len(s) <= MaxPayload
  <2>1. CASE payload = NULL
    <3>1. Len(<<>>) = 0 /\ <<>> \in Seq(Byte) /\ MaxPayload \in Nat
      BY SizeAssumption
    <3> QED
      BY <1>1, <2>1, <3>1
  <2>2. CASE payload # NULL
    <3>1. PICK n \in 0 .. MaxPayload : payload \in [1 .. n -> Content]
      BY <2>2 DEF Payload
    <3>2. n \in Nat /\ n <= MaxPayload
      BY <3>1, SizeAssumption
    <3>3. Content \subseteq Byte
      BY TypesAssumption
    <3>4. payload \in [1 .. n -> Byte]
      BY <3>1, <3>3
    <3>5. payload \in Seq(Byte) /\ Len(payload) = n
      BY <3>2, <3>4
    <3> QED
      BY <1>1, <2>2, <3>2, <3>5
  <2> QED
    BY <2>1, <2>2
<1>3. PICK m \in Message : m = [type |-> type, user_type |-> utype, payload |-> s]
  <2>1. type \in Byte /\ utype \in Byte
    BY TypesAssumption
  <2>2. [type |-> type, user_type |-> utype, payload |-> s] \in Message
    BY <1>2, <2>1 DEF Message
  <2> QED
    BY <2>2
<1>4. PICK a : a = ipc_message_format(type, utype, payload,
                                      IF payload = NULL THEN 0 ELSE Len(payload))
  OBVIOUS
<1>5. a # NULL /\ ipc_write_fd(a)
  BY <1>4 DEF Write
<1>6. a = m
  BY <1>1, <1>3, <1>4, <1>5 DEF ipc_message_format
<1>7. Len(m.payload) <= MaxPayload
  BY <1>2, <1>3
<1> QED
  BY <1>5, <1>6, <1>7, SendKeeps

(* The messages before the q-th are taken from the stream.                 *)
LEMMA HoldsRest ==
  ASSUME NEW w \in Seq(Message), Formatted(w), NEW top \in Nat, NEW f, Starts(f, w, top),
         NEW p \in 1 .. Len(w) + 1, NEW q \in 1 .. Len(w) + 1, p < q,
         NEW s, Holds(s, f, w, p), NEW n \in Nat, f[p] + n = f[q],
         NEW s2, s2 = SubSeq(s, n + 1, Len(s))
  PROVE  Holds(s2, f, w, q)
<1>1. PICK c \in Nat : c = Len(w)
  OBVIOUS
<1>2. PICK x \in Nat : x = f[p] /\ x <= top
  BY StartFacts
<1>3. PICK y \in Nat : y = f[q] /\ y <= top
  BY StartFacts
<1>4. PICK l \in Nat : l = Len(s)
  BY DEF Holds
<1>5. s \in Seq(Byte) /\ l = top - x /\ x + n = y
  BY <1>2, <1>3, <1>4 DEF Holds, Starts
<1>6. n <= l /\ l - n \in Nat /\ l - n = top - y /\ l - (n + 1) + 1 = l - n
  BY <1>3, <1>5
<1>7. /\ SubSeq(s, n + 1, l) \in Seq(Byte)
      /\ Len(SubSeq(s, n + 1, l)) = IF n + 1 <= l THEN l - (n + 1) + 1 ELSE 0
      /\ \A i \in 1 .. l - (n + 1) + 1 : SubSeq(s, n + 1, l)[i] = s[n + 1 + i - 1]
  <2>0. (\A i \in 1 .. Len(s) : s[i] \in Byte) /\ \A i \in n + 1 .. l : i \in 1 .. l
    BY <1>5
  <2>1. \A i \in n + 1 .. l : s[i] \in Byte
    BY <1>4, <2>0, Zenon
  <2> QED
    BY <2>1, SubSeqProperties
<1>8. s2 = SubSeq(s, n + 1, l)
  BY <1>4
<1>9. s2 \in Seq(Byte) /\ Len(s2) = l - n /\ \A i \in 1 .. l - n : s2[i] = s[n + i]
  <2>1. /\ ~(n + 1 <= l) => l - n = 0
        /\ \A i \in 1 .. l - n : n + 1 + i - 1 = n + i
    BY <1>6
  <2>2. Len(s2) = l - n
    BY <1>6, <1>7, <1>8, <2>1
  <2>3. \A i \in 1 .. l - n : s2[i] = s[n + 1 + i - 1]
    BY <1>6, <1>7, <1>8
  <2>4. \A i \in 1 .. l - n : s2[i] = s[n + i]
    BY <2>1, <2>3
  <2> QED
    BY <1>7, <1>8, <2>2, <2>4
<1>10. Len(s2) = f[Len(w) + 1] - f[q]
  BY <1>3, <1>6, <1>9 DEF Starts
<1>11. ASSUME NEW k \in q .. c, NEW i \in 1 .. Size(w[k])
       PROVE  s2[f[k] - f[q] + i] = ipc_message_format_write(w[k])[i]
  <2>1. k \in 1 .. c /\ k \in p .. c /\ k \in 1 .. c + 1 /\ k < c + 1 /\ c + 1 \in 1 .. c + 1
    BY <1>1
  <2>2. PICK v \in Nat : v = f[k]
    BY <1>1, <2>1, StartFacts
  <2>3. PICK z \in Nat : z = Size(w[k])
    BY <1>1, <2>1, StartFacts
  <2>4. v + z <= top
    BY <1>1, <2>1, <2>2, <2>3 DEF Starts
  <2>5. y <= v
    <3>1. CASE q = k
      BY <1>3, <2>2, <3>1
    <3>2. CASE q < k
      <4>1. f[q] < f[k]
        BY <1>1, <2>1, <3>2, StartFacts
      <4>2. y < v
        BY <1>3, <2>2, <4>1, Zenon
      <4> QED
        BY <4>2
    <3> QED
      BY <1>1, <3>1, <3>2
  <2>6. PICK j \in 1 .. z : j = i
    BY <2>3
  <2>7. v - y + j \in 1 .. l - n /\ n + (v - y + j) = v - x + j
    BY <1>5, <1>6, <2>4, <2>5
  <2>8. s2[v - y + j] = s[v - x + j]
    BY <1>9, <2>7
  <2>9. s[f[k] - f[p] + i] = ipc_message_format_write(w[k])[i]
    BY <1>1, <2>1 DEF Holds
  <2> QED
    BY <1>2, <1>3, <2>2, <2>6, <2>8, <2>9
<1> QED
  BY <1>1, <1>9, <1>10, <1>11 DEF Holds

(* The application is given message p.                                     *)
LEMMA GivenAppend ==
  ASSUME NEW w \in Seq(Message), NEW r \in Seq(Message), NEW p \in 1 .. Len(w),
         NEW q \in 1 .. Len(w) + 1, p < q,
         NEW g \in [1 .. Len(r) -> 1 .. Len(w)], Given(r, g, w, p),
         NEW r2, r2 = Append(r, w[p])
  PROVE  \E h \in [1 .. Len(r2) -> 1 .. Len(w)] : Given(r2, h, w, q)
<1>1. PICK n \in Nat : n = Len(r)
  OBVIOUS
<1>2. Len(r2) = n + 1 /\ (\A i \in 1 .. n : r2[i] = r[i]) /\ r2[n + 1] = w[p]
  BY <1>1
<1>3. PICK h : h = [i \in 1 .. n + 1 |-> IF i <= n THEN g[i] ELSE p]
  OBVIOUS
<1>4. (\A i \in 1 .. n : h[i] = g[i]) /\ h[n + 1] = p
  BY <1>3
<1>5. \A i \in 1 .. n + 1 : i \in 1 .. n \/ i = n + 1
  OBVIOUS
<1>6. \A i \in 1 .. n : g[i] \in 1 .. Len(w) /\ g[i] < p /\ r[i] = w[g[i]]
  BY <1>1 DEF Given
<1>7. \A i \in 1 .. n + 1 : h[i] \in 1 .. Len(w)
  BY <1>4, <1>5, <1>6
<1>8. h \in [1 .. Len(r2) -> 1 .. Len(w)]
  BY <1>2, <1>3, <1>7
<1>9. \A i \in 1 .. n + 1 : r2[i] = w[h[i]]
  BY <1>2, <1>4, <1>5, <1>6
<1>10. \A v \in 1 .. Len(w) : v < p => v < q
  OBVIOUS
<1>11. \A i \in 1 .. n + 1 : h[i] < q
  BY <1>4, <1>5, <1>6, <1>10
<1>12. ASSUME NEW i \in 1 .. n + 1, NEW j \in 1 .. n + 1, i < j PROVE h[i] < h[j]
  <2>1. i \in 1 .. n
    BY <1>12
  <2>2. CASE j \in 1 .. n
    <3>1. g[i] < g[j]
      BY <1>1, <1>12, <2>1, <2>2 DEF Given
    <3> QED
      BY <1>4, <2>1, <2>2, <3>1
  <2>3. CASE j = n + 1
    <3>1. g[i] < p
      BY <1>6, <2>1
    <3> QED
      BY <1>4, <2>1, <2>3, <3>1
  <2> QED
    BY <1>5, <2>2, <2>3
<1>13. Given(r2, h, w, q)
  BY <1>2, <1>9, <1>11, <1>12 DEF Given
<1> QED
  BY <1>8, <1>13

(* recv(2) takes whole messages: the first is read, or refused because of  *)
(* those behind it.                                                        *)
LEMMA RecvKeeps ==
  ASSUME FramingInv, NEW n \in 1 .. MaxSize, Recv(n)
  PROVE  FramingInv'
<1> SUFFICES ASSUME whole' PROVE FramingInv'
  BY DEF FramingInv
<1> DEFINE buf == [k \in 1 .. MaxSize |-> IF k <= n THEN stream[k] ELSE reader.buf[k]]
           length == IF reader.msize = 0 THEN ntohl(buf[2], buf[3]) ELSE reader.msize
           nread == reader.msize_read + n
           read == ipc_message_format_read(buf, nread)
<1>1. /\ reader.pc = "reading" /\ n \in 1 .. Len(stream)
      /\ stream' = SubSeq(stream, n + 1, Len(stream))
      /\ whole /\ nsent - Len(stream) + n \in ends
      /\ glued' = (glued \/ \E e \in ends : nsent - Len(stream) < e
                                            /\ e < nsent - Len(stream) + n)
      /\ UNCHANGED <<writer, nsent, ends, written>>
  BY DEF Recv
<1>2. \/ /\ ~TooLong(length) /\ Again(length, nread)
      \/ /\ ~TooLong(length) /\ ~Again(length, nread) /\ read # NULL
         /\ reader' = [pc |-> "idle", buf |-> Buffer, msize |-> 0, msize_read |-> 0]
         /\ received' = Append(received, read)
      \/ /\ TooLong(length) \/ (~Again(length, nread) /\ read = NULL)
         /\ reader' = [pc |-> "error", buf |-> Buffer, msize |-> 0, msize_read |-> 0]
         /\ received' = received
  BY DEF Recv
<1>3. /\ Formatted(written) /\ nsent \in Nat /\ received \in Seq(Message) /\ reader \in Readers
  BY <1>1 DEF FramingInv
<1>4. PICK p \in 1 .. Len(written) + 1, f \in [1 .. Len(written) + 1 -> 0 .. nsent] :
        Framed(p, f)
  BY <1>1 DEF FramingInv
<1>5. PICK w \in Seq(Message) : w = written
  BY <1>3 DEF Formatted
<1>6. PICK c \in Nat : c = Len(w)
  OBVIOUS
<1>7. PICK top \in Nat : top = nsent
  BY <1>3
<1>8. /\ Starts(f, w, top) /\ Formatted(w) /\ Holds(stream, f, w, p) /\ p \in 1 .. c + 1
      /\ ends = {f[k] : k \in 2 .. c + 1}
  BY <1>3, <1>4, <1>5, <1>6, <1>7 DEF Framed
<1>9. PICK x \in Nat : x = f[p]
  BY <1>6, <1>8, StartFacts
<1>10. PICK l \in Nat : l = Len(stream) /\ n <= l
  BY <1>1, <1>8 DEF Holds
<1>11. l = top - x /\ stream \in Seq(Byte)
  BY <1>8, <1>9, <1>10 DEF Holds, Starts
<1>12. nsent - Len(stream) = x
  BY <1>7, <1>10, <1>11
<1>13. PICK q \in 2 .. c + 1 : f[q] = x + n
  BY <1>1, <1>8, <1>12
<1>14. q \in 1 .. c + 1 /\ p < q /\ p \in 1 .. c
  <2>1. q \in 1 .. c + 1
    OBVIOUS
  <2>2. ~(q < p) /\ q # p
    <3>1. x < x + n /\ ~(x + n < x)
      OBVIOUS
    <3>2. q # p
      BY <1>9, <1>13, <3>1
    <3>3. ASSUME q < p PROVE FALSE
      <4>1. f[q] < f[p]
        BY <1>6, <1>8, <2>1, <3>3, StartFacts
      <4> QED
        BY <1>9, <1>13, <3>1, <4>1
    <3> QED
      BY <3>2, <3>3
  <2> QED
    BY <1>8, <2>1, <2>2
<1>15. PICK m \in Message : m = w[p] /\ Len(m.payload) <= MaxPayload /\ m # NULL
  BY <1>6, <1>8, <1>14 DEF Formatted
<1>16. PICK z \in Nat : z = Size(m) /\ z >= 4
  BY <1>15, FormatFacts
<1>17. z <= n
  <2>1. f[p] + Size(w[p]) <= f[q]
    BY <1>6, <1>8, <1>14 DEF Starts
  <2>2. x + z <= x + n
    BY <1>9, <1>13, <1>15, <1>16, <2>1, Zenon
  <2> QED
    BY <2>2
<1>18. z # n => glued'
  <2> SUFFICES ASSUME z # n PROVE glued'
    OBVIOUS
  <2>1. f[p + 1] = x + z
    BY <1>6, <1>8, <1>9, <1>14, <1>15, <1>16 DEF Starts
  <2>2. p + 1 \in 2 .. c + 1
    BY <1>14
  <2>3. x < x + z /\ x + z < x + n
    BY <1>16, <1>17
  <2>4. x + z \in ends
    BY <1>8, <2>1, <2>2
  <2> QED
    BY <1>1, <1>12, <2>3, <2>4
<1>19. reader.msize = 0 /\ reader.msize_read = 0 /\ reader.buf = Buffer /\ nread = n
  BY <1>3 DEF Readers
<1>20. buf \in [1 .. MaxSize -> Byte] /\ \A i \in 1 .. z : buf[i] = ipc_message_format_write(m)[i]
  <2>0. MaxSize \in Nat /\ n \in Nat
    BY SizeAssumption
  <2>1. \A k \in 1 .. MaxSize : k <= n => stream[k] \in Byte
    <3>1. \A k \in 1 .. MaxSize : k <= n => k \in 1 .. l
      BY <1>10, <2>0
    <3>2. \A k \in 1 .. Len(stream) : stream[k] \in Byte
      BY <1>11
    <3> QED
      BY <1>10, <3>1, <3>2, Zenon
  <2>2. \A k \in 1 .. MaxSize : Buffer[k] \in Byte
    BY SizeAssumption DEF Buffer, Byte
  <2>3. buf \in [1 .. MaxSize -> Byte]
    BY <1>19, <2>1, <2>2
  <2>4. \A i \in 1 .. z : i \in 1 .. MaxSize /\ i <= n
    BY <1>17, <2>0
  <2>5. \A i \in 1 .. z : stream[i] = ipc_message_format_write(m)[i]
    <3>1. p \in p .. Len(w)
      BY <1>6, <1>14
    <3>2. \A i \in 1 .. Size(w[p]) : stream[f[p] - f[p] + i] = ipc_message_format_write(w[p])[i]
      BY <1>8, <3>1 DEF Holds
    <3>3. \A i \in 1 .. z : x - x + i = i
      OBVIOUS
    <3> QED
      BY <1>9, <1>15, <1>16, <3>2, <3>3
  <2> QED
    BY <2>3, <2>4, <2>5
<1> HIDE DEF buf
<1>21. /\ length = Len(m.payload) /\ ~TooLong(length) /\ ~Again(length, nread)
       /\ read \in {m, NULL} /\ (z = n => read = m)
  <2>1. /\ ntohl(buf[2], buf[3]) = Len(m.payload)
        /\ ~TooLong(Len(m.payload)) /\ ~Again(Len(m.payload), n)
        /\ ipc_message_format_read(buf, n) \in {m, NULL}
        /\ Size(m) = n => ipc_message_format_read(buf, n) = m
    <3>1. Size(m) <= n /\ \A i \in 1 .. Size(m) : buf[i] = ipc_message_format_write(m)[i]
      BY <1>16, <1>17, <1>20
    <3> QED
      BY <1>15, <1>20, <3>1, ReadFormatted
  <2> QED
    BY <1>16, <1>19, <2>1
<1> HIDE DEF length, nread, read
<1>22. Holds(stream', f, w, q)
  <2>1. f[p] + n = f[q]
    BY <1>9, <1>13
  <2>2. p \in 1 .. Len(w) + 1 /\ q \in 1 .. Len(w) + 1 /\ n \in Nat
    BY <1>6, <1>8, <1>14
  <2> QED
    BY <1>1, <1>8, <1>14, <2>1, <2>2, HoldsRest
<1>23. PICK g \in [1 .. Len(received) -> 1 .. Len(w)] : Given(received, g, w, p)
  BY <1>4, <1>5 DEF Framed
<1>24. ASSUME NEW r \in Seq(Message), received' = r, reader' \in Readers,
              \E h \in [1 .. Len(r) -> 1 .. Len(w)] : Given(r, h, w, q),
              ~glued' => Alone(r, w, q, reader'.pc, writer)
       PROVE  FramingInv'
  <2>1. Framed(q, f)'
    BY <1>1, <1>5, <1>6, <1>7, <1>8, <1>22, <1>24 DEF Framed
  <2>2. q \in 1 .. Len(written) + 1
    BY <1>5, <1>6, <1>14
  <2> QED
    BY <1>1, <1>3, <1>4, <1>24, <2>1, <2>2 DEF FramingInv
<1>25. CASE /\ read # NULL /\ received' = Append(received, read)
            /\ reader' = [pc |-> "idle", buf |-> Buffer, msize |-> 0, msize_read |-> 0]
  <2>1. read = m
    BY <1>21, <1>25
  <2>2. PICK r \in Seq(Message) : r = received
    BY <1>3
  <2>3. PICK r2 \in Seq(Message) : r2 = Append(r, w[p])
    <3>1. Append(r, m) \in Seq(Message)
      OBVIOUS
    <3> QED
      BY <1>15, <3>1
  <2>4. received' = r2
    BY <1>15, <1>25, <2>1, <2>2, <2>3
  <2>5. reader' \in Readers /\ reader'.pc = "idle"
    BY <1>25 DEF Readers
  <2>6. \E h \in [1 .. Len(r2) -> 1 .. Len(w)] : Given(r2, h, w, q)
    <3>1. p \in 1 .. Len(w) /\ q \in 1 .. Len(w) + 1 /\ p < q
      BY <1>6, <1>14
    <3>2. g \in [1 .. Len(r) -> 1 .. Len(w)] /\ Given(r, g, w, p)
      BY <1>23, <2>2
    <3> QED
      BY <2>3, <3>1, <3>2, GivenAppend
  <2>7. ASSUME ~glued' PROVE Alone(r2, w, q, reader'.pc, writer)
    <3>1. ~glued /\ z = n
      BY <1>1, <1>18, <2>7
    <3>2. Alone(r, w, p, reader.pc, writer)
      BY <1>4, <1>5, <2>2, <3>1 DEF Framed
    <3>3. q = p + 1
      <4>1. p + 1 \in 1 .. c + 1 /\ f[p + 1] = x + n
        <5>1. f[p + 1] = f[p] + Size(w[p])
          BY <1>6, <1>8, <1>14 DEF Starts
        <5>2. p + 1 \in 1 .. c + 1
          BY <1>14
        <5> QED
          BY <1>9, <1>15, <1>16, <3>1, <5>1, <5>2, Zenon
      <4>2. ~(p + 1 < q)
        <5> SUFFICES ASSUME p + 1 < q PROVE FALSE
          OBVIOUS
        <5>1. f[p + 1] < f[q]
          BY <1>6, <1>8, <1>14, <4>1, StartFacts
        <5>2. x + n < x + n
          BY <1>13, <4>1, <5>1, Zenon
        <5> QED
          BY <5>2
      <4> QED
        BY <1>14, <4>2
    <3>4. Len(r) = p - 1 /\ \A i \in 1 .. Len(r) : r[i] = w[i]
      BY <3>2 DEF Alone
    <3>5. PICK k \in Nat : k = Len(r) /\ p = k + 1
      BY <1>14, <3>4
    <3>6. Len(r2) = k + 1 /\ (\A i \in 1 .. k : r2[i] = r[i]) /\ r2[k + 1] = w[p]
      BY <2>3, <3>5
    <3>7. \A i \in 1 .. k + 1 : i \in 1 .. k \/ i = k + 1
      OBVIOUS
    <3>8. \A i \in 1 .. Len(r2) : r2[i] = w[i]
      BY <3>4, <3>5, <3>6, <3>7
    <3>9. Len(r2) = q - 1
      BY <3>3, <3>5, <3>6
    <3> QED
      BY <2>5, <3>8, <3>9 DEF Alone
  <2> QED
    BY <1>24, <2>4, <2>5, <2>6, <2>7
<1>26. CASE /\ read = NULL /\ received' = received
            /\ reader' = [pc |-> "error", buf |-> Buffer, msize |-> 0, msize_read |-> 0]
  <2>1. glued'
    BY <1>15, <1>18, <1>21, <1>26
  <2>2. reader' \in Readers
    BY <1>26 DEF Readers
  <2>3. Given(received, g, w, q)
    <3>1. \A v \in 1 .. Len(w) : v < p => v < q
      BY <1>6, <1>14
    <3>2. \A i \in 1 .. Len(received) : g[i] \in 1 .. Len(w)
      BY <1>23
    <3> QED
      BY <1>23, <3>1, <3>2 DEF Given
  <2> QED
    BY <1>3, <1>23, <1>24, <1>26, <2>1, <2>2, <2>3
<1> QED
  BY <1>2, <1>21, <1>25, <1>26

-----------------------------------------------------------------------------

LEMMA FramingNext == FramingInv /\ [Next]_vars => FramingInv'
<1> SUFFICES ASSUME FramingInv, [Next]_vars PROVE FramingInv'
  OBVIOUS
<1>1. CASE Writer
  BY <1>1, WriteKeeps, LeaveKeeps DEF Writer
<1>2. CASE Reader
  BY <1>2, StartReadKeeps, RecvKeeps, RecvEndKeeps DEF Reader
<1>3. CASE UNCHANGED vars
  BY <1>3 DEF FramingInv, Framed, vars
<1>4. CASE Over
  BY <1>3, <1>4 DEF Over
<1> QED
  BY <1>1, <1>2, <1>3, <1>4 DEF Next

LEMMA FramingAlways == Spec => []FramingInv
BY FramingInit, FramingNext, PTL DEF Spec

(* As long as recv(2) takes whole messages, even several in one piece, the *)
(* messages that usock_recv and ipc_message_format_read give to the        *)
(* application were written, are unaltered and in order.                   *)
THEOREM IntactAlways == Spec => []Intact
<1>1. FramingInv => Intact
  <2> SUFFICES ASSUME FramingInv, whole PROVE Subsequence(received, written)
    BY DEF Intact
  <2>1. PICK p \in 1 .. Len(written) + 1, f \in [1 .. Len(written) + 1 -> 0 .. nsent] :
          Framed(p, f)
    BY DEF FramingInv
  <2>2. PICK g \in [1 .. Len(received) -> 1 .. Len(written)] :
          Given(received, g, written, p)
    BY <2>1 DEF Framed
  <2> QED
    BY <2>2 DEF Subsequence, Given
<1> QED
  BY <1>1, FramingAlways, PTL

(* As long as recv(2) takes one message at a time, the application gets    *)
(* every message: those given are the first ones written, the connection   *)
(* fails only when the writer was reset, and when it is closed nothing is  *)
(* left.                                                                   *)
THEOREM OneAtATimeAlways == Spec => []OneAtATime
<1>1. FramingInv => OneAtATime
  <2> SUFFICES ASSUME FramingInv, whole, ~glued
               PROVE  /\ Len(received) <= Len(written)
                      /\ received = SubSeq(written, 1, Len(received))
                      /\ reader.pc = "error" => writer = "reset"
                      /\ reader.pc = "closed" => received = written
    BY DEF OneAtATime
  <2>1. PICK p \in 1 .. Len(written) + 1, f \in [1 .. Len(written) + 1 -> 0 .. nsent] :
          Framed(p, f)
    BY DEF FramingInv
  <2>2. Alone(received, written, p, reader.pc, writer)
    BY <2>1 DEF Framed
  <2>3. PICK w \in Seq(Message) : w = written
    BY DEF FramingInv, Formatted
  <2>4. PICK r \in Seq(Message) : r = received
    BY DEF FramingInv
  <2>5. PICK n \in Nat : n = Len(r) /\ n <= Len(w) /\ n = p - 1
    BY <2>2, <2>3, <2>4 DEF Alone
  <2>6. \A i \in 1 .. n : r[i] = w[i]
    BY <2>2, <2>3, <2>4, <2>5 DEF Alone
  <2>7. r = SubSeq(w, 1, n)
    <3>1. \A i \in 1 .. n : i \in 1 .. Len(w)
      BY <2>5
    <3>2. \A i \in 1 .. n : w[i] \in Message
      BY <3>1
    <3>3. /\ SubSeq(w, 1, n) \in Seq(Message)
          /\ Len(SubSeq(w, 1, n)) = IF 1 <= n THEN n - 1 + 1 ELSE 0
          /\ \A i \in 1 .. n - 1 + 1 : SubSeq(w, 1, n)[i] = w[1 + i - 1]
      BY <3>2, SubSeqProperties
    <3>4. n - 1 + 1 = n /\ (~(1 <= n) => n = 0) /\ \A i \in 1 .. n : 1 + i - 1 = i
      OBVIOUS
    <3>5. PICK v \in Seq(Message) : v = SubSeq(w, 1, n)
      BY <3>3
    <3>6. Len(v) = n /\ \A i \in 1 .. n : v[i] = w[i]
      BY <3>3, <3>4, <3>5
    <3>7. Len(r) = Len(v) /\ \A i \in 1 .. Len(r) : r[i] = v[i]
      BY <2>5, <2>6, <3>6
    <3> QED
      BY <3>5, <3>7, SeqEqual
  <2>8. reader.pc = "closed" => r = w
    <3> SUFFICES ASSUME reader.pc = "closed" PROVE r = w
      OBVIOUS
    <3>1. n = Len(w)
      BY <2>2, <2>3, <2>5 DEF Alone
    <3> QED
      BY <2>5, <2>6, <3>1, SeqEqual
  <2> QED
    BY <2>2, <2>3, <2>4, <2>5, <2>7, <2>8 DEF Alone
<1> QED
  BY <1>1, FramingAlways, PTL

=============================================================================
