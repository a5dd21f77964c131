--------------------------- MODULE I2CInterface ---------------------------
(***************************************************************************)
(* Registers and their bit fields on an I2C bus (src/instro/i2c/i2c.py,     *)
(* types.py).  A register is the integer on the bus; a field is a record of *)
(* its lowest bit and its width.  The adapter has no lock of its own:       *)
(* write() and query() hold the instrument's _resource_lock, read() and the *)
(* raw calls do not.                                                       *)
(***************************************************************************)
EXTENDS VisaDriver

Fields == {"mode", "gain"}
FieldDef == [mode |-> [lsb |-> 0, width |-> 1], gain |-> [lsb |-> 1, width |-> 2]]
RegisterBits == 3

(* (raw & mask) >> lsb.                                                    *)
Extract(raw, f) == (raw \div 2 ^ FieldDef[f].lsb) % 2 ^ FieldDef[f].width

(* (raw & ~mask) | ((value << lsb) & mask): a value too wide loses its top. *)
Insert(raw, f, value) ==
    raw + ((value % 2 ^ FieldDef[f].width) - Extract(raw, f)) * 2 ^ FieldDef[f].lsb

Register == <<"register", 0>>

(* A repeated START: address and contents in one transaction.              *)
WriteReadRaw == Ask(Register)

(* write() of a field reads, changes and writes back; of a register, writes. *)
I2CWrite(c) ==
    IF c.name \in Fields THEN WriteReadRaw \o Step("merge", <<c.name, 0>>, c.val)
    ELSE Put(Register, c.val)

(* query(): write and read of a command device with a STOP in between.     *)
WriteThenRead == Put(<<"command", 0>>, 0) \o Ask(<<"command", 0>>)

DefaultValue == 0

I2CSteps(c) ==
    CASE c.op = "set" -> I2CWrite(c)
      [] c.op = "get" -> WriteReadRaw
      [] c.op = "reset" -> Put(Register, DefaultValue)
      [] c.op = "query" -> WriteThenRead

(* read() goes to the adapter without the lock.                            *)
I2CLocks(c) == c.op # "get"
=============================================================================
