----------------------------- MODULE DataMemory -----------------------------
(***************************************************************************)
(* Data memory: four byte lanes per word, little endian, combinational     *)
(* reads, one store per clock.                                             *)
(***************************************************************************)
EXTENDS AddressMap

VARIABLE dmem

DataMemoryTypeOK == dmem \in [0 .. (RamSize - 1) -> Byte]

DataMemoryInit == dmem = [a \in 0 .. (RamSize - 1) |-> 0]

\* The read port: out of range and misaligned reads return 0.
DataMemoryRead(i, address) ==
    IF InBounds(address) /\ ~Misaligned(i, address) THEN LoadValue(dmem, i, address) ELSE 0

DataMemoryTick(memWrite, i, address, writeData) ==
    dmem' = IF memWrite /\ InBounds(address) /\ ~Misaligned(i, address)
            THEN StoreValue(dmem, i, address, writeData)
            ELSE dmem
=============================================================================
