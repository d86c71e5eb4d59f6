--------------------------------- MODULE Pci ---------------------------------
(***************************************************************************)
(* The scan of the PCI buses (kernel/pci.c) and the choice of the network  *)
(* controller from what it found (nic_init of kernel/nic.c).               *)
(*                                                                         *)
(* A slot holds nothing or a card with functions; function 0 says whether  *)
(* there are others.  A card with one function may answer for each of the  *)
(* other numbers too.                                                      *)
(***************************************************************************)
EXTENDS Integers, Sequences

CONSTANTS
  PciSlots,                       \* number of slots, over all buses
  Functions,                      \* number of functions of a card: 8
  Cards,                          \* what a slot may hold: multi, and kind of each function
  E1000_IDS,                      \* e1000_ids, in order
  RTL8139_ID,
  PCI_MAX_DEVICES

ASSUME PciAssumption == \A card \in Cards : DOMAIN card.kind = 0..(Functions - 1)

VARIABLES
  slots,                          \* the machine
  pci_slot,                       \* the slot that is checked next
  pci_devices,                    \* found: slot, function, kind, bar
  driver, nic_dev,                \* nic_state: driver_type, and the device of irq and bar
  mastering, unmasked             \* functions that may use the bus, interrupt lines let through

pciVars == <<slots, pci_slot, pci_devices, driver, nic_dev, mastering, unmasked>>

EMPTY == "empty"                  \* vendor 0xFFFF
NODEV == [kind |-> EMPTY]

PciInit ==
  /\ pci_slot = 0 /\ pci_devices = <<>> /\ driver = "None" /\ nic_dev = NODEV
  /\ mastering = {} /\ unmasked = {}

\* What pci_config_read finds of a function.
pci_config_read(card, func) == card.kind[IF card.multi \/ ~card.alias THEN func ELSE 0]

Found(s, card, func) ==
  [slot |-> s, func |-> func, kind |-> card.kind[IF card.multi THEN func ELSE 0], bar |-> card.bar, irq |-> card.irq]

pci_check_device(list, s, card) ==
  LET last == IF card.multi THEN Functions ELSE 1
      f[i \in 0..last] ==
        IF i = 0 THEN list
        ELSE IF pci_config_read(card, i - 1) = EMPTY \/ Len(f[i - 1]) >= PCI_MAX_DEVICES THEN f[i - 1]
        ELSE Append(f[i - 1], Found(s, card, i - 1))
  IN IF pci_config_read(card, 0) = EMPTY THEN list ELSE f[last]

pci_init ==
  /\ pci_slot < PciSlots /\ pci_slot' = pci_slot + 1
  /\ pci_devices' = pci_check_device(pci_devices, pci_slot, slots[pci_slot])
  /\ UNCHANGED <<slots, driver, nic_dev, mastering, unmasked>>

-----------------------------------------------------------------------------
\* The first device of a kind, or NODEV.
pci_find_device(kind) ==
  LET at == {i \in 1..Len(pci_devices) : pci_devices[i].kind = kind}
  IN IF at = {} THEN NODEV ELSE pci_devices[CHOOSE i \in at : \A j \in at : i <= j]

\* The checks at the head of e1000_init_device and rtl8139_init_device: bar[0] must be
\* memory for the one, and not 0 for either.
Usable(dev) == dev # NODEV /\ dev.bar # "none" /\ (dev.kind # RTL8139_ID => dev.bar = "memory")

\* The line is unmasked, and with a line of the second controller the cascade.
LinesOf(irq) == IF irq \notin 1..15 THEN {} ELSE {irq} \cup (IF irq >= 8 THEN {2} ELSE {})
Starts(dev, name) ==
  /\ driver' = name /\ nic_dev' = dev
  /\ mastering' = mastering \cup {<<dev.slot, dev.func>>} /\ unmasked' = unmasked \cup LinesOf(dev.irq)

nic_init ==
  LET good == {i \in 1..Len(E1000_IDS) : Usable(pci_find_device(E1000_IDS[i]))}
  IN /\ pci_slot = PciSlots /\ pci_slot' = PciSlots + 1
     /\ IF good # {} THEN Starts(pci_find_device(E1000_IDS[CHOOSE i \in good : \A j \in good : i <= j]), "E1000")
        ELSE IF Usable(pci_find_device(RTL8139_ID)) THEN Starts(pci_find_device(RTL8139_ID), "RTL8139")
        ELSE UNCHANGED <<driver, nic_dev, mastering, unmasked>>
     /\ UNCHANGED <<slots, pci_devices>>

PciNext == pci_init \/ nic_init

-----------------------------------------------------------------------------
Real == {<<s, f>> \in (0..(PciSlots - 1)) \X (0..(Functions - 1)) :
           /\ slots[s].kind[0] # EMPTY /\ slots[s].kind[f] # EMPTY
           /\ f = 0 \/ slots[s].multi}
Precedes(a, b) == a[1] < b[1] \/ (a[1] = b[1] /\ a[2] < b[2])
Place(dev) == <<dev.slot, dev.func>>

\* The scan lists every function of every card once and in order, and no answer of a
\* card twice; what does not fit the table comes after all that is in it.
ScanComplete ==
  pci_slot >= PciSlots =>
    LET listed == {Place(pci_devices[i]) : i \in 1..Len(pci_devices)}
    IN /\ listed \subseteq Real
       /\ \A i, j \in 1..Len(pci_devices) : i < j => Precedes(Place(pci_devices[i]), Place(pci_devices[j]))
       /\ Len(pci_devices) < PCI_MAX_DEVICES => listed = Real
       /\ \A r \in Real \ listed, l \in listed : Precedes(l, r)

\* A machine with one usable controller uses it, whatever else is there, with the bus
\* and the way of its interrupts open, and no other card was given the bus.
NicStarted ==
  pci_slot > PciSlots =>
    LET kinds == {E1000_IDS[i] : i \in 1..Len(E1000_IDS)} \cup {RTL8139_ID}
        nics == {i \in 1..Len(pci_devices) : pci_devices[i].kind \in kinds}
        usable == {i \in nics : Usable(pci_devices[i])}
    IN /\ usable # {} /\ (\A i, j \in nics : pci_devices[i].kind = pci_devices[j].kind => i = j) => driver # "None"
       /\ driver # "None" => /\ \E i \in usable : pci_devices[i] = nic_dev
                             /\ mastering = {Place(nic_dev)} /\ unmasked = LinesOf(nic_dev.irq)

=============================================================================
