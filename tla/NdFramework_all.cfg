SPECIFICATION Spec
CONSTANTS
  Users = {u1, u2}
  Providers = {"rdma", "other"}
  Addresses = {a4, a6}
  IPv4 = {a4}
  Version <- AllV2
  MaxChanges = 1
  Nobody = Nobody
INVARIANTS
  UserSafe
  AddressesServed
  AdapterBacked
  LengthIsOfBuffer
  TablesCurrent
