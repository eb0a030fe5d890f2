SPECIFICATION DataSpec
CONSTANTS
  None = None
  \* the processes
  Proc = {p1, p2, p3, p4}
  Desc = {d1, d2, d3}
  MaxOpen = 2
  \* tables of three entries, sizes that wrap at 8, and one key more than a
  \* table holds
  Key = {k1, k2, k3, k4}
  Value = {v1, v2}
  Sizes = {1, 2, 7}
  HashModulus = 8
  Spare = 1
  Object = {1, 2, 3, 4, 5, 6, 7, 8}
  \* up to two triples of octets with every kind of bits at the borders
  Octet = {0, 89, 255}
  MaxLength = 6
  TextModulus = 65536
  \* signed chars, and strings of up to three octets from both sides of 128
  HexOctet = {0, 10, 127, 128, 255}
  HexLength = 3
  CharSigned = TRUE
  \* the first second of 1970, a leap day, the end of a leap year, a July, and
  \* the last second of 32 bits
  Moments = {0, 951782400, 978307199, 994291200, 2147400000}
  Microseconds = {1999}
  Zones <- FourZones
  \* paths of which those of up to four characters fit the code's own buffer
  Path <- Paths
  SKY_PATH_MAX = 4
  Buffers = {1, 2, 4}
SYMMETRY Symmetry
INVARIANTS InstanceLock TextInverts HalvesJoin
PROPERTIES HashIsMap DateKeepsMoment
