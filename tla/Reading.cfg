SPECIFICATION Spec
CONSTANTS
    Invoices <- MCInvoices
    Tdlap <- MCTdlap
    Lines <- MCLines
    Sorts <- MCSorts
    Column <- MCColumn
    Chieu <- MCChieu
    Number <- MCNumber
    Seller <- MCSeller
    Sign <- MCSign
    Codes <- MCCodes
    Filters <- MCFilters
    Picks <- MCPicks
    ViewFilter <- MCViewFilter
    PageSize = 2
    Limit = 2
    MaxGaps = 1
    MaxChanges = 1
INVARIANTS
    ExportInv
    ExportReadsRight
    NoPageSkips
    ReportsAreRight
PROPERTY
    DoneIsShown
